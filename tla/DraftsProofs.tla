---------------------------- MODULE DraftsProofs ----------------------------
(***************************************************************************)
(* Theorems about Drafts, for every set of drafts and of habits.           *)
(*                                                                         *)
(* Whether a file survives is decided where the threads meet: the worker   *)
(* replaces the files of one draft while the UI thread deletes drafts and  *)
(* publishes imported ones.  The inductive invariant says that the worker  *)
(* never has a draft in hand that an import still has to publish, that     *)
(* only drafts with a directory have files, and that a backup still there  *)
(* when the worker would move it back is what was last put.                *)
(***************************************************************************)
EXTENDS Drafts, SequenceTheorems, TLAPS

-----------------------------------------------------------------------------
(* The inductive invariant *)

Senders == {"ui", "template", "agent"}
Messages ==
  [by : Senders, op : {"save", "new", "open", "publish", "template", "edit"},
   draft : Draft \cup {NoDraft}, doc : Document]

TypeOK ==
  /\ dir \subseteq Draft
  /\ file \in [Place -> Document \cup {Nothing}]
  /\ aside \in [Place -> SUBSET Document]
  /\ kept \in [Place -> Document \cup {Nothing}]
  /\ job \in Jobs
  /\ habit \in Habits /\ made \in Nat /\ requests \in Nat /\ ends \in Nat
  /\ used \subseteq Draft /\ deleted \subseteq Draft /\ revived \subseteq Draft
  /\ ui \in Seq(Messages) /\ template \in Seq(Messages) /\ queue \in Seq(Messages)
  /\ gallery \in BOOLEAN
  /\ bound \in Draft \cup {NoDraft}
  /\ doc \in Document /\ saved \in Document /\ own \in Document
  /\ told \in BOOLEAN
  /\ shown \in Draft \cup {NoDraft} /\ chat \in Draft \cup {NoDraft}
  /\ epoch \in BOOLEAN

(* Only a draft that was given out and has its directory has files.        *)
FilesInv ==
  \A p \in Place :
    /\ file[p] # Nothing => file[p] = kept[p] /\ p[1] \in dir /\ p[1] \in used
    /\ aside[p] # {} => p[1] \in dir /\ p[1] \in used

(* What the worker has in hand.                                            *)
JobInv ==
  /\ ~At("idle") => job.draft \in Draft
  /\ job.temp => job.draft \in dir
  /\ At("swap") \/ At("restore") =>
       (job.old \in aside[Destination] => kept[Destination] = job.old)

(* Nobody speaks of a draft that was not given out.                        *)
Known(d) == d \in used \cup {NoDraft}

NamesInv ==
  /\ Known(job.draft) /\ Known(bound) /\ Known(chat) /\ Known(shown)
  /\ deleted \subseteq used
  /\ \A i \in 1..Len(queue) : Known(queue[i].draft)
  /\ \A i \in 1..Len(ui) : Known(ui[i].draft)
  /\ \A i \in 1..Len(template) : template[i].draft = NoDraft

(* A request publishes first, and only one that opens has a draft to open. *)
ShapeInv ==
  /\ \A i \in 2..Len(ui) : ui[i].op # "publish"
  /\ \A i \in 1..Len(ui) : ui[i].op \in {"publish", "open"} => ui[i].draft \in Draft
  /\ \A i \in 1..Len(template) : template[i].op \notin {"publish", "open"}
  /\ \A i \in 1..Len(queue) :
       /\ queue[i].op # "publish"
       /\ queue[i].op = "open" => queue[i].draft \in Draft

(* The draft that an import has to publish is the import's alone.          *)
Publishing(d) == ui # <<>> /\ Head(ui).op = "publish" /\ Head(ui).draft = d

PublishInv ==
  \A d \in Draft :
    Publishing(d) =>
      /\ d \in dir /\ d \in used
      /\ file[Project(d)] = Nothing /\ aside[Project(d)] = {}
      /\ job.draft # d /\ bound # d
      /\ \A i \in 1..Len(queue) : queue[i].draft # d

(* Only a chat makes room again for a draft that was deleted.              *)
GoneInv == \A d \in deleted \ revived : d \notin dir

IInv ==
  /\ TypeOK
  /\ FilesInv
  /\ KeptSomewhere
  /\ JobInv
  /\ NamesInv
  /\ ShapeInv
  /\ PublishInv
  /\ GoneInv
-----------------------------------------------------------------------------
LEMMA Popped ==
  ASSUME NEW S, NEW q \in Seq(S), q # <<>>
  PROVE  /\ Head(q) \in S /\ Head(q) = q[1] /\ 1 \in 1..Len(q)
         /\ Tail(q) \in Seq(S)
         /\ Len(Tail(q)) = Len(q) - 1
         /\ \A i \in 1..Len(Tail(q)) : Tail(q)[i] = q[i+1] /\ i+1 \in 2..Len(q)
  OBVIOUS

LEMMA Pushed ==
  ASSUME NEW S, NEW q \in Seq(S), NEW m \in S
  PROVE  /\ Append(q, m) \in Seq(S)
         /\ Len(Append(q, m)) = Len(q) + 1
         /\ \A i \in 1..Len(Append(q, m)) :
              Append(q, m)[i] = IF i = Len(q) + 1 THEN m ELSE q[i]
  OBVIOUS

LEMMA DestinationIsPlace ==
  ASSUME JobInv, TypeOK, ~At("idle")
  PROVE  Destination \in Place
  BY DEF JobInv, TypeOK, At, Jobs, Destination, Place

LEMMA InitHolds == Init => IInv
<1> SUFFICES ASSUME Init PROVE IInv
  OBVIOUS
<1>1. TypeOK
  <2>1. NoJob \in Jobs
    BY DEF NoJob, Jobs, Name, Document
  <2>2. <<>> \in Seq(Messages)
    OBVIOUS
  <2> QED
    BY <2>1, <2>2 DEF Init, TypeOK, EmptyDisk, Document
<1>2. FilesInv /\ KeptSomewhere
  BY DEF Init, EmptyDisk, FilesInv, KeptSomewhere
<1>3. JobInv
  BY DEF Init, JobInv, NoJob, At
<1>4. NamesInv /\ ShapeInv /\ PublishInv /\ GoneInv
  BY DEF Init, NamesInv, Known, ShapeInv, PublishInv, Publishing, GoneInv, NoJob
<1> QED
  BY <1>1, <1>2, <1>3, <1>4 DEF IInv

-----------------------------------------------------------------------------
(* The worker *)

(* What one step of a replacement may do, as far as IInv tells.            *)
Effect ==
  /\ dir' = dir
  /\ job' \in Jobs /\ job'.draft = job.draft /\ job'.name = job.name
  /\ job'.doc = job.doc /\ job'.step # "idle"
  /\ job'.temp => job.draft \in dir
  /\ file' \in [Place -> Document \cup {Nothing}]
  /\ aside' \in [Place -> SUBSET Document]
  /\ kept' \in [Place -> Document \cup {Nothing}]
  /\ \A p \in Place \ {Destination} :
       file'[p] = file[p] /\ aside'[p] = aside[p] /\ kept'[p] = kept[p]
  /\ file'[Destination] # Nothing =>
       file'[Destination] = kept'[Destination] /\ job.draft \in dir
  /\ aside'[Destination] # {} => job.draft \in dir
  /\ kept'[Destination] # Nothing =>
       \/ file'[Destination] = kept'[Destination]
       \/ file'[Destination] = Nothing /\ kept'[Destination] \in aside'[Destination]
  /\ job'.step \in {"swap", "restore"} /\ job'.old \in aside'[Destination] =>
       kept'[Destination] = job'.old
  /\ job'.step = "done" => file'[Destination] = job.doc

LEMMA ReplaceEffect == ASSUME IInv, Replace PROVE Effect
<1> DEFINE d == Destination
<1>d. d \in Place /\ job.draft \in Draft /\ d[1] = job.draft
  BY DestinationIsPlace DEF IInv, TypeOK, At, JobInv, Replace, Stage, Install, MoveAside, Swap, Restore, Destination
<1>t. /\ job \in Jobs
      /\ file \in [Place -> Document \cup {Nothing}]
      /\ aside \in [Place -> SUBSET Document]
      /\ kept \in [Place -> Document \cup {Nothing}]
  BY DEF IInv, TypeOK
<1> HIDE DEF d
<1>i. /\ job.temp => job.draft \in dir
      /\ file[d] # Nothing => file[d] = kept[d] /\ job.draft \in dir
      /\ aside[d] # {} => job.draft \in dir
      /\ kept[d] # Nothing => file[d] = kept[d] \/ (file[d] = Nothing /\ kept[d] \in aside[d])
      /\ At("swap") \/ At("restore") => (job.old \in aside[d] => kept[d] = job.old)
  <2>1. /\ file[d] # Nothing => file[d] = kept[d] /\ job.draft \in dir
        /\ aside[d] # {} => job.draft \in dir
    BY <1>d DEF IInv, FilesInv
  <2>2. kept[d] # Nothing => file[d] = kept[d] \/ (file[d] = Nothing /\ kept[d] \in aside[d])
    BY <1>d DEF IInv, KeptSomewhere
  <2>3. /\ job.temp => job.draft \in dir
        /\ At("swap") \/ At("restore") => (job.old \in aside[d] => kept[d] = job.old)
    BY DEF IInv, JobInv, d
  <2> QED
    BY <2>1, <2>2, <2>3
<1>s. ASSUME NEW s \in {"aside", "install", "swap", "restore", "failed", "done"},
             NEW b \in BOOLEAN, NEW o \in Document \cup {Nothing},
             job' = [job EXCEPT !.step = s, !.temp = b, !.old = o]
      PROVE  /\ job' \in Jobs /\ job'.draft = job.draft /\ job'.name = job.name /\ job'.doc = job.doc
             /\ job'.step = s /\ job'.temp = b /\ job'.old = o
  BY <1>s, <1>t DEF Jobs
<1>r. job.temp \in BOOLEAN /\ job.old \in Document \cup {Nothing} /\ job.doc \in Document
  BY <1>t DEF Jobs
<1>g. ASSUME NEW s \in {"aside", "install", "swap", "restore"}, Goto(s)
      PROVE  /\ job' \in Jobs /\ job'.draft = job.draft /\ job'.name = job.name /\ job'.doc = job.doc
             /\ job'.step = s /\ job'.temp = job.temp /\ job'.old = job.old
  <2>1. job' = [job EXCEPT !.step = s, !.temp = job.temp, !.old = job.old]
    BY <1>g, <1>t DEF Goto, Jobs
  <2> QED
    BY <2>1, <1>r, <1>s
<1>f. ASSUME Give
      PROVE  /\ job' \in Jobs /\ job'.draft = job.draft /\ job'.name = job.name /\ job'.doc = job.doc
             /\ job'.step = "failed" /\ job'.temp = FALSE
  <2>1. job' = [job EXCEPT !.step = "failed", !.temp = FALSE, !.old = job.old]
    BY <1>f, <1>t DEF Give, Jobs
  <2> QED
    BY <2>1, <1>r, <1>s
<1>put. ASSUME Put, aside' \in [Place -> SUBSET Document],
               \A p \in Place \ {d} : aside'[p] = aside[p],
               aside'[d] \subseteq aside[d], dir' = dir
        PROVE  Effect
  <2>1. file' = [file EXCEPT ![d] = job.doc] /\ kept' = [kept EXCEPT ![d] = job.doc] /\ job.doc \in Document
    BY <1>put, <1>t DEF Put, Jobs, d
  <2>2. job' \in Jobs /\ job'.draft = job.draft /\ job'.name = job.name /\ job'.doc = job.doc /\ job'.temp = FALSE
        /\ job'.step = "done" /\ job.draft \in dir
    <3>1. job' = [job EXCEPT !.step = "done", !.temp = FALSE, !.old = job.old]
      BY <1>put, <1>t DEF Put, Jobs
    <3> QED
      BY <3>1, <1>put, <1>i, <1>r, <1>s DEF Put
  <2> QED
    BY <2>1, <2>2, <1>put, <1>d, <1>t, <1>i DEF Effect, d
<1>keep. ASSUME dir' = dir, file' = file, aside' = aside, kept' = kept,
                job' \in Jobs, job'.draft = job.draft, job'.name = job.name, job'.doc = job.doc,
                job'.temp => job.draft \in dir, job'.step \notin {"idle", "done"},
                job'.step \in {"swap", "restore"} =>
                  (At("swap") \/ At("restore")) /\ job'.old = job.old
         PROVE  Effect
  BY <1>keep, <1>d, <1>t, <1>i DEF Effect, d
<1>1. CASE Stage
  <2>1. UNCHANGED <<dir, file, aside, kept>>
    BY <1>1 DEF Stage, disk
  <2>2. CASE Give
    BY <2>1, <2>2, <1>f, <1>keep
  <2>3. CASE job.draft \in dir /\ job' = [job EXCEPT !.step = "install", !.temp = TRUE]
    <3>1. job' = [job EXCEPT !.step = "install", !.temp = TRUE, !.old = job.old]
      BY <2>3, <1>t DEF Jobs
    <3> QED
      BY <2>1, <2>3, <3>1, <1>r, <1>s, <1>keep
  <2> QED
    BY <1>1, <2>2, <2>3 DEF Stage
<1>2. CASE Install
  <2>1. CASE Put
    BY <2>1, <1>2, <1>put, <1>t DEF Install
  <2>2. CASE ~Put
    <3>1. CASE Give
      BY <2>2, <3>1, <1>2, <1>f, <1>keep DEF Install
    <3>2. CASE Goto("aside")
      BY <2>2, <3>2, <1>2, <1>g, <1>i, <1>keep DEF Install
    <3> QED
      BY <2>2, <3>1, <3>2, <1>2 DEF Install
  <2> QED
    BY <2>1, <2>2
<1>3. CASE MoveAside
  <2>1. CASE Give /\ UNCHANGED <<file, aside>>
    BY <2>1, <1>3, <1>f, <1>keep DEF MoveAside
  <2>2. CASE /\ file[d] # Nothing
             /\ job' = [job EXCEPT !.step = "swap", !.old = file[d]]
             /\ aside' = [aside EXCEPT ![d] = @ \cup {file[d]}]
             /\ file' = [file EXCEPT ![d] = Nothing]
    <3>1. file[d] \in Document
      BY <2>2, <1>d, <1>t
    <3>2. /\ job' \in Jobs /\ job'.draft = job.draft /\ job'.name = job.name /\ job'.doc = job.doc
          /\ job'.temp = job.temp /\ job'.step = "swap" /\ job'.old = file[d]
      <4>1. job' = [job EXCEPT !.step = "swap", !.temp = job.temp, !.old = file[d]]
        BY <2>2, <1>t DEF Jobs
      <4> QED
        BY <4>1, <3>1, <1>r, <1>s
    <3> QED
      BY <2>2, <3>1, <3>2, <1>3, <1>d, <1>t, <1>i DEF Effect, MoveAside, d
  <2> QED
    BY <1>3, <2>1, <2>2 DEF MoveAside, d
<1>4. CASE Swap
  <2>1. CASE Put /\ aside' \in {aside, [aside EXCEPT ![d] = @ \ {job.old}]}
    BY <2>1, <1>4, <1>put, <1>t, <1>d DEF Swap
  <2> QED
    BY <2>1, <1>4, <1>g, <1>i, <1>keep DEF Swap, d
<1>5. CASE Restore
  <2>1. CASE UNCHANGED <<file, aside>>
    BY <2>1, <1>5, <1>f, <1>keep DEF Restore
  <2>2. CASE /\ job.old \in aside[d]
             /\ file' = [file EXCEPT ![d] = job.old]
             /\ aside' = [aside EXCEPT ![d] = @ \ {job.old}]
    <3>1. /\ job' \in Jobs /\ job'.draft = job.draft /\ job'.name = job.name /\ job'.doc = job.doc
          /\ job'.temp = FALSE /\ job'.step = "failed"
      BY <1>5, <1>f DEF Restore
    <3>2. job.old \in Document /\ kept[d] = job.old /\ job.draft \in dir
      BY <2>2, <1>5, <1>d, <1>t, <1>i DEF Restore, At
    <3> QED
      BY <2>2, <3>1, <3>2, <1>5, <1>d, <1>t DEF Effect, Restore, d
  <2> QED
    BY <1>5, <2>1, <2>2 DEF Restore, d
<1> QED
  BY <1>1, <1>2, <1>3, <1>4, <1>5 DEF Replace

LEMMA ReplacingKeeps == ASSUME IInv, Replacing PROVE IInv'
<1>e. Effect /\ Destination \in Place /\ job.draft \in Draft /\ job.draft \in used
  BY ReplaceEffect, DestinationIsPlace, DraftAssumption
     DEF Replacing, IInv, TypeOK, NamesInv, Known, At, JobInv, Replace, Stage, Install, MoveAside, Swap, Restore
<1>u. /\ UNCHANGED <<habit, made, requests, ends, used, deleted, revived, ui, template>>
      /\ UNCHANGED <<gallery, queue, bound, doc, saved, own, told, shown, epoch, chat>>
  BY DEF Replacing, bounds, history, senders, session, agent
<1>d. Destination' = Destination
  BY <1>e DEF Effect, Destination
<1>1. TypeOK'
  BY <1>e, <1>u DEF IInv, TypeOK, Effect
<1>2. FilesInv'
  BY <1>e, <1>u DEF IInv, FilesInv, Effect, Destination
<1>3. KeptSomewhere'
  BY <1>e, <1>u DEF IInv, KeptSomewhere, Effect
<1>4. JobInv'
  BY <1>e, <1>d DEF JobInv, Effect, At
<1>5. NamesInv'
  BY <1>e, <1>u DEF IInv, NamesInv, Known, Effect
<1>6. ShapeInv'
  BY <1>u DEF IInv, ShapeInv
<1>7. PublishInv'
  <2> SUFFICES ASSUME NEW d \in Draft, Publishing(d)'
               PROVE  (/\ d \in dir /\ d \in used
                       /\ file[Project(d)] = Nothing /\ aside[Project(d)] = {}
                       /\ job.draft # d /\ bound # d
                       /\ \A i \in 1..Len(queue) : queue[i].draft # d)'
    BY DEF PublishInv
  <2>1. Publishing(d)
    BY <1>u DEF Publishing
  <2>2. Project(d) \in Place \ {Destination}
    BY <2>1 DEF IInv, PublishInv, Project, Place, Name, Destination
  <2> QED
    BY <2>1, <2>2, <1>e, <1>u DEF IInv, PublishInv, Project, Effect
<1>8. GoneInv'
  BY <1>e, <1>u DEF IInv, GoneInv, Effect
<1> QED
  BY <1>1, <1>2, <1>3, <1>4, <1>5, <1>6, <1>7, <1>8 DEF IInv

-----------------------------------------------------------------------------
(* Facts about parts of a step *)

LEMMA FilesStay ==
  ASSUME IInv, UNCHANGED <<file, aside, kept>>, dir \subseteq dir', used \subseteq used'
  PROVE  FilesInv' /\ KeptSomewhere'
  BY DEF IInv, FilesInv, KeptSomewhere

LEMMA JobStays ==
  ASSUME IInv, UNCHANGED <<job, aside, kept>>, dir \subseteq dir'
  PROVE  JobInv'
  BY DEF IInv, JobInv, At, Destination

LEMMA NewJob ==
  ASSUME NEW d \in Draft, NEW n \in Name, NEW c \in Document, NEW b \in BOOLEAN,
         \/ job' = StartJob(d, n, c)
         \/ job' = [StartJob(d, n, c) EXCEPT !.last = b]
  PROVE  job' \in Jobs /\ job'.step = "stage" /\ job'.draft = d /\ job'.temp = FALSE
  BY DEF StartJob, NoJob, Jobs

LEMMA JobBegins ==
  ASSUME job'.step \in {"idle", "stage"}, job'.temp = FALSE,
         job'.step = "stage" => job'.draft \in Draft
  PROVE  JobInv'
  BY DEF JobInv, At

LEMMA MessageFields ==
  ASSUME NEW by \in Senders, NEW o \in {"save", "new", "open", "publish", "template", "edit"},
         NEW d \in Draft \cup {NoDraft}
  PROVE  /\ Message(by, o, d) \in Messages
         /\ Message(by, o, d).op = o /\ Message(by, o, d).draft = d
         /\ Message(by, o, d).by = by
  BY DEF Message, Messages, Document

(* One more message in the queue, from whoever may send it.                *)
LEMMA SendKeeps ==
  ASSUME IInv, NEW m \in Messages, queue' = Append(queue, m),
         Known(m.draft), m.op # "publish", m.op = "open" => m.draft \in Draft,
         \A d \in Draft : Publishing(d)' => Publishing(d) /\ m.draft # d,
         UNCHANGED <<dir, file, aside, kept, job, used, bound>>
  PROVE  /\ queue' \in Seq(Messages)
         /\ \A i \in 1..Len(queue') : Known(queue'[i].draft)
         /\ \A i \in 1..Len(queue') :
              /\ queue'[i].op # "publish"
              /\ queue'[i].op = "open" => queue'[i].draft \in Draft
         /\ PublishInv'
<1>1. /\ queue' \in Seq(Messages)
      /\ Len(queue') = Len(queue) + 1
      /\ \A i \in 1..Len(queue') : queue'[i] = IF i = Len(queue) + 1 THEN m ELSE queue[i]
  BY Pushed DEF IInv, TypeOK
<1>2. \A i \in 1..Len(queue') : queue'[i] = m \/ (i \in 1..Len(queue) /\ queue'[i] = queue[i])
  BY <1>1 DEF IInv, TypeOK
<1>3. ASSUME NEW d \in Draft, Publishing(d)'
      PROVE  (/\ d \in dir /\ d \in used
              /\ file[Project(d)] = Nothing /\ aside[Project(d)] = {}
              /\ job.draft # d /\ bound # d
              /\ \A i \in 1..Len(queue) : queue[i].draft # d)'
  <2>1. Publishing(d) /\ m.draft # d
    BY <1>3
  <2> QED
    BY <2>1, <1>2 DEF IInv, PublishInv, Project
<1>4. PublishInv'
  BY <1>3 DEF PublishInv
<1> QED
  BY <1>1, <1>2, <1>4 DEF IInv, NamesInv, ShapeInv

(* One message fewer.                                                      *)
LEMMA TakeFacts ==
  ASSUME IInv, NEW o, Take(o)
  PROVE  /\ Head(queue) \in Messages /\ Head(queue).op = o
         /\ Known(Head(queue).draft)
         /\ o = "open" => Head(queue).draft \in Draft
         /\ \A d \in Draft : Publishing(d) => Head(queue).draft # d
         /\ queue' \in Seq(Messages)
         /\ \A i \in 1..Len(queue') : \E k \in 1..Len(queue) : queue'[i] = queue[k]
<1>1. /\ Head(queue) \in Messages /\ Head(queue) = queue[1] /\ 1 \in 1..Len(queue)
      /\ queue' \in Seq(Messages) /\ Len(queue') = Len(queue) - 1
      /\ \A i \in 1..Len(queue') : queue'[i] = queue[i+1] /\ i+1 \in 2..Len(queue)
  BY Popped DEF IInv, TypeOK, Take
<1>2. \A i \in 1..Len(queue') : \E k \in 1..Len(queue) : queue'[i] = queue[k]
  BY <1>1
<1> QED
  BY <1>1, <1>2 DEF Take, IInv, NamesInv, ShapeInv, PublishInv

LEMMA TakenKeeps ==
  ASSUME IInv, \A i \in 1..Len(queue') : \E k \in 1..Len(queue) : queue'[i] = queue[k],
         UNCHANGED <<file, aside, ui, used>>, dir \subseteq dir',
         \A d \in Draft : Publishing(d) => job'.draft # d /\ bound' # d
  PROVE  PublishInv'
  BY DEF IInv, PublishInv, Publishing, Project

LEMMA RemoveDirectoryKeeps ==
  ASSUME IInv, NEW d \in Draft, RemoveDirectory(d), UNCHANGED used
  PROVE  /\ dir' \subseteq Draft /\ d \notin dir'
         /\ file' \in [Place -> Document \cup {Nothing}]
         /\ aside' \in [Place -> SUBSET Document]
         /\ kept' \in [Place -> Document \cup {Nothing}]
         /\ job' \in Jobs /\ job'.draft = job.draft
         /\ FilesInv' /\ KeptSomewhere' /\ JobInv'
<1>t. /\ job \in Jobs /\ dir \subseteq Draft
      /\ file \in [Place -> Document \cup {Nothing}]
      /\ aside \in [Place -> SUBSET Document]
      /\ kept \in [Place -> Document \cup {Nothing}]
  BY DEF IInv, TypeOK
<1>p. \A p \in Place :
        /\ file'[p] = IF p[1] = d THEN Nothing ELSE file[p]
        /\ aside'[p] = IF p[1] = d THEN {} ELSE aside[p]
        /\ kept'[p] = IF p[1] = d THEN Nothing ELSE kept[p]
  BY DEF RemoveDirectory
<1>1. /\ dir' = dir \ {d}
      /\ file' \in [Place -> Document \cup {Nothing}]
      /\ aside' \in [Place -> SUBSET Document]
      /\ kept' \in [Place -> Document \cup {Nothing}]
  BY <1>t DEF RemoveDirectory
<1>2. /\ job' \in Jobs /\ job'.draft = job.draft /\ job'.name = job.name
      /\ job'.step = job.step /\ job'.old = job.old
      /\ job'.temp => job.temp /\ job.draft # d
  BY <1>t DEF RemoveDirectory, Jobs
<1>3. FilesInv'
  BY <1>p, <1>1 DEF IInv, FilesInv
<1>4. KeptSomewhere'
  BY <1>p DEF IInv, KeptSomewhere
<1>5. JobInv'
  <2>1. ~At("idle") => Destination \in Place
    BY DestinationIsPlace DEF IInv
  <2>2. Destination' = Destination /\ Destination[1] = job.draft
    BY <1>2 DEF Destination
  <2> QED
    BY <2>1, <2>2, <1>p, <1>1, <1>2 DEF IInv, JobInv, At
<1> QED
  BY <1>t, <1>1, <1>2, <1>3, <1>4, <1>5

-----------------------------------------------------------------------------
(* The UI thread *)

LEMMA StartKeeps ==
  ASSUME IInv, NEW kind, NEW s \in Seq(Messages), StartsWith(kind, s),
         gallery' \in BOOLEAN,
         dir \subseteq dir', dir' \subseteq Draft, \A d \in dir' \ dir : d \notin used,
         used \subseteq used', used' \subseteq Draft,
         file' \in [Place -> Document \cup {Nothing}], aside' = aside,
         kept' \in [Place -> Document \cup {Nothing}],
         FilesInv', KeptSomewhere', JobInv',
         \A i \in 1..Len(s) :
           /\ s[i].draft \in used' \cup {NoDraft}
           /\ i # 1 => s[i].op # "publish"
           /\ s[i].op \in {"publish", "open"} => s[i].draft \in Draft,
         \A d \in Draft :
           s # <<>> /\ Head(s).op = "publish" /\ Head(s).draft = d =>
             d \in dir' /\ d \in used' /\ d \notin used /\ file'[Project(d)] = Nothing
  PROVE  IInv'
<1>u. /\ ui = <<>> /\ ui' = s /\ requests' = requests + 1
      /\ UNCHANGED <<job, habit, made, ends, deleted, revived, template, queue>>
      /\ UNCHANGED <<bound, doc, saved, own, told, shown, epoch, chat>>
  BY DEF StartsWith, Request, session, agent
<1>1. TypeOK'
  BY <1>u DEF IInv, TypeOK
<1>2. NamesInv'
  BY <1>u DEF IInv, NamesInv, Known
<1>3. ShapeInv'
  BY <1>u DEF IInv, ShapeInv
<1>4. PublishInv'
  <2> SUFFICES ASSUME NEW d \in Draft, Publishing(d)'
               PROVE  (/\ d \in dir /\ d \in used
                       /\ file[Project(d)] = Nothing /\ aside[Project(d)] = {}
                       /\ job.draft # d /\ bound # d
                       /\ \A i \in 1..Len(queue) : queue[i].draft # d)'
    BY DEF PublishInv
  <2>1. d \in dir' /\ d \in used' /\ d \notin used /\ file'[Project(d)] = Nothing
    BY <1>u DEF Publishing
  <2>2. aside[Project(d)] = {}
    BY <2>1 DEF IInv, FilesInv, Project, Place, Name
  <2>3. job.draft # d /\ bound # d /\ \A i \in 1..Len(queue) : queue[i].draft # d
    BY <2>1, DraftAssumption DEF IInv, NamesInv, Known
  <2> QED
    BY <2>1, <2>2, <2>3, <1>u DEF Project
<1>5. GoneInv'
  BY <1>u DEF IInv, GoneInv, NamesInv
<1> QED
  BY <1>1, <1>2, <1>3, <1>4, <1>5 DEF IInv

LEMMA NewKeeps == ASSUME IInv, New PROVE IInv'
<1>1. PICK d \in Unused :
        /\ StartsWith("new", <<Flush("ui"), Message("ui", "new", NoDraft), Message("ui", "save", d)>>)
        /\ dir' = dir \cup {d} /\ used' = used \cup {d}
  BY DEF New
<1> DEFINE s == <<Flush("ui"), Message("ui", "new", NoDraft), Message("ui", "save", d)>>
<1>2. UNCHANGED <<file, aside, kept, gallery, job>>
  BY <1>1 DEF New, StartsWith
<1>3. d \in Draft /\ d \notin used
  BY DEF Unused
<1>4. /\ s \in Seq(Messages) /\ Len(s) = 3
      /\ s[1].op = "save" /\ s[1].draft = NoDraft
      /\ s[2].op = "new" /\ s[2].draft = NoDraft
      /\ s[3].op = "save" /\ s[3].draft = d
  BY <1>3, MessageFields DEF Flush, Senders
<1>5. FilesInv' /\ KeptSomewhere' /\ JobInv'
  BY <1>1, <1>2, FilesStay, JobStays
<1>6. \A i \in 1..Len(s) : i = 1 \/ i = 2 \/ i = 3
  BY <1>4
<1>7. Head(s) = s[1] /\ s # <<>>
  BY <1>4
<1> HIDE DEF s
<1> QED
  BY <1>1, <1>2, <1>3, <1>4, <1>5, <1>6, <1>7, StartKeeps DEF IInv, TypeOK, s

LEMMA OpenKeeps == ASSUME IInv, Open PROVE IInv'
<1>1. PICK d \in Listed : StartsWith("open", <<Flush("ui"), Message("ui", "open", d)>>)
  BY DEF Open
<1> DEFINE s == <<Flush("ui"), Message("ui", "open", d)>>
<1>2. UNCHANGED <<dir, file, aside, kept, used, gallery, job>>
  BY <1>1 DEF Open, StartsWith, disk
<1>3. d \in Draft /\ d \in used
  BY DEF Listed, IInv, FilesInv, Project, Place, Name
<1>4. /\ s \in Seq(Messages) /\ Len(s) = 2
      /\ s[1].op = "save" /\ s[1].draft = NoDraft
      /\ s[2].op = "open" /\ s[2].draft = d
  BY <1>3, MessageFields DEF Flush, Senders
<1>5. FilesInv' /\ KeptSomewhere' /\ JobInv'
  BY <1>2, FilesStay, JobStays
<1>6. \A i \in 1..Len(s) : i = 1 \/ i = 2
  BY <1>4
<1>7. Head(s) = s[1] /\ s # <<>>
  BY <1>4
<1> HIDE DEF s
<1> QED
  BY <1>1, <1>2, <1>3, <1>4, <1>5, <1>6, <1>7, StartKeeps DEF IInv, TypeOK, s

LEMMA ImportKeeps == ASSUME IInv, Import PROVE IInv'
<1>1. PICK d \in Unused :
        /\ StartsWith("import", <<Message("ui", "publish", d), Flush("ui"), Message("ui", "open", d)>>)
        /\ dir' = dir \cup {d} /\ used' = used \cup {d}
        /\ file' = [file EXCEPT ![<<d, "meta">>] = 0]
        /\ kept' = [kept EXCEPT ![<<d, "meta">>] = 0]
  BY DEF Import
<1> DEFINE s == <<Message("ui", "publish", d), Flush("ui"), Message("ui", "open", d)>>
           m == <<d, "meta">>
<1>2. UNCHANGED <<aside, gallery, job>>
  BY <1>1 DEF Import, StartsWith
<1>3. d \in Draft /\ d \notin used /\ m \in Place /\ Project(d) \in Place /\ Project(d) # m
  BY DEF Unused, Place, Name, Project
<1>4. /\ s \in Seq(Messages) /\ Len(s) = 3
      /\ s[1].op = "publish" /\ s[1].draft = d
      /\ s[2].op = "save" /\ s[2].draft = NoDraft
      /\ s[3].op = "open" /\ s[3].draft = d
  BY <1>3, MessageFields DEF Flush, Senders
<1>t. /\ file' \in [Place -> Document \cup {Nothing}]
      /\ kept' \in [Place -> Document \cup {Nothing}]
      /\ \A p \in Place \ {m} : file'[p] = file[p] /\ kept'[p] = kept[p]
      /\ file'[m] = 0 /\ kept'[m] = 0
  BY <1>1, <1>3 DEF IInv, TypeOK, Document
<1>5. FilesInv' /\ KeptSomewhere'
  <2>1. \A p \in Place : p = m => p[1] = d
    OBVIOUS
  <2> QED
    BY <2>1, <1>1, <1>2, <1>3, <1>t DEF IInv, FilesInv, KeptSomewhere
<1>6. JobInv'
  <2>1. ~At("idle") => Destination # m
    BY <1>3, DraftAssumption DEF IInv, NamesInv, Known, JobInv, Destination
  <2>2. ~At("idle") => kept'[Destination] = kept[Destination]
    BY <2>1, <1>t, DestinationIsPlace DEF IInv
  <2>3. Destination' = Destination
    BY <1>2 DEF Destination
  <2> QED
    BY <2>2, <2>3, <1>1, <1>2 DEF IInv, JobInv, At
<1>7. file'[Project(d)] = Nothing
  BY <1>3, <1>t DEF IInv, FilesInv, Project
<1>8. \A i \in 1..Len(s) : i = 1 \/ i = 2 \/ i = 3
  BY <1>4
<1>9. Head(s) = s[1] /\ s # <<>>
  BY <1>4
<1>10. /\ StartsWith("import", s)
       /\ dir \subseteq dir' /\ dir' \subseteq Draft /\ \A c \in dir' \ dir : c \notin used
       /\ used \subseteq used' /\ used' \subseteq Draft /\ d \in dir' /\ d \in used'
       /\ gallery' \in BOOLEAN
  BY <1>1, <1>2, <1>3 DEF IInv, TypeOK
<1> HIDE DEF s, m
<1>11. \A i \in 1..Len(s) :
         /\ s[i].draft \in used' \cup {NoDraft}
         /\ i # 1 => s[i].op # "publish"
         /\ s[i].op \in {"publish", "open"} => s[i].draft \in Draft
  BY <1>3, <1>4, <1>8, <1>10
<1>12. \A c \in Draft :
         s # <<>> /\ Head(s).op = "publish" /\ Head(s).draft = c =>
           c \in dir' /\ c \in used' /\ c \notin used /\ file'[Project(c)] = Nothing
  BY <1>3, <1>4, <1>7, <1>9, <1>10
<1> QED
  BY <1>2, <1>4, <1>t, <1>5, <1>6, <1>10, <1>11, <1>12, StartKeeps

LEMMA FlushOnlyKeeps == ASSUME IInv, Close \/ SaveNow PROVE IInv'
<1> DEFINE s == <<Flush("ui")>>
<1>1. /\ \E kind : StartsWith(kind, s)
      /\ UNCHANGED <<dir, file, aside, kept, used, job>>
      /\ gallery' \in BOOLEAN
  BY DEF Close, SaveNow, disk, StartsWith, IInv, TypeOK
<1>2. s \in Seq(Messages) /\ Len(s) = 1 /\ s[1].op = "save" /\ s[1].draft = NoDraft
  BY MessageFields DEF Flush, Senders
<1>3. FilesInv' /\ KeptSomewhere' /\ JobInv'
  BY <1>1, FilesStay, JobStays
<1>4. Head(s) = s[1] /\ s # <<>> /\ \A i \in 1..Len(s) : i = 1
  BY <1>2
<1> HIDE DEF s
<1> QED
  BY <1>1, <1>2, <1>3, <1>4, StartKeeps DEF IInv, TypeOK

LEMMA PublishImportKeeps == ASSUME IInv, PublishImport PROVE IInv'
<1> DEFINE d == Head(ui).draft
<1>u. /\ UNCHANGED <<habit, made, requests, ends, used, deleted, revived, template, gallery>>
      /\ UNCHANGED <<queue, bound, doc, saved, own, told, shown, epoch, chat>>
  BY DEF PublishImport, bounds, history, session, agent
<1>1. /\ Head(ui) = ui[1] /\ 1 \in 1..Len(ui) /\ Tail(ui) \in Seq(Messages)
      /\ \A i \in 1..Len(Tail(ui)) : Tail(ui)[i] = ui[i+1] /\ i+1 \in 2..Len(ui)
  BY Popped DEF PublishImport, IInv, TypeOK
<1>2. d \in Draft /\ Publishing(d)
  BY <1>1 DEF PublishImport, IInv, ShapeInv, Publishing
<1>3. d \in dir /\ d \in used /\ job.draft # d /\ file[Project(d)] = Nothing
  BY <1>2 DEF IInv, PublishInv
<1>4. ui' \in {Tail(ui), <<>>}
  BY DEF PublishImport
<1>5. /\ ui' \in Seq(Messages)
      /\ \A i \in 1..Len(ui') : \E k \in 2..Len(ui) : ui'[i] = ui[k]
  <2>1. CASE ui' = Tail(ui)
    BY <1>1, <2>1
  <2>2. CASE ui' = <<>>
    BY <2>2
  <2> QED
    BY <1>4, <2>1, <2>2
<1>6. NamesInv'
  <2>1. Known(job'.draft)
    BY RemoveDirectoryKeeps, <1>2, <1>u DEF PublishImport, IInv, NamesInv, Known
  <2> QED
    BY <2>1, <1>5, <1>u DEF IInv, NamesInv, Known
<1>7. ShapeInv'
  <2>1. \A i \in 1..Len(ui') :
          ui'[i].op # "publish" /\ (ui'[i].op = "open" => ui'[i].draft \in Draft)
    <3> SUFFICES ASSUME NEW i \in 1..Len(ui')
                 PROVE  ui'[i].op # "publish" /\ (ui'[i].op = "open" => ui'[i].draft \in Draft)
      OBVIOUS
    <3>1. PICK k \in 2..Len(ui) : ui'[i] = ui[k]
      BY <1>5
    <3>2. k \in 1..Len(ui)
      BY <1>1
    <3> QED
      BY <3>1, <3>2 DEF IInv, ShapeInv
  <2>2. \A i \in 2..Len(ui') : i \in 1..Len(ui')
    OBVIOUS
  <2> QED
    BY <2>1, <2>2, <1>u DEF IInv, ShapeInv
<1>8. PublishInv'
  <2>1. ui' = <<>> \/ Head(ui').op # "publish"
    <3>1. ui' # <<>> => Head(ui') = ui'[1] /\ 1 \in 1..Len(ui')
      BY Popped, <1>5
    <3> QED
      BY <3>1, <1>5 DEF IInv, ShapeInv
  <2> QED
    BY <2>1 DEF PublishInv, Publishing
<1>9. CASE /\ file' = [file EXCEPT ![Project(d)] = 0]
           /\ kept' = [kept EXCEPT ![Project(d)] = 0]
           /\ UNCHANGED <<dir, aside, job>>
  <2>1. Project(d) \in Place /\ \A p \in Place : p = Project(d) => p[1] = d
    BY <1>2 DEF Project, Place, Name
  <2>2. /\ file' \in [Place -> Document \cup {Nothing}]
        /\ kept' \in [Place -> Document \cup {Nothing}]
        /\ \A p \in Place \ {Project(d)} : file'[p] = file[p] /\ kept'[p] = kept[p]
        /\ file'[Project(d)] = 0 /\ kept'[Project(d)] = 0
    BY <2>1, <1>9 DEF IInv, TypeOK, Document
  <2>3. FilesInv' /\ KeptSomewhere'
    BY <2>1, <2>2, <1>3, <1>9, <1>u DEF IInv, FilesInv, KeptSomewhere
  <2>4. JobInv'
    <3>1. Destination # Project(d) /\ Destination' = Destination
      BY <1>3, <1>9 DEF Destination, Project
    <3>2. ~At("idle") => kept'[Destination] = kept[Destination]
      BY <3>1, <2>2, DestinationIsPlace DEF IInv
    <3> QED
      BY <3>1, <3>2, <1>9 DEF IInv, JobInv, At
  <2>5. TypeOK'
    BY <2>2, <1>5, <1>9, <1>u DEF IInv, TypeOK
  <2>6. GoneInv'
    BY <1>9, <1>u DEF IInv, GoneInv
  <2> QED
    BY <2>3, <2>4, <2>5, <2>6, <1>6, <1>7, <1>8 DEF IInv
<1>10. CASE RemoveDirectory(d)
  <2>1. TypeOK'
    BY RemoveDirectoryKeeps, <1>2, <1>5, <1>10, <1>u DEF IInv, TypeOK
  <2>2. GoneInv'
    BY <1>10, <1>u DEF IInv, GoneInv, RemoveDirectory
  <2> QED
    BY RemoveDirectoryKeeps, <2>1, <2>2, <1>2, <1>6, <1>7, <1>8, <1>10, <1>u DEF IInv
<1> QED
  BY <1>9, <1>10 DEF PublishImport

LEMMA DeleteKeeps == ASSUME IInv, NEW d \in Draft, Delete(d) PROVE IInv'
<1>u. /\ UNCHANGED <<habit, made, requests, ends, used, ui, template, gallery>>
      /\ UNCHANGED <<queue, bound, doc, saved, own, told, shown, epoch, chat>>
  BY DEF Delete, bounds, senders, session, agent
<1>1. /\ RemoveDirectory(d) /\ ui = <<>> /\ d \in Listed
      /\ deleted' = deleted \cup {d} /\ revived' = revived \ {d}
  BY DEF Delete
<1>2. d \in used
  BY <1>1 DEF Listed, IInv, FilesInv, Project, Place, Name
<1>3. TypeOK'
  BY RemoveDirectoryKeeps, <1>1, <1>u DEF IInv, TypeOK
<1>4. NamesInv'
  BY RemoveDirectoryKeeps, <1>1, <1>2, <1>u DEF IInv, NamesInv, Known
<1>5. ShapeInv' /\ PublishInv'
  BY <1>1, <1>u DEF IInv, ShapeInv, PublishInv, Publishing
<1>6. GoneInv'
  BY <1>1 DEF IInv, GoneInv, RemoveDirectory
<1> QED
  BY RemoveDirectoryKeeps, <1>1, <1>3, <1>4, <1>5, <1>6, <1>u DEF IInv

(* A step that does nothing but send a message, or prepare to.             *)
LEMMA QueueingKeeps ==
  ASSUME IInv, TypeOK',
         UNCHANGED <<dir, file, aside, kept, job, used, deleted, revived, bound, shown, chat>>,
         NEW m \in Messages, queue' = Append(queue, m),
         Known(m.draft), m.op # "publish", m.op = "open" => m.draft \in Draft,
         \A d \in Draft : Publishing(d)' => Publishing(d) /\ m.draft # d,
         \A i \in 1..Len(ui') : Known(ui'[i].draft),
         \A i \in 2..Len(ui') : ui'[i].op # "publish",
         \A i \in 1..Len(ui') : ui'[i].op \in {"publish", "open"} => ui'[i].draft \in Draft,
         \A i \in 1..Len(template') :
           template'[i].draft = NoDraft /\ template'[i].op \notin {"publish", "open"}
  PROVE  IInv'
<1>1. FilesInv' /\ KeptSomewhere' /\ JobInv'
  BY FilesStay, JobStays
<1>2. NamesInv'
  BY SendKeeps DEF IInv, NamesInv, Known
<1>3. ShapeInv'
  BY SendKeeps DEF ShapeInv
<1>4. GoneInv'
  BY DEF IInv, GoneInv
<1> QED
  BY <1>1, <1>2, <1>3, <1>4, SendKeeps DEF IInv

LEMMA EditingKeeps == ASSUME IInv, Edit \/ AgentEdit PROVE IInv'
<1>1. PICK by \in Senders : \E kind : SendEdit(by, kind)
  BY DEF Edit, AgentEdit, Senders
<1>m. made' \in Nat
  BY <1>1 DEF SendEdit, IInv, TypeOK
<1> DEFINE m == [Message(by, "edit", NoDraft) EXCEPT !.doc = made']
<1>2. m \in Messages /\ m.op = "edit" /\ m.draft = NoDraft
  <2>1. Message(by, "edit", NoDraft) \in Messages
    BY MessageFields
  <2>2. made' \in Document
    BY <1>m DEF Document
  <2> QED
    BY <2>1, <2>2, MessageFields DEF Messages, Message
<1>3. /\ queue' = Append(queue, m) /\ made' = made + 1
      /\ UNCHANGED <<dir, file, aside, kept, job, habit, requests, ends, used, deleted, revived>>
      /\ UNCHANGED <<ui, template, gallery, bound, doc, saved, own, told, shown, epoch, chat>>
  BY <1>1 DEF SendEdit, disk, history, senders, session, agent
<1> HIDE DEF m
<1>4. TypeOK'
  <2>1. queue' \in Seq(Messages)
    BY <1>2, <1>3, Pushed DEF IInv, TypeOK
  <2> QED
    BY <2>1, <1>m, <1>3 DEF IInv, TypeOK
<1>5. \A d \in Draft : Publishing(d)' => Publishing(d) /\ m.draft # d
  BY <1>2, <1>3, DraftAssumption DEF Publishing
<1> QED
  BY <1>2, <1>3, <1>4, <1>5, QueueingKeeps DEF IInv, NamesInv, ShapeInv, Known

LEMMA SendNextKeeps == ASSUME IInv, SendNext PROVE IInv'
<1>1. /\ Head(ui) = ui[1] /\ 1 \in 1..Len(ui) /\ Head(ui) \in Messages
      /\ Tail(ui) \in Seq(Messages)
      /\ \A i \in 1..Len(Tail(ui)) : Tail(ui)[i] = ui[i+1] /\ i+1 \in 2..Len(ui)
  BY Popped DEF SendNext, IInv, TypeOK
<1>2. /\ queue' = Append(queue, Head(ui)) /\ ui' = Tail(ui) /\ Head(ui).op # "publish"
      /\ UNCHANGED <<dir, file, aside, kept, job, habit, made, requests, ends>>
      /\ UNCHANGED <<used, deleted, revived>>
      /\ UNCHANGED <<template, gallery, bound, doc, saved, own, told, shown, epoch, chat>>
  BY DEF SendNext, disk, bounds, history, session, agent
<1>3. \A i \in 1..Len(ui') : \E k \in 2..Len(ui) : ui'[i] = ui[k]
  BY <1>1, <1>2
<1>4. TypeOK'
  BY <1>1, <1>2, Pushed DEF IInv, TypeOK
<1>5. \A d \in Draft : ~Publishing(d)'
  <2>1. ui' # <<>> => Head(ui') = ui'[1] /\ 1 \in 1..Len(ui')
    BY Popped, <1>1, <1>2
  <2> QED
    BY <2>1, <1>3 DEF IInv, ShapeInv, Publishing
<1>6. /\ \A i \in 1..Len(ui') : Known(ui'[i].draft) /\ ui'[i].op # "publish"
      /\ \A i \in 1..Len(ui') : ui'[i].op = "open" => ui'[i].draft \in Draft
      /\ Known(Head(ui).draft) /\ (Head(ui).op = "open" => Head(ui).draft \in Draft)
  <2>1. /\ \A k \in 2..Len(ui) : k \in 1..Len(ui)
        /\ \A k \in 1..Len(ui) :
             Known(ui[k].draft) /\ (ui[k].op = "open" => ui[k].draft \in Draft)
        /\ \A k \in 2..Len(ui) : ui[k].op # "publish"
    BY <1>1 DEF IInv, NamesInv, ShapeInv
  <2> QED
    BY <2>1, <1>1, <1>3
<1>7. \A i \in 2..Len(ui') : i \in 1..Len(ui')
  OBVIOUS
<1> QED
  BY <1>1, <1>2, <1>4, <1>5, <1>6, <1>7, QueueingKeeps DEF IInv, NamesInv, ShapeInv

LEMMA SendTemplateKeeps == ASSUME IInv, SendTemplate PROVE IInv'
<1>1. /\ Head(template) = template[1] /\ 1 \in 1..Len(template) /\ Head(template) \in Messages
      /\ Tail(template) \in Seq(Messages)
      /\ \A i \in 1..Len(Tail(template)) :
           Tail(template)[i] = template[i+1] /\ i+1 \in 2..Len(template)
  BY Popped DEF SendTemplate, IInv, TypeOK
<1>2. /\ queue' = Append(queue, Head(template)) /\ template' = Tail(template)
      /\ UNCHANGED <<dir, file, aside, kept, job, habit, made, requests, ends>>
      /\ UNCHANGED <<used, deleted, revived>>
      /\ UNCHANGED <<ui, gallery, bound, doc, saved, own, told, shown, epoch, chat>>
  BY DEF SendTemplate, disk, bounds, history, session, agent
<1>3. TypeOK'
  BY <1>1, <1>2, Pushed DEF IInv, TypeOK
<1>4. Head(template).draft = NoDraft /\ Head(template).op \notin {"publish", "open"}
  BY <1>1 DEF IInv, NamesInv, ShapeInv
<1>5. \A d \in Draft : Publishing(d)' => Publishing(d) /\ Head(template).draft # d
  BY <1>2, <1>4, DraftAssumption DEF Publishing
<1>6. \A i \in 1..Len(template') :
        template'[i].draft = NoDraft /\ template'[i].op \notin {"publish", "open"}
  <2>1. \A k \in 1..Len(template) :
          template[k].draft = NoDraft /\ template[k].op \notin {"publish", "open"}
    BY DEF IInv, NamesInv, ShapeInv
  <2>2. \A i \in 1..Len(template') : \E k \in 1..Len(template) : template'[i] = template[k]
    <3>1. \A k \in 2..Len(template) : k \in 1..Len(template)
      BY <1>1
    <3> QED
      BY <3>1, <1>1, <1>2
  <2> QED
    BY <2>1, <2>2
<1> QED
  BY <1>1, <1>2, <1>3, <1>4, <1>5, <1>6, QueueingKeeps DEF IInv, NamesInv, ShapeInv, Known

LEMMA UseTemplateKeeps == ASSUME IInv, UseTemplate PROVE IInv'
<1> DEFINE t == <<Flush("template"), Message("template", "template", NoDraft)>>
<1>1. /\ template' = t /\ requests' = requests + 1
      /\ UNCHANGED <<dir, file, aside, kept, job, habit, made, ends, used, deleted, revived>>
      /\ UNCHANGED <<ui, gallery, queue, bound, doc, saved, own, told, shown, epoch, chat>>
  BY DEF UseTemplate, Request, disk, history, session, agent
<1>2. /\ t \in Seq(Messages)
      /\ \A i \in 1..Len(t) : t[i].draft = NoDraft /\ t[i].op \notin {"publish", "open"}
  <2>1. /\ Flush("template") \in Messages /\ Flush("template").op = "save"
        /\ Flush("template").draft = NoDraft
    BY MessageFields DEF Flush, Senders
  <2>2. LET l == Message("template", "template", NoDraft)
        IN  l \in Messages /\ l.op = "template" /\ l.draft = NoDraft
    BY MessageFields DEF Senders
  <2> QED
    BY <2>1, <2>2
<1> HIDE DEF t
<1>3. TypeOK'
  BY <1>1, <1>2 DEF IInv, TypeOK
<1>4. FilesInv' /\ KeptSomewhere' /\ JobInv'
  BY <1>1, FilesStay, JobStays
<1>5. NamesInv' /\ ShapeInv'
  BY <1>1, <1>2 DEF IInv, NamesInv, ShapeInv, Known
<1>6. PublishInv' /\ GoneInv'
  BY <1>1 DEF IInv, PublishInv, Publishing, GoneInv
<1> QED
  BY <1>3, <1>4, <1>5, <1>6 DEF IInv

LEMMA AgentOpenKeeps == ASSUME IInv, AgentOpen PROVE IInv'
<1>1. PICK d \in Listed : queue' = Append(queue, Message("agent", "open", d))
  BY DEF AgentOpen
<1>2. /\ requests' = requests + 1
      /\ UNCHANGED <<dir, file, aside, kept, job, habit, made, ends, used, deleted, revived>>
      /\ UNCHANGED <<ui, template, gallery, bound, doc, saved, own, told, shown, epoch, chat>>
  BY DEF AgentOpen, Request, disk, history, senders, session, agent
<1> DEFINE m == Message("agent", "open", d)
<1>3. d \in Draft /\ d \in used /\ file[Project(d)] # Nothing
  BY DEF Listed, IInv, FilesInv, Project, Place, Name
<1>4. m \in Messages /\ m.op = "open" /\ m.draft = d
  BY <1>3, MessageFields DEF Senders
<1> HIDE DEF m
<1>5. TypeOK'
  BY <1>1, <1>2, <1>4, Pushed DEF IInv, TypeOK, m
<1>6. \A c \in Draft : Publishing(c)' => Publishing(c) /\ m.draft # c
  BY <1>2, <1>3, <1>4 DEF Publishing, IInv, PublishInv
<1> QED
  BY <1>1, <1>2, <1>3, <1>4, <1>5, <1>6, QueueingKeeps DEF IInv, NamesInv, ShapeInv, Known, m

(* A chat brings back no directory but a draft's own.                      *)
LEMMA ChattingKeeps == ASSUME IInv, SeeSession \/ PersistChat PROVE IInv'
<1>1. /\ UNCHANGED <<file, aside, kept, job, habit, made, requests, ends, used, deleted>>
      /\ UNCHANGED <<ui, template, queue, bound, doc, saved, own, told, shown>>
      /\ KeepsChat \/ UNCHANGED <<dir, revived>>
      /\ gallery' \in BOOLEAN /\ epoch' \in BOOLEAN
      /\ chat' \in {chat, shown, bound}
  BY DEF SeeSession, PersistChat, bounds, senders, session, agent, IInv, TypeOK
<1>2. /\ dir \subseteq dir' /\ dir' \subseteq Draft /\ revived' \subseteq Draft
      /\ \A d \in dir' \ dir : d \in deleted => d \in revived'
      /\ revived \subseteq revived'
  BY <1>1 DEF KeepsChat, IInv, TypeOK
<1>3. TypeOK'
  BY <1>1, <1>2 DEF IInv, TypeOK
<1>4. FilesInv' /\ KeptSomewhere' /\ JobInv'
  BY <1>1, <1>2, FilesStay, JobStays
<1>5. NamesInv' /\ ShapeInv'
  BY <1>1 DEF IInv, NamesInv, ShapeInv, Known
<1>6. PublishInv'
  BY <1>1, <1>2 DEF IInv, PublishInv, Publishing, Project
<1>7. GoneInv'
  BY <1>1, <1>2 DEF IInv, GoneInv
<1> QED
  BY <1>3, <1>4, <1>5, <1>6, <1>7 DEF IInv

-----------------------------------------------------------------------------
(* The worker's other steps, and the process *)

(* A step that leaves the files and the requests as they are.              *)
LEMMA WorkerKeeps ==
  ASSUME IInv, TypeOK', JobInv',
         UNCHANGED <<file, aside, kept, ui, template, deleted, revived>>,
         dir \subseteq dir', \A d \in dir' \ dir : d \notin used, used \subseteq used',
         \A d \in Draft : Publishing(d) => d \notin {job'.draft, bound'},
         \A i \in 1..Len(queue') : \E k \in 1..Len(queue) : queue'[i] = queue[k],
         {job'.draft, bound', chat', shown'} \subseteq used' \cup {NoDraft}
  PROVE  IInv'
<1>1. FilesInv' /\ KeptSomewhere'
  BY FilesStay
<1>2. NamesInv'
  BY DEF IInv, NamesInv, Known
<1>3. ShapeInv'
  BY DEF IInv, ShapeInv
<1>4. PublishInv'
  BY DEF IInv, PublishInv, Publishing, Project
<1>5. GoneInv'
  BY DEF IInv, GoneInv, NamesInv
<1> QED
  BY <1>1, <1>2, <1>3, <1>4, <1>5 DEF IInv

LEMMA TakeSaveKeeps == ASSUME IInv, TakeSave PROVE IInv'
<1> DEFINE d == IF Head(queue).draft # NoDraft THEN Head(queue).draft ELSE bound
<1>1. /\ UNCHANGED <<dir, file, aside, kept, habit, made, requests, ends, used, deleted, revived>>
      /\ UNCHANGED <<ui, template, gallery, bound, doc, saved, own, told, shown, epoch, chat>>
      /\ Take("save") /\ job.step = "idle"
      /\ job' = IF d = NoDraft THEN job ELSE StartJob(d, "project", doc)
  BY DEF TakeSave, Take, At, disk, bounds, history, senders, session, agent
<1>2. /\ Head(queue) \in Messages /\ Known(Head(queue).draft)
      /\ \A c \in Draft : Publishing(c) => Head(queue).draft # c
      /\ queue' \in Seq(Messages)
      /\ \A i \in 1..Len(queue') : \E k \in 1..Len(queue) : queue'[i] = queue[k]
  BY <1>1, TakeFacts
<1>3. /\ Known(d) /\ d \in Draft \cup {NoDraft}
      /\ \A c \in Draft : Publishing(c) => d # c
  BY <1>2 DEF Messages, IInv, TypeOK, NamesInv, PublishInv
<1> HIDE DEF d
<1>4. CASE d = NoDraft
  BY <1>1, <1>2, <1>4, JobStays, WorkerKeeps DEF IInv, TypeOK, NamesInv, Known, PublishInv
<1>5. CASE d # NoDraft
  <2>1. /\ job' \in Jobs /\ job'.step = "stage" /\ job'.draft = d /\ job'.temp = FALSE
    <3>1. d \in Draft /\ "project" \in Name /\ doc \in Document
      BY <1>3, <1>5 DEF Name, IInv, TypeOK
    <3> QED
      BY <1>1, <1>5, <3>1, NewJob
  <2>2. TypeOK'
    BY <1>1, <1>2, <2>1 DEF IInv, TypeOK
  <2>3. JobInv'
    BY <1>3, <1>5, <2>1, JobBegins
  <2> QED
    BY <1>1, <1>2, <1>3, <2>1, <2>2, <2>3, WorkerKeeps DEF IInv, NamesInv, Known, PublishInv
<1> QED
  BY <1>4, <1>5

LEMMA AutoSaveKeeps == ASSUME IInv, AutoSave PROVE IInv'
<1>1. /\ UNCHANGED <<dir, file, aside, kept, habit, made, requests, ends, used, deleted, revived>>
      /\ UNCHANGED <<ui, template, gallery, queue, bound, doc, saved, own, told, shown, epoch, chat>>
      /\ bound # NoDraft /\ job' = StartJob(bound, "project", doc)
  BY DEF AutoSave, disk, bounds, history, senders, session, agent
<1>2. bound \in Draft
  BY <1>1 DEF IInv, TypeOK
<1>3. job' \in Jobs /\ job'.step = "stage" /\ job'.draft = bound /\ job'.temp = FALSE
  <2>1. "project" \in Name /\ doc \in Document
    BY DEF Name, IInv, TypeOK
  <2> QED
    BY <1>1, <1>2, <2>1, NewJob
<1>4. TypeOK'
  BY <1>1, <1>3 DEF IInv, TypeOK
<1>5. JobInv'
  BY <1>2, <1>3, JobBegins
<1> QED
  BY <1>1, <1>3, <1>4, <1>5, WorkerKeeps DEF IInv, NamesInv, Known, PublishInv

LEMMA SavedKeeps == ASSUME IInv, Saved PROVE IInv'
<1>1. /\ UNCHANGED <<dir, file, aside, kept, habit, made, requests, ends, used, deleted, revived>>
      /\ UNCHANGED <<ui, template, gallery, queue, doc, own, shown, epoch, chat>>
      /\ job.step = "done" /\ bound' = job.draft /\ saved' = job.doc /\ told' = FALSE
      /\ job' = [StartJob(job.draft, "meta", job.doc) EXCEPT !.last = job.last]
  BY DEF Saved, At, disk, bounds, history, senders, agent
<1>2. job.draft \in Draft /\ job.doc \in Document /\ job.last \in BOOLEAN
  BY <1>1 DEF IInv, TypeOK, Jobs, JobInv, At
<1>3. job' \in Jobs /\ job'.step = "stage" /\ job'.draft = job.draft /\ job'.temp = FALSE
  <2>1. "meta" \in Name
    BY DEF Name
  <2> QED
    BY <1>1, <1>2, <2>1, NewJob
<1>4. TypeOK'
  BY <1>1, <1>2, <1>3 DEF IInv, TypeOK
<1>5. JobInv'
  BY <1>2, <1>3, JobBegins
<1> QED
  BY <1>1, <1>3, <1>4, <1>5, WorkerKeeps DEF IInv, NamesInv, Known, PublishInv

(* The end of a job, which announces the session or does not.              *)
LEMMA JobEnds ==
  ASSUME IInv, EndJob
  PROVE  /\ job' \in Jobs /\ JobInv' /\ job'.draft = NoDraft
         /\ shown' \in {shown, bound} /\ epoch' \in BOOLEAN /\ chat' = chat
<1>1. job' \in Jobs /\ job'.step = "idle" /\ job'.draft = NoDraft /\ job'.temp = FALSE
  BY DEF EndJob, NoJob, Jobs, Name, Document
<1>2. shown' \in {shown, bound} /\ epoch' \in BOOLEAN /\ chat' = chat
  BY DEF EndJob, Announce, agent, IInv, TypeOK
<1> QED
  BY <1>1, <1>2, JobBegins

LEMMA EndingKeeps == ASSUME IInv, SaveFailed \/ Named PROVE IInv'
<1>1. /\ UNCHANGED <<dir, file, aside, kept, habit, made, requests, ends, used, deleted, revived>>
      /\ UNCHANGED <<ui, template, gallery, queue, bound, doc, saved, own>>
      /\ told' \in BOOLEAN /\ EndJob
  BY DEF SaveFailed, Named, disk, bounds, history, senders, session, IInv, TypeOK
<1>2. TypeOK'
  BY <1>1, JobEnds DEF IInv, TypeOK
<1>3. {job'.draft, bound', chat', shown'} \subseteq used' \cup {NoDraft}
  BY <1>1, JobEnds DEF IInv, NamesInv, Known
<1>4. \A d \in Draft : Publishing(d) => d \notin {job'.draft, bound'}
  BY <1>1, JobEnds, DraftAssumption DEF IInv, PublishInv
<1> QED
  BY <1>1, <1>2, <1>3, <1>4, JobEnds, WorkerKeeps

LEMMA SwitchKeeps == ASSUME IInv, TakeNew \/ TakeOpen PROVE IInv'
<1>1. /\ UNCHANGED <<dir, file, aside, kept, job, habit, made, requests, ends, used, deleted, revived>>
      /\ UNCHANGED <<ui, template, gallery>>
  BY DEF TakeNew, TakeOpen, disk, bounds, history, senders
<1>2. /\ queue' \in Seq(Messages)
      /\ \A i \in 1..Len(queue') : \E k \in 1..Len(queue) : queue'[i] = queue[k]
  BY TakeFacts DEF TakeNew, TakeOpen
<1>3. /\ bound' \in Draft \cup {NoDraft} /\ Known(bound')
      /\ \A c \in Draft : Publishing(c) => bound' # c
      /\ doc' \in Document /\ saved' \in Document /\ own' \in Document /\ told' \in BOOLEAN
      /\ shown' \in {shown, bound'} /\ epoch' \in BOOLEAN /\ chat' = chat
  <2>1. CASE TakeNew
    BY <2>1, DraftAssumption DEF TakeNew, BecomeSession, Fresh, Announce, Known, Document
  <2>2. CASE TakeOpen
    <3>1. /\ Head(queue) \in Messages /\ Known(Head(queue).draft) /\ Head(queue).draft \in Draft
          /\ \A c \in Draft : Publishing(c) => Head(queue).draft # c
      BY <2>2, TakeFacts DEF TakeOpen
    <3>2. Project(Head(queue).draft) \in Place
      BY <3>1 DEF Project, Place, Name
    <3>3. CASE /\ file[Project(Head(queue).draft)] # Nothing
               /\ BecomeSession([Fresh EXCEPT !.bound = Head(queue).draft,
                                              !.doc = file[Project(Head(queue).draft)],
                                              !.saved = file[Project(Head(queue).draft)]])
               /\ Announce(Head(queue).draft)
      <4>1. file[Project(Head(queue).draft)] \in Document
        BY <3>2, <3>3 DEF IInv, TypeOK
      <4> QED
        BY <3>1, <3>3, <4>1 DEF BecomeSession, Fresh, Announce, Document
    <3>4. CASE /\ told' = (told \/ Head(queue).by = "ui")
               /\ UNCHANGED <<bound, doc, saved, own, agent>>
      BY <3>4 DEF agent, IInv, TypeOK, NamesInv, PublishInv
    <3> QED
      BY <2>2, <3>3, <3>4 DEF TakeOpen
  <2> QED
    BY <2>1, <2>2
<1>4. TypeOK'
  BY <1>1, <1>2, <1>3 DEF IInv, TypeOK
<1>5. JobInv'
  BY <1>1, JobStays
<1>6. \A d \in Draft : Publishing(d) => d \notin {job'.draft, bound'}
  BY <1>1, <1>3 DEF IInv, PublishInv
<1>7. {job'.draft, bound', chat', shown'} \subseteq used' \cup {NoDraft}
  BY <1>1, <1>3 DEF IInv, NamesInv, Known
<1> QED
  BY <1>1, <1>2, <1>4, <1>5, <1>6, <1>7, WorkerKeeps

LEMMA TakeTemplateKeeps == ASSUME IInv, TakeTemplate PROVE IInv'
<1>1. /\ UNCHANGED <<file, aside, kept, habit, made, requests, ends, deleted, revived>>
      /\ UNCHANGED <<ui, template, gallery>>
  BY DEF TakeTemplate, bounds, senders
<1>2. /\ queue' \in Seq(Messages)
      /\ \A i \in 1..Len(queue') : \E k \in 1..Len(queue) : queue'[i] = queue[k]
  BY TakeFacts DEF TakeTemplate
<1>3. CASE /\ UNCHANGED <<dir, used, job>>
           /\ \/ told' = TRUE /\ UNCHANGED <<bound, doc, saved, own, agent>>
              \/ BecomeSession([Fresh EXCEPT !.told = TRUE]) /\ Announce(NoDraft)
  <2>1. /\ bound' \in {bound, NoDraft} /\ told' \in BOOLEAN
        /\ doc' \in Document /\ saved' \in Document /\ own' \in Document
        /\ shown' \in {shown, NoDraft} /\ epoch' \in BOOLEAN /\ chat' = chat
    <3>1. CASE told' = TRUE /\ UNCHANGED <<bound, doc, saved, own, agent>>
      BY <3>1 DEF agent, IInv, TypeOK
    <3>2. CASE BecomeSession([Fresh EXCEPT !.told = TRUE]) /\ Announce(NoDraft)
      BY <3>2 DEF BecomeSession, Fresh, Announce, Document
    <3> QED
      BY <1>3, <3>1, <3>2
  <2>2. TypeOK'
    BY <1>1, <1>2, <1>3, <2>1 DEF IInv, TypeOK
  <2>3. JobInv'
    BY <1>1, <1>3, JobStays
  <2>4. \A d \in Draft : Publishing(d) => d \notin {job'.draft, bound'}
    BY <1>3, <2>1, DraftAssumption DEF IInv, PublishInv
  <2>5. {job'.draft, bound', chat', shown'} \subseteq used' \cup {NoDraft}
    BY <1>3, <2>1 DEF IInv, NamesInv, Known
  <2> QED
    BY <1>1, <1>2, <1>3, <2>2, <2>3, <2>4, <2>5, WorkerKeeps
<1>4. CASE \E d \in Unused :
             /\ BecomeSession(Fresh)
             /\ dir' = dir \cup {d} /\ used' = used \cup {d}
             /\ job' = [StartJob(d, "project", 0) EXCEPT !.last = TRUE]
             /\ UNCHANGED agent
  <2>1. PICK d \in Unused :
          /\ BecomeSession(Fresh)
          /\ dir' = dir \cup {d} /\ used' = used \cup {d}
          /\ job' = [StartJob(d, "project", 0) EXCEPT !.last = TRUE]
          /\ UNCHANGED agent
    BY <1>4
  <2>2. d \in Draft /\ d \notin used
    BY DEF Unused
  <2>3. job' \in Jobs /\ job'.step = "stage" /\ job'.draft = d /\ job'.temp = FALSE
    <3>1. "project" \in Name /\ 0 \in Document
      BY DEF Name, Document
    <3> QED
      BY <2>1, <2>2, <3>1, NewJob
  <2>4. /\ bound' = NoDraft /\ doc' = 0 /\ saved' = 0 /\ own' = 0 /\ told' = FALSE
        /\ UNCHANGED <<shown, epoch, chat>>
    BY <2>1 DEF BecomeSession, Fresh, agent
  <2>5. TypeOK'
    BY <1>1, <1>2, <2>1, <2>2, <2>3, <2>4 DEF IInv, TypeOK, Document
  <2>6. JobInv'
    BY <2>2, <2>3, JobBegins
  <2>7. \A c \in Draft : Publishing(c) => c \notin {job'.draft, bound'}
    BY <2>2, <2>3, <2>4, DraftAssumption DEF IInv, PublishInv
  <2>8. {job'.draft, bound', chat', shown'} \subseteq used' \cup {NoDraft}
    BY <2>1, <2>3, <2>4 DEF IInv, NamesInv, Known
  <2> QED
    BY <1>1, <1>2, <2>1, <2>2, <2>5, <2>6, <2>7, <2>8, WorkerKeeps
<1> QED
  BY <1>3, <1>4 DEF TakeTemplate

LEMMA TakeEditKeeps == ASSUME IInv, TakeEdit PROVE IInv'
<1>1. /\ UNCHANGED <<dir, file, aside, kept, job, habit, made, requests, ends, used, deleted, revived>>
      /\ UNCHANGED <<ui, template, gallery, bound, saved, told, shown, epoch, chat>>
      /\ doc' = Head(queue).doc /\ own' \in {Head(queue).doc, own}
  BY DEF TakeEdit, disk, bounds, history, senders, agent
<1>2. /\ Head(queue).doc \in Document
      /\ queue' \in Seq(Messages)
      /\ \A i \in 1..Len(queue') : \E k \in 1..Len(queue) : queue'[i] = queue[k]
  BY TakeFacts DEF TakeEdit, Messages
<1>3. TypeOK'
  BY <1>1, <1>2 DEF IInv, TypeOK
<1>4. JobInv'
  BY <1>1, JobStays
<1> QED
  BY <1>1, <1>2, <1>3, <1>4, WorkerKeeps DEF IInv, NamesInv, Known, PublishInv

LEMMA ProcessEndsKeeps == ASSUME IInv, ProcessEnds PROVE IInv'
<1>1. /\ UNCHANGED <<dir, file, aside, kept, habit, made, requests, used, deleted, revived>>
      /\ ends' = ends + 1 /\ job' = NoJob /\ gallery' = TRUE
      /\ ui' = <<>> /\ template' = <<>> /\ queue' = <<>>
      /\ bound' = NoDraft /\ doc' = 0 /\ saved' = 0 /\ own' = 0 /\ told' = FALSE
      /\ shown' = NoDraft /\ epoch' = FALSE /\ chat' = NoDraft
  BY DEF ProcessEnds, disk, history, BecomeSession, Fresh
<1>2. job' \in Jobs /\ job'.step = "idle" /\ job'.draft = NoDraft /\ job'.temp = FALSE
  BY <1>1 DEF NoJob, Jobs, Name, Document
<1>3. <<>> \in Seq(Messages)
  OBVIOUS
<1>e. ends' \in Nat
  BY <1>1 DEF IInv, TypeOK
<1>4. TypeOK'
  BY <1>1, <1>2, <1>3, <1>e DEF IInv, TypeOK, Document
<1>5. FilesInv' /\ KeptSomewhere' /\ JobInv'
  BY <1>1, <1>2, FilesStay, JobBegins
<1>6. NamesInv' /\ ShapeInv' /\ PublishInv'
  BY <1>1, <1>2 DEF IInv, NamesInv, Known, ShapeInv, PublishInv, Publishing
<1>7. GoneInv'
  BY <1>1 DEF IInv, GoneInv
<1> QED
  BY <1>4, <1>5, <1>6, <1>7 DEF IInv

-----------------------------------------------------------------------------
(* The theorems *)

LEMMA StepKeeps == IInv /\ [Next]_vars => IInv'
<1> SUFFICES ASSUME IInv, [Next]_vars PROVE IInv'
  OBVIOUS
<1>1. CASE New \/ Open \/ Import \/ PublishImport \/ Close \/ SaveNow \/ SendNext
  BY <1>1, NewKeeps, OpenKeeps, ImportKeeps, PublishImportKeeps, FlushOnlyKeeps, SendNextKeeps
<1>2. CASE Edit \/ AgentEdit \/ UseTemplate \/ SendTemplate \/ AgentOpen
  BY <1>2, EditingKeeps, UseTemplateKeeps, SendTemplateKeeps, AgentOpenKeeps
<1>3. CASE SeeSession \/ PersistChat \/ \E d \in Draft : Delete(d)
  BY <1>3, ChattingKeeps, DeleteKeeps
<1>4. CASE Worker
  BY <1>4, TakeSaveKeeps, AutoSaveKeeps, ReplacingKeeps, SavedKeeps, EndingKeeps, SwitchKeeps,
     TakeTemplateKeeps, TakeEditKeeps DEF Worker
<1>5. CASE ProcessEnds
  BY <1>5, ProcessEndsKeeps
<1>6. CASE UNCHANGED vars
  <2>1. /\ UNCHANGED <<dir, file, aside, kept, job, habit, made, requests, ends, used, deleted, revived>>
        /\ UNCHANGED <<ui, template, gallery, queue, bound, doc, saved, own, told, shown, epoch, chat>>
    BY <1>6 DEF vars, disk, bounds, history, senders, session, agent
  <2>2. TypeOK' /\ NamesInv' /\ ShapeInv' /\ PublishInv' /\ GoneInv'
    BY <2>1 DEF IInv, TypeOK, NamesInv, Known, ShapeInv, PublishInv, Publishing, GoneInv
  <2> QED
    BY <2>1, <2>2, FilesStay, JobStays DEF IInv
<1> QED
  BY <1>1, <1>2, <1>3, <1>4, <1>5, <1>6 DEF Next

(* The invariant holds for every set of drafts, every habit and every      *)
(* number of edits, requests and ends of the process.                      *)
THEOREM Invariance == Spec => []IInv
<1> QED
  BY InitHolds, StepKeeps, PTL DEF Spec

(* Files, jobs, messages and sessions keep their types.                    *)
THEOREM TypeCorrect == Spec => []TypeOK
<1>1. IInv => TypeOK
  BY DEF IInv
<1> QED
  BY <1>1, Invariance, PTL

(* What was last put in a draft is at its destination, or in a backup      *)
(* with nothing at the destination, whichever calls fail (persist.rs).     *)
THEOREM KeptSomewhereHolds == Spec => []KeptSomewhere
<1>1. IInv => KeptSomewhere
  BY DEF IInv
<1> QED
  BY <1>1, Invariance, PTL

(* No save brings back a draft the user deleted.                           *)
THEOREM DeletedStaysAwayHolds == Spec => []DeletedStaysAway
<1>1. IInv => DeletedStaysAway
  <2> SUFFICES ASSUME IInv, NEW d \in deleted \ revived
               PROVE  d \notin dir /\ d \notin Listed
    BY DEF DeletedStaysAway
  <2>1. d \in Draft /\ d \notin dir
    BY DEF IInv, TypeOK, GoneInv
  <2>2. Project(d) \in Place /\ Project(d)[1] = d
    BY <2>1 DEF Project, Place, Name
  <2> QED
    BY <2>1, <2>2 DEF IInv, FilesInv, Listed
<1> QED
  BY <1>1, Invariance, PTL

-----------------------------------------------------------------------------
(* Changes of the session.                                                 *)
(*                                                                         *)
(* A flush and the change of session it protects are two messages, and     *)
(* those of other threads come between them.  The inductive invariant      *)
(* follows the UI thread's own messages through the queue: no edit of the  *)
(* user's is between a flush and its change, and once the flush was taken, *)
(* nothing but the user's next edit makes the session unsafe again.  A     *)
(* flush of a session that has no draft does nothing, so that such a       *)
(* session must hold no edit of the user's: its draft is on its way.       *)

IsFlush(m) == m.by = "ui" /\ m.op = "save" /\ m.draft = NoDraft
IsBind(m) == m.by = "ui" /\ m.op = "save" /\ m.draft # NoDraft
IsSwap(m) == m.by = "ui" /\ m.op \in {"new", "open"}
IsNew(m) == m.by = "ui" /\ m.op = "new"
IsEdit(m) == m.by = "ui" /\ m.op = "edit"

Saving == ~At("idle") /\ job.name = "project"

(* The user's edits of this session are stored, or will be, or are known   *)
(* not to be.                                                              *)
Safe == Saving \/ own = 0 \/ Stored(own, bound) \/ told \/ bound \in deleted

(* Nothing of the UI thread's is queued between two places.                *)
Quiet(i, j) == \A k \in 1..Len(queue) : i < k /\ k < j => queue[k].by # "ui"

(* Nothing of the UI thread's is queued after a place.                     *)
Silent(i) == \A k \in 1..Len(queue) : i < k => queue[k].by # "ui"

(* A change of session at place n comes right after a flush.               *)
Covered(n) ==
  \/ \E j \in 1..Len(queue) : j < n /\ IsFlush(queue[j]) /\ Quiet(j, n)
  \/ Quiet(0, n) /\ Safe

(* What comes next after place n gives the session its draft.              *)
BindAfter(n) ==
  \/ \E j \in 1..Len(queue) : n < j /\ IsBind(queue[j]) /\ Quiet(n, j)
  \/ Silent(n) /\ ui # <<>> /\ IsBind(ui[1])

(* A change of session is at place n, or will be the next to be sent.      *)
SwapAt(n) ==
  \/ n \in 1..Len(queue) /\ IsSwap(queue[n])
  \/ n = Len(queue) + 1 /\ ui # <<>> /\ IsSwap(ui[1])

UiInv ==
  \A i \in 1..Len(ui) :
    /\ ui[i].by = "ui" /\ ui[i].op # "edit"
    /\ IsSwap(ui[i]) /\ i # 1 => IsFlush(ui[i-1])
    /\ IsNew(ui[i]) => i + 1 \in 1..Len(ui) /\ IsBind(ui[i+1])

ByInv ==
  /\ \A i \in 1..Len(template) : template[i].by = "template" /\ template[i].op \notin {"edit", "new"}
  /\ \A i \in 1..Len(queue) : queue[i].op = "new" => queue[i].by = "ui"

CoverInv == \A n \in 1..(Len(queue)+1) : SwapAt(n) => Covered(n)

BindInv == \A n \in 1..Len(queue) : IsNew(queue[n]) => BindAfter(n)

UnboundInv ==
  bound = NoDraft /\ ~told /\ ~Saving =>
    /\ own = 0
    /\ \/ BindAfter(0)
       \/ gallery /\ ~epoch /\ \A i \in 1..Len(queue) : ~IsEdit(queue[i])

(* A save under way is of the document as it is.                           *)
SavingInv ==
  /\ Saving =>
       /\ job.doc = doc
       /\ At("done") => file[Project(job.draft)] = job.doc \/ job.draft \in deleted
  /\ ~At("idle") /\ ~Saving => bound # NoDraft

(* Edits are numbered in the order in which they are taken.                *)
EditsInv ==
  /\ own <= doc /\ own <= made
  /\ \A i \in 1..Len(queue) : queue[i].op = "edit" => own < queue[i].doc /\ queue[i].doc <= made
  /\ \A i, j \in 1..Len(queue) :
       i < j /\ queue[i].op = "edit" /\ queue[j].op = "edit" => queue[i].doc < queue[j].doc

SessionInv ==
  /\ UiInv
  /\ ByInv
  /\ CoverInv
  /\ BindInv
  /\ UnboundInv
  /\ SavingInv
  /\ EditsInv

SwitchInv == IInv /\ SessionInv
-----------------------------------------------------------------------------
(* The queue loses its first message, or gets one more *)

LEMMA PopFacts ==
  ASSUME queue \in Seq(Messages), queue # <<>>, queue' = Tail(queue)
  PROVE  /\ Len(queue) \in Nat /\ 1 \in 1..Len(queue) /\ Head(queue) = queue[1]
         /\ Len(queue') = Len(queue) - 1
         /\ \A i \in 1..Len(queue') : i + 1 \in 1..Len(queue) /\ queue'[i] = queue[i+1]
         /\ \A i \in 2..Len(queue) : i - 1 \in 1..Len(queue') /\ queue'[i-1] = queue[i]
<1>1. /\ Head(queue) = queue[1] /\ 1 \in 1..Len(queue)
      /\ Len(queue') = Len(queue) - 1
      /\ \A i \in 1..Len(queue') : queue'[i] = queue[i+1] /\ i+1 \in 2..Len(queue)
  BY Popped
<1>2. Len(queue) \in Nat
  OBVIOUS
<1>3. \A i \in 2..Len(queue) : i - 1 \in 1..Len(queue') /\ (i - 1) + 1 = i
  BY <1>1, <1>2
<1> QED
  BY <1>1, <1>2, <1>3

LEMMA PushFacts ==
  ASSUME queue \in Seq(Messages), NEW m \in Messages, queue' = Append(queue, m)
  PROVE  /\ Len(queue) \in Nat /\ Len(queue') = Len(queue) + 1
         /\ \A i \in 1..Len(queue) : i \in 1..Len(queue') /\ queue'[i] = queue[i]
         /\ \A i \in 1..Len(queue') :
              i = Len(queue) + 1 \/ (i \in 1..Len(queue) /\ queue'[i] = queue[i])
         /\ Len(queue) + 1 \in 1..Len(queue') /\ queue'[Len(queue) + 1] = m
<1>1. /\ Len(queue') = Len(queue) + 1
      /\ \A i \in 1..Len(queue') : queue'[i] = IF i = Len(queue) + 1 THEN m ELSE queue[i]
  BY Pushed
<1>2. Len(queue) \in Nat
  OBVIOUS
<1> QED
  BY <1>1, <1>2

LEMMA PoppedQuiet ==
  ASSUME queue \in Seq(Messages), queue # <<>>, queue' = Tail(queue),
         NEW i \in Nat, NEW j \in Nat, Quiet(i + 1, j + 1)
  PROVE  Quiet(i, j)'
  BY PopFacts DEF Quiet

LEMMA PoppedCovered ==
  ASSUME queue \in Seq(Messages), queue # <<>>, queue' = Tail(queue),
         NEW n \in Nat, 1 <= n, Covered(n + 1),
         IsFlush(Head(queue)) => Safe',
         Safe /\ Head(queue).by # "ui" => Safe'
  PROVE  Covered(n)'
<1>1. CASE Quiet(0, n + 1) /\ Safe
  <2>1. queue[1].by # "ui"
    BY <1>1, PopFacts DEF Quiet
  <2>2. Quiet(0, n)'
    BY <1>1, PopFacts DEF Quiet
  <2> QED
    BY <2>1, <2>2, <1>1, PopFacts DEF Covered
<1>2. ASSUME NEW j \in 1..Len(queue), j < n + 1, IsFlush(queue[j]), Quiet(j, n + 1)
      PROVE  Covered(n)'
  <2>1. CASE j = 1
    <3>1. Quiet(0, n)'
      BY <2>1, <1>2, PopFacts DEF Quiet
    <3> QED
      BY <3>1, <2>1, <1>2, PopFacts DEF Covered
  <2>2. CASE j # 1
    <3>1. /\ j - 1 \in 1..Len(queue') /\ j - 1 < n /\ j - 1 \in Nat
          /\ queue'[j-1] = queue[j] /\ (j - 1) + 1 = j
      BY <2>2, <1>2, PopFacts
    <3>2. Quiet(j - 1, n)'
      BY <3>1, <1>2, PopFacts DEF Quiet
    <3>3. IsFlush(queue'[j-1])
      BY <3>1, <1>2
    <3> QED
      BY <3>1, <3>2, <3>3 DEF Covered, IsFlush
  <2> QED
    BY <2>1, <2>2
<1> QED
  BY <1>1, <1>2 DEF Covered

LEMMA PoppedBindAfter ==
  ASSUME queue \in Seq(Messages), queue # <<>>, queue' = Tail(queue), ui' = ui,
         NEW n \in Nat, BindAfter(n + 1) \/ (n = 0 /\ BindAfter(0) /\ ~IsBind(Head(queue)))
  PROVE  BindAfter(n)'
<1>1. ASSUME NEW j \in 1..Len(queue), j # 1, n < j - 1 \/ n = 0, IsBind(queue[j]),
             \A k \in 1..Len(queue) : n + 1 < k /\ k < j => queue[k].by # "ui"
      PROVE  BindAfter(n)'
  <2>1. /\ j - 1 \in 1..Len(queue') /\ n < j - 1
        /\ queue'[j-1] = queue[j]
    BY <1>1, PopFacts
  <2>2. Quiet(n, j - 1)'
    BY <2>1, <1>1, PopFacts DEF Quiet
  <2> QED
    BY <2>1, <2>2, <1>1 DEF BindAfter, IsBind
<1>2. ASSUME \A k \in 1..Len(queue) : n + 1 < k => queue[k].by # "ui", ui # <<>>, IsBind(ui[1])
      PROVE  BindAfter(n)'
  BY <1>2, PopFacts DEF BindAfter, Silent, IsBind
<1>3. CASE BindAfter(n + 1)
  <2>1. CASE Silent(n + 1) /\ ui # <<>> /\ IsBind(ui[1])
    BY <1>2, <2>1 DEF Silent
  <2>2. ASSUME NEW j \in 1..Len(queue), n + 1 < j, IsBind(queue[j]), Quiet(n + 1, j)
        PROVE  BindAfter(n)'
    <3>1. j # 1 /\ n < j - 1
      BY <2>2, PopFacts
    <3> QED
      BY <3>1, <2>2, <1>1 DEF Quiet
  <2> QED
    BY <1>3, <2>1, <2>2 DEF BindAfter
<1>4. CASE n = 0 /\ BindAfter(0) /\ ~IsBind(Head(queue))
  <2>1. CASE Silent(0) /\ ui # <<>> /\ IsBind(ui[1])
    BY <1>2, <1>4, <2>1, PopFacts DEF Silent
  <2>2. ASSUME NEW j \in 1..Len(queue), IsBind(queue[j]), Quiet(0, j)
        PROVE  BindAfter(n)'
    <3>1. j # 1
      BY <2>2, <1>4, PopFacts
    <3> QED
      BY <3>1, <2>2, <1>1, <1>4 DEF Quiet
  <2> QED
    BY <1>4, <2>1, <2>2 DEF BindAfter
<1> QED
  BY <1>3, <1>4

LEMMA PushedCovered ==
  ASSUME queue \in Seq(Messages), NEW m \in Messages, queue' = Append(queue, m), Safe => Safe',
         NEW n \in 1..(Len(queue)+1), Covered(n)
  PROVE  Covered(n)'
<1>1. CASE Quiet(0, n) /\ Safe
  BY <1>1, PushFacts DEF Covered, Quiet
<1>2. ASSUME NEW j \in 1..Len(queue), j < n, IsFlush(queue[j]), Quiet(j, n)
      PROVE  Covered(n)'
  <2>1. j \in 1..Len(queue') /\ IsFlush(queue'[j]) /\ Quiet(j, n)'
    BY <1>2, PushFacts DEF Quiet
  <2> QED
    BY <2>1, <1>2 DEF Covered, IsFlush
<1> QED
  BY <1>1, <1>2 DEF Covered

(* What comes after the new message.                                       *)
LEMMA PushedCoveredNext ==
  ASSUME queue \in Seq(Messages), NEW m \in Messages, queue' = Append(queue, m), Safe => Safe',
         IsFlush(m) \/ (m.by # "ui" /\ Covered(Len(queue) + 1)),
         NEW n \in Nat, n = Len(queue) + 2
  PROVE  Covered(n)'
<1>1. CASE IsFlush(m)
  BY <1>1, PushFacts DEF Covered, Quiet, IsFlush
<1>2. CASE m.by # "ui" /\ Quiet(0, Len(queue) + 1) /\ Safe
  BY <1>2, PushFacts DEF Covered, Quiet
<1>3. ASSUME m.by # "ui", NEW j \in 1..Len(queue), IsFlush(queue[j]), Quiet(j, Len(queue) + 1)
      PROVE  Covered(n)'
  <2>1. j \in 1..Len(queue') /\ IsFlush(queue'[j]) /\ Quiet(j, n)' /\ j < n
    BY <1>3, PushFacts DEF Quiet
  <2> QED
    BY <2>1 DEF Covered, IsFlush
<1> QED
  BY <1>1, <1>2, <1>3 DEF Covered

LEMMA PushedBindAfter ==
  ASSUME queue \in Seq(Messages), NEW m \in Messages, queue' = Append(queue, m),
         NEW n \in 0..Len(queue), BindAfter(n),
         \/ m.by # "ui" /\ ui' = ui
         \/ ui = <<>>
         \/ ui # <<>> /\ m = ui[1]
  PROVE  BindAfter(n)'
<1>1. ASSUME NEW j \in 1..Len(queue), n < j, IsBind(queue[j]), Quiet(n, j)
      PROVE  BindAfter(n)'
  <2>1. j \in 1..Len(queue') /\ IsBind(queue'[j]) /\ Quiet(n, j)'
    BY <1>1, PushFacts DEF Quiet
  <2> QED
    BY <2>1, <1>1 DEF BindAfter, IsBind
<1>2. CASE Silent(n) /\ ui # <<>> /\ IsBind(ui[1]) /\ m = ui[1]
  <2>1. Len(queue) + 1 \in 1..Len(queue') /\ IsBind(queue'[Len(queue) + 1]) /\ n < Len(queue) + 1
    BY <1>2, PushFacts
  <2>2. \E j \in 1..Len(queue') : n < j /\ IsBind(queue'[j]) /\ Quiet(n, j)'
    <3>1. PICK j : j = Len(queue) + 1
      OBVIOUS
    <3>2. Quiet(n, j)'
      BY <3>1, <1>2, PushFacts DEF Quiet, Silent
    <3> QED
      BY <3>1, <3>2, <2>1
  <2> QED
    BY <2>2 DEF BindAfter, IsBind
<1>3. CASE Silent(n) /\ ui # <<>> /\ IsBind(ui[1]) /\ m.by # "ui" /\ ui' = ui
  <2>1. Silent(n)'
    BY <1>3, PushFacts DEF Silent
  <2> QED
    BY <2>1, <1>3 DEF BindAfter, IsBind
<1> QED
  BY <1>1, <1>2, <1>3 DEF BindAfter

LEMMA SwitchInitHolds == Init => SwitchInv
<1> SUFFICES ASSUME Init PROVE SwitchInv
  OBVIOUS
<1>1. IInv
  BY InitHolds
<1>2. /\ job = NoJob /\ made = 0 /\ ui = <<>> /\ template = <<>> /\ gallery = TRUE /\ queue = <<>>
      /\ bound = NoDraft /\ doc = 0 /\ own = 0 /\ told = FALSE /\ epoch = FALSE
      /\ Len(queue) = 0 /\ Len(ui) = 0 /\ Len(template) = 0
  BY DEF Init
<1>3. UiInv /\ ByInv /\ CoverInv /\ BindInv /\ EditsInv
  BY <1>2 DEF UiInv, ByInv, CoverInv, SwapAt, BindInv, EditsInv
<1>4. UnboundInv /\ SavingInv
  BY <1>2 DEF UnboundInv, SavingInv, Saving, At, NoJob
<1> QED
  BY <1>1, <1>3, <1>4 DEF SwitchInv, SessionInv

-----------------------------------------------------------------------------
(* Steps that leave the queue and the session as they are *)

LEMMA SafeStays ==
  ASSUME SwitchInv, UNCHANGED <<bound, own, told>>, deleted \subseteq deleted', Saving => Saving',
         bound \in Draft => bound \in deleted' \/ file'[Project(bound)] = file[Project(bound)],
         Safe
  PROVE  Safe'
  BY DEF Safe, Stored, Project

LEMMA SessionStays ==
  ASSUME SwitchInv, UNCHANGED <<queue, bound, doc, own, told, made>>,
         UiInv', ByInv',
         \/ ui' = ui
         \/ /\ ui = <<>> \/ ~IsBind(ui[1])
            /\ ui' = <<>> \/ ~IsSwap(ui'[1]),
         gallery /\ ~epoch => gallery' /\ ~epoch',
         job'.step = job.step, job'.name = job.name, job'.doc = job.doc, job'.draft = job.draft,
         deleted \subseteq deleted',
         \A d \in {bound, job.draft} \cap Draft :
           d \in deleted' \/ file'[Project(d)] = file[Project(d)]
  PROVE  SessionInv'
<1>s. Saving' = Saving /\ (Safe => Safe')
  <2>1. Saving' = Saving
    BY DEF Saving, At
  <2> QED
    BY <2>1, SafeStays
<1>1. CoverInv'
  <2> SUFFICES ASSUME NEW n \in 1..(Len(queue)+1), SwapAt(n)'
               PROVE  Covered(n)'
    BY DEF CoverInv
  <2>1. SwapAt(n)
    BY DEF SwapAt, IsSwap
  <2>2. Covered(n)
    BY <2>1 DEF SwitchInv, SessionInv, CoverInv
  <2> QED
    BY <2>2, <1>s DEF Covered, Quiet
<1>2. ASSUME NEW n \in Nat, BindAfter(n) PROVE BindAfter(n)'
  BY <1>2 DEF BindAfter, Quiet, Silent, IsBind
<1>l. Len(queue) \in Nat
  BY DEF SwitchInv, IInv, TypeOK
<1>3. BindInv'
  <2> SUFFICES ASSUME NEW n \in 1..Len(queue), IsNew(queue[n])
               PROVE  BindAfter(n)'
    BY DEF BindInv, IsNew
  <2>1. BindAfter(n) /\ n \in Nat
    BY <1>l DEF SwitchInv, SessionInv, BindInv
  <2> QED
    BY <2>1, <1>2
<1>4. UnboundInv'
  <2> SUFFICES ASSUME bound = NoDraft, ~told, ~Saving
               PROVE  /\ own = 0
                      /\ \/ BindAfter(0)'
                         \/ gallery' /\ ~epoch' /\ \A i \in 1..Len(queue) : ~IsEdit(queue[i])
    BY <1>s DEF UnboundInv, IsEdit
  <2>1. /\ own = 0
        /\ BindAfter(0) \/ (gallery /\ ~epoch /\ \A i \in 1..Len(queue) : ~IsEdit(queue[i]))
    BY DEF SwitchInv, SessionInv, UnboundInv
  <2> QED
    BY <2>1, <1>2
<1>5. SavingInv'
  <2>1. At("idle")' = At("idle") /\ At("done")' = At("done")
    BY DEF At
  <2>2. Saving /\ At("done") => job.draft \in Draft
    BY DEF SwitchInv, IInv, JobInv, Saving
  <2> QED
    BY <1>s, <2>1, <2>2 DEF SwitchInv, SessionInv, SavingInv
<1>6. EditsInv'
  BY DEF SwitchInv, SessionInv, EditsInv
<1> QED
  BY <1>1, <1>3, <1>4, <1>5, <1>6 DEF SessionInv

LEMMA StartStays ==
  ASSUME SwitchInv, NEW kind, NEW s \in Seq(Messages), StartsWith(kind, s),
         gallery' = gallery \/ gallery' = TRUE,
         \A d \in used \cap Draft : file'[Project(d)] = file[Project(d)],
         s # <<>>, ~IsSwap(s[1]),
         \A i \in 1..Len(s) :
           /\ s[i].by = "ui" /\ s[i].op # "edit"
           /\ IsSwap(s[i]) /\ i # 1 => IsFlush(s[i-1])
           /\ IsNew(s[i]) => i + 1 \in 1..Len(s) /\ IsBind(s[i+1])
  PROVE  SessionInv'
<1>u. /\ ui = <<>> /\ ui' = s
      /\ UNCHANGED <<job, made, deleted, template, queue, bound, doc, own, told, epoch>>
  BY DEF StartsWith, session, agent
<1>1. UiInv'
  BY <1>u DEF UiInv, IsSwap, IsFlush, IsNew, IsBind
<1>2. ByInv'
  BY <1>u DEF SwitchInv, SessionInv, ByInv
<1>3. \A d \in {bound, job.draft} \cap Draft : file'[Project(d)] = file[Project(d)]
  <2>1. {bound, job.draft} \cap Draft \subseteq used \cap Draft
    BY DraftAssumption DEF SwitchInv, IInv, NamesInv, Known
  <2> QED
    BY <2>1
<1>4. ~IsSwap(ui'[1])
  BY <1>u
<1> QED
  BY <1>u, <1>1, <1>2, <1>3, <1>4, SessionStays

LEMMA NewStays == ASSUME SwitchInv, New PROVE SessionInv'
<1>1. PICK d \in Unused :
        StartsWith("new", <<Flush("ui"), Message("ui", "new", NoDraft), Message("ui", "save", d)>>)
  BY DEF New
<1> DEFINE s == <<Flush("ui"), Message("ui", "new", NoDraft), Message("ui", "save", d)>>
<1>2. UNCHANGED <<file, gallery>>
  BY DEF New
<1>3. d \in Draft /\ d # NoDraft
  BY DraftAssumption DEF Unused
<1>4. /\ s \in Seq(Messages) /\ Len(s) = 3
      /\ s[1].by = "ui" /\ s[1].op = "save" /\ s[1].draft = NoDraft
      /\ s[2].by = "ui" /\ s[2].op = "new"
      /\ s[3].by = "ui" /\ s[3].op = "save" /\ s[3].draft = d
  BY <1>3, MessageFields DEF Flush, Senders
<1>n. s # <<>>
  OBVIOUS
<1> HIDE DEF s
<1>5. /\ s # <<>> /\ ~IsSwap(s[1])
      /\ \A i \in 1..Len(s) :
           /\ s[i].by = "ui" /\ s[i].op # "edit"
           /\ IsSwap(s[i]) /\ i # 1 => IsFlush(s[i-1])
           /\ IsNew(s[i]) => i + 1 \in 1..Len(s) /\ IsBind(s[i+1])
  <2>1. \A i \in 1..Len(s) : i = 1 \/ i = 2 \/ i = 3
    BY <1>4
  <2>2. IsFlush(s[1]) /\ ~IsSwap(s[1]) /\ ~IsSwap(s[3]) /\ IsBind(s[3])
    BY <1>3, <1>4 DEF IsFlush, IsSwap, IsBind
  <2>3. ~IsNew(s[1]) /\ ~IsNew(s[3])
    BY <1>4 DEF IsNew
  <2>4. \A i \in 1..Len(s) : s[i].by = "ui" /\ s[i].op # "edit"
    BY <1>4, <2>1
  <2>5. \A i \in 1..Len(s) : IsSwap(s[i]) /\ i # 1 => IsFlush(s[i-1])
    BY <2>1, <2>2
  <2>6. \A i \in 1..Len(s) : IsNew(s[i]) => i + 1 \in 1..Len(s) /\ IsBind(s[i+1])
    BY <1>4, <2>1, <2>2, <2>3
  <2> QED
    BY <2>2, <2>4, <2>5, <2>6, <1>n
<1>6. StartsWith("new", s)
  BY <1>1 DEF s
<1> QED
  BY <1>2, <1>4, <1>5, <1>6, StartStays

LEMMA OpenStays == ASSUME SwitchInv, Open PROVE SessionInv'
<1>1. PICK d \in Listed : StartsWith("open", <<Flush("ui"), Message("ui", "open", d)>>)
  BY DEF Open
<1> DEFINE s == <<Flush("ui"), Message("ui", "open", d)>>
<1>2. UNCHANGED <<file, gallery>>
  BY DEF Open, disk
<1>3. d \in Draft
  BY DEF Listed
<1>4. /\ s \in Seq(Messages) /\ Len(s) = 2
      /\ s[1].by = "ui" /\ s[1].op = "save" /\ s[1].draft = NoDraft
      /\ s[2].by = "ui" /\ s[2].op = "open"
  BY <1>3, MessageFields DEF Flush, Senders
<1>n. s # <<>>
  OBVIOUS
<1> HIDE DEF s
<1>5. /\ s # <<>> /\ ~IsSwap(s[1])
      /\ \A i \in 1..Len(s) :
           /\ s[i].by = "ui" /\ s[i].op # "edit"
           /\ IsSwap(s[i]) /\ i # 1 => IsFlush(s[i-1])
           /\ IsNew(s[i]) => i + 1 \in 1..Len(s) /\ IsBind(s[i+1])
  <2>1. \A i \in 1..Len(s) : i = 1 \/ i = 2
    BY <1>4
  <2>2. IsFlush(s[1]) /\ ~IsSwap(s[1]) /\ ~IsNew(s[1]) /\ ~IsNew(s[2])
    BY <1>4 DEF IsFlush, IsSwap, IsNew
  <2> QED
    BY <1>4, <1>n, <2>1, <2>2
<1>6. StartsWith("open", s)
  BY <1>1 DEF s
<1> QED
  BY <1>2, <1>4, <1>5, <1>6, StartStays

LEMMA ImportStays == ASSUME SwitchInv, Import PROVE SessionInv'
<1>1. PICK d \in Unused :
        /\ StartsWith("import", <<Message("ui", "publish", d), Flush("ui"), Message("ui", "open", d)>>)
        /\ file' = [file EXCEPT ![<<d, "meta">>] = 0]
  BY DEF Import
<1> DEFINE s == <<Message("ui", "publish", d), Flush("ui"), Message("ui", "open", d)>>
<1>2. UNCHANGED gallery /\ \A c \in Draft : file'[Project(c)] = file[Project(c)]
  BY <1>1 DEF Import, Project
<1>3. d \in Draft
  BY DEF Unused
<1>4. /\ s \in Seq(Messages) /\ Len(s) = 3
      /\ s[1].by = "ui" /\ s[1].op = "publish"
      /\ s[2].by = "ui" /\ s[2].op = "save" /\ s[2].draft = NoDraft
      /\ s[3].by = "ui" /\ s[3].op = "open"
  BY <1>3, MessageFields DEF Flush, Senders
<1>n. s # <<>>
  OBVIOUS
<1> HIDE DEF s
<1>5. /\ s # <<>> /\ ~IsSwap(s[1])
      /\ \A i \in 1..Len(s) :
           /\ s[i].by = "ui" /\ s[i].op # "edit"
           /\ IsSwap(s[i]) /\ i # 1 => IsFlush(s[i-1])
           /\ IsNew(s[i]) => i + 1 \in 1..Len(s) /\ IsBind(s[i+1])
  <2>1. \A i \in 1..Len(s) : i = 1 \/ i = 2 \/ i = 3
    BY <1>4
  <2>2. IsFlush(s[2]) /\ ~IsSwap(s[1]) /\ ~IsSwap(s[2])
    BY <1>4 DEF IsFlush, IsSwap
  <2>3. ~IsNew(s[1]) /\ ~IsNew(s[2]) /\ ~IsNew(s[3])
    BY <1>4 DEF IsNew
  <2>4. \A i \in 1..Len(s) : s[i].by = "ui" /\ s[i].op # "edit"
    BY <1>4, <2>1
  <2>5. \A i \in 1..Len(s) : IsSwap(s[i]) /\ i # 1 => IsFlush(s[i-1])
    BY <2>1, <2>2
  <2>6. \A i \in 1..Len(s) : ~IsNew(s[i])
    BY <2>1, <2>3
  <2> QED
    BY <2>2, <2>4, <2>5, <2>6, <1>n
<1>6. StartsWith("import", s)
  BY <1>1 DEF s
<1> QED
  BY <1>2, <1>4, <1>5, <1>6, StartStays

LEMMA FlushOnlyStays == ASSUME SwitchInv, Close \/ SaveNow PROVE SessionInv'
<1> DEFINE s == <<Flush("ui")>>
<1>1. /\ \E kind : StartsWith(kind, s)
      /\ UNCHANGED file
      /\ gallery' = gallery \/ gallery' = TRUE
  BY DEF Close, SaveNow, disk
<1>2. /\ s \in Seq(Messages) /\ Len(s) = 1
      /\ s[1].by = "ui" /\ s[1].op = "save" /\ s[1].draft = NoDraft
  BY MessageFields DEF Flush, Senders
<1> HIDE DEF s
<1>3. /\ s # <<>> /\ ~IsSwap(s[1]) /\ ~IsNew(s[1]) /\ \A i \in 1..Len(s) : i = 1
  BY <1>2 DEF IsSwap, IsNew
<1> QED
  BY <1>1, <1>2, <1>3, StartStays

LEMMA TailKeepsUi ==
  ASSUME SwitchInv, ui # <<>>, ui' = Tail(ui)
  PROVE  /\ UiInv'
         /\ ui' # <<>> => ui'[1] = ui[2] /\ (IsSwap(ui[2]) => IsFlush(ui[1]))
<1>1. /\ Len(Tail(ui)) = Len(ui) - 1 /\ Len(ui) \in Nat
      /\ \A i \in 1..Len(Tail(ui)) : Tail(ui)[i] = ui[i+1] /\ i+1 \in 2..Len(ui)
  BY Popped DEF SwitchInv, IInv, TypeOK
<1>2. /\ Len(ui') = Len(ui) - 1
      /\ \A i \in 1..Len(ui') : ui'[i] = ui[i+1] /\ i + 1 \in 1..Len(ui) /\ i + 1 # 1
      /\ \A i \in 1..Len(ui') : i # 1 => i - 1 \in 1..Len(ui') /\ ui'[i-1] = ui[i]
  BY <1>1
<1>3. UiInv'
  <2> SUFFICES ASSUME NEW i \in 1..Len(ui')
               PROVE  /\ ui'[i].by = "ui" /\ ui'[i].op # "edit"
                      /\ IsSwap(ui'[i]) /\ i # 1 => IsFlush(ui'[i-1])
                      /\ IsNew(ui'[i]) => i + 1 \in 1..Len(ui') /\ IsBind(ui'[i+1])
    BY DEF UiInv, IsSwap, IsFlush, IsNew, IsBind
  <2>1. /\ ui[i+1].by = "ui" /\ ui[i+1].op # "edit"
        /\ IsSwap(ui[i+1]) => IsFlush(ui[(i+1)-1])
        /\ IsNew(ui[i+1]) => (i + 1) + 1 \in 1..Len(ui) /\ IsBind(ui[(i+1)+1])
    BY <1>2 DEF SwitchInv, SessionInv, UiInv
  <2>2. (i + 1) - 1 = i /\ ((i + 1) + 1 \in 1..Len(ui) => i + 1 \in 1..Len(ui'))
    BY <1>1, <1>2
  <2> QED
    BY <1>2, <2>1, <2>2
<1>4. ASSUME ui' # <<>>
      PROVE  ui'[1] = ui[2] /\ (IsSwap(ui[2]) => IsFlush(ui[1]))
  <2>1. 1 \in 1..Len(ui')
    BY <1>4, Popped DEF SwitchInv, IInv, TypeOK
  <2>2. ui'[1] = ui[2] /\ 2 \in 1..Len(ui) /\ 2 # 1 /\ 2 - 1 = 1
    BY <1>2, <2>1
  <2>3. IsSwap(ui[2]) => IsFlush(ui[1])
    BY <2>2 DEF SwitchInv, SessionInv, UiInv
  <2> QED
    BY <2>2, <2>3
<1> QED
  BY <1>3, <1>4

LEMMA PublishImportStays == ASSUME SwitchInv, PublishImport PROVE SessionInv'
<1> DEFINE d == Head(ui).draft
<1>u. /\ UNCHANGED <<made, deleted, template, gallery, queue, bound, doc, own, told, epoch>>
  BY DEF PublishImport, bounds, history, session, agent
<1>1. Head(ui) = ui[1] /\ 1 \in 1..Len(ui)
  BY Popped DEF PublishImport, SwitchInv, IInv, TypeOK
<1>2. /\ d \in Draft /\ bound # d /\ job.draft # d /\ ui # <<>> /\ ui[1].op = "publish"
  BY <1>1 DEF PublishImport, SwitchInv, IInv, ShapeInv, PublishInv, Publishing
<1>3. ui' \in {Tail(ui), <<>>}
  BY DEF PublishImport
<1>4. /\ ~IsBind(ui[1]) /\ ~IsFlush(ui[1])
  BY <1>2 DEF IsBind, IsFlush
<1>5. UiInv' /\ (ui' = <<>> \/ ~IsSwap(ui'[1]))
  <2>1. CASE ui' = Tail(ui)
    BY <1>2, <1>4, <2>1, TailKeepsUi
  <2>2. CASE ui' = <<>>
    BY <2>2 DEF UiInv
  <2> QED
    BY <1>3, <2>1, <2>2
<1>6. ByInv'
  BY <1>u DEF SwitchInv, SessionInv, ByInv
<1>7. /\ job' = job
      /\ \A c \in Draft \ {d} : file'[Project(c)] = file[Project(c)]
  <2>1. \A c \in Draft : Project(c) \in Place /\ Project(c)[1] = c
    BY DEF Project, Place, Name
  <2>2. CASE RemoveDirectory(d)
    BY <2>1, <2>2, <1>2 DEF RemoveDirectory
  <2>3. CASE file' = [file EXCEPT ![Project(d)] = 0] /\ UNCHANGED job
    BY <2>1, <2>3 DEF Project
  <2> QED
    BY <2>2, <2>3 DEF PublishImport
<1> HIDE DEF d
<1> QED
  BY <1>u, <1>2, <1>4, <1>5, <1>6, <1>7, SessionStays

LEMMA DeleteStays == ASSUME SwitchInv, NEW d \in Draft, Delete(d) PROVE SessionInv'
<1>1. /\ UNCHANGED <<made, ui, template, gallery, queue, bound, doc, own, told, epoch>>
      /\ RemoveDirectory(d) /\ deleted' = deleted \cup {d}
  BY DEF Delete, bounds, senders, session, agent
<1>2. /\ job'.step = job.step /\ job'.name = job.name
      /\ job'.doc = job.doc /\ job'.draft = job.draft
  BY <1>1 DEF RemoveDirectory, SwitchInv, IInv, TypeOK, Jobs
<1>3. \A c \in Draft : c \in deleted' \/ file'[Project(c)] = file[Project(c)]
  <2>1. \A c \in Draft : Project(c) \in Place /\ Project(c)[1] = c
    BY DEF Project, Place, Name
  <2> QED
    BY <2>1, <1>1 DEF RemoveDirectory
<1>4. UiInv' /\ ByInv'
  BY <1>1 DEF SwitchInv, SessionInv, UiInv, ByInv, IsSwap, IsFlush, IsNew, IsBind
<1> QED
  BY <1>1, <1>2, <1>3, <1>4, SessionStays

LEMMA ChattingStays == ASSUME SwitchInv, SeeSession \/ PersistChat \/ UNCHANGED vars PROVE SessionInv'
<1>1. /\ UNCHANGED <<file, job, made, deleted, ui, template, queue, bound, doc, own, told>>
      /\ gallery /\ ~epoch => gallery' /\ ~epoch'
  BY DEF SeeSession, PersistChat, vars, bounds, history, disk, senders, session, agent
<1>2. UiInv' /\ ByInv'
  BY <1>1 DEF SwitchInv, SessionInv, UiInv, ByInv, IsSwap, IsFlush, IsNew, IsBind
<1> QED
  BY <1>1, <1>2, SessionStays

LEMMA UseTemplateStays == ASSUME SwitchInv, UseTemplate PROVE SessionInv'
<1> DEFINE t == <<Flush("template"), Message("template", "template", NoDraft)>>
<1>1. /\ template' = t
      /\ UNCHANGED <<file, job, made, deleted, ui, gallery, queue, bound, doc, own, told, epoch>>
  BY DEF UseTemplate, disk, history, session, agent
<1>2. \A i \in 1..Len(t) : t[i].by = "template" /\ t[i].op \notin {"edit", "new"}
  BY DEF Flush, Message
<1> HIDE DEF t
<1>3. UiInv' /\ ByInv'
  BY <1>1, <1>2 DEF SwitchInv, SessionInv, UiInv, ByInv, IsSwap, IsFlush, IsNew, IsBind
<1> QED
  BY <1>1, <1>3, SessionStays

-----------------------------------------------------------------------------
(* Steps that send a message *)

LEMMA SendStays ==
  ASSUME SwitchInv, NEW m \in Messages, queue' = Append(queue, m),
         UNCHANGED <<file, job, deleted, gallery, bound, doc, own, told, epoch>>,
         \/ m.by # "ui" /\ m.op # "new" /\ ui' = ui
         \/ ui = <<>> /\ ui' = ui /\ IsEdit(m) /\ ~gallery
         \/ ui # <<>> /\ m = ui[1] /\ ui' = Tail(ui),
         \/ m.op # "edit" /\ made' = made
         \/ m.op = "edit" /\ made' = made + 1 /\ m.doc = made',
         \A i \in 1..Len(template') :
           template'[i].by = "template" /\ template'[i].op \notin {"edit", "new"}
  PROVE  SessionInv'
<1>q. queue \in Seq(Messages) /\ Len(queue) \in Nat
  BY DEF SwitchInv, IInv, TypeOK
<1>h. ui # <<>> /\ m = ui[1] /\ ui' = Tail(ui) => UiInv'
  BY TailKeepsUi
<1>f. ui # <<>> => 1 \in 1..Len(ui)
  BY Popped DEF SwitchInv, IInv, TypeOK
<1>s. Saving' = Saving /\ (Safe => Safe')
  BY DEF Saving, At, Safe, Stored
<1>1. UiInv'
  <2>1. ui' = ui => UiInv'
    BY DEF SwitchInv, SessionInv, UiInv, IsSwap, IsFlush, IsNew, IsBind
  <2> QED
    BY <2>1, <1>h
<1>2. ByInv'
  <2>1. m.op = "new" => m.by = "ui"
    BY <1>f DEF SwitchInv, SessionInv, UiInv, IsEdit
  <2> QED
    BY <2>1, <1>q, PushFacts DEF SwitchInv, SessionInv, ByInv
<1>3. CoverInv'
  <2> SUFFICES ASSUME NEW n \in 1..(Len(queue')+1), SwapAt(n)'
               PROVE  Covered(n)'
    BY DEF CoverInv
  <2>1. CASE n \in 1..Len(queue)
    <3>1. SwapAt(n)
      BY <2>1, <1>q, PushFacts DEF SwapAt, IsSwap
    <3>2. n \in 1..(Len(queue)+1) /\ Covered(n)
      BY <2>1, <3>1, <1>q DEF SwitchInv, SessionInv, CoverInv
    <3> QED
      BY <3>2, <1>q, <1>s, PushedCovered
  <2>2. CASE n = Len(queue) + 1
    <3>1. IsSwap(m)
      BY <2>2, <1>q, PushFacts DEF SwapAt, IsSwap
    <3>2. ui # <<>> /\ m = ui[1]
      BY <3>1 DEF IsSwap, IsEdit
    <3>3. SwapAt(n)
      BY <2>2, <3>1, <3>2 DEF SwapAt
    <3>4. n \in 1..(Len(queue)+1) /\ Covered(n)
      BY <2>2, <3>3, <1>q DEF SwitchInv, SessionInv, CoverInv
    <3> QED
      BY <3>4, <1>q, <1>s, PushedCovered
  <2>3. CASE n = Len(queue) + 2
    <3>1. ui' # <<>> /\ IsSwap(ui'[1])
      BY <2>3, <1>q, PushFacts DEF SwapAt, IsSwap
    <3>2. CASE m.by # "ui" /\ ui' = ui
      <4> DEFINE l == Len(queue) + 1
      <4>1. l \in 1..(Len(queue)+1) /\ SwapAt(l)
        BY <3>1, <3>2, <1>q DEF SwapAt
      <4>2. Covered(l)
        BY <4>1 DEF SwitchInv, SessionInv, CoverInv
      <4> QED
        BY <4>2, <3>2, <2>3, <1>q, <1>s, PushedCoveredNext
    <3>3. CASE ui # <<>> /\ m = ui[1] /\ ui' = Tail(ui)
      <4>1. IsFlush(m)
        BY <3>1, <3>3, TailKeepsUi
      <4> QED
        BY <4>1, <2>3, <1>q, <1>s, PushedCoveredNext
    <3> QED
      BY <3>1, <3>2, <3>3
  <2> QED
    BY <2>1, <2>2, <2>3, <1>q, PushFacts
<1>4. ASSUME NEW n \in 0..Len(queue), BindAfter(n) PROVE BindAfter(n)'
  BY <1>4, <1>q, PushedBindAfter
<1>5. BindInv'
  <2> SUFFICES ASSUME NEW n \in 1..Len(queue'), IsNew(queue'[n])
               PROVE  BindAfter(n)'
    BY DEF BindInv, IsNew
  <2>1. CASE n \in 1..Len(queue)
    <3>1. IsNew(queue[n]) /\ n \in 0..Len(queue)
      BY <2>1, <1>q, PushFacts
    <3>2. BindAfter(n)
      BY <2>1, <3>1 DEF SwitchInv, SessionInv, BindInv
    <3> QED
      BY <3>1, <3>2, <1>4
  <2>2. CASE n = Len(queue) + 1
    <3>1. IsNew(m)
      BY <2>2, <1>q, PushFacts
    <3>2. ui # <<>> /\ m = ui[1] /\ ui' = Tail(ui)
      BY <3>1 DEF IsNew, IsEdit
    <3>3. 1 + 1 \in 1..Len(ui) /\ IsBind(ui[1+1])
      BY <3>1, <3>2, <1>f DEF SwitchInv, SessionInv, UiInv
    <3>4. ui' # <<>>
      <4>1. Len(ui') = Len(ui) - 1 /\ Len(ui) \in Nat
        BY <3>2, Popped DEF SwitchInv, IInv, TypeOK
      <4> QED
        BY <4>1, <3>3
    <3>5. IsBind(ui'[1])
      BY <3>2, <3>3, <3>4, TailKeepsUi
    <3>6. Silent(n)'
      BY <2>2, <1>q, PushFacts DEF Silent
    <3> QED
      BY <3>4, <3>5, <3>6 DEF BindAfter, IsBind
  <2> QED
    BY <2>1, <2>2, <1>q, PushFacts
<1>6. UnboundInv'
  <2> SUFFICES ASSUME bound = NoDraft, ~told, ~Saving
               PROVE  /\ own = 0
                      /\ \/ BindAfter(0)'
                         \/ gallery /\ ~epoch /\ \A i \in 1..Len(queue') : ~IsEdit(queue'[i])
    BY <1>s DEF UnboundInv, IsEdit
  <2>1. /\ own = 0
        /\ BindAfter(0) \/ (gallery /\ ~epoch /\ \A i \in 1..Len(queue) : ~IsEdit(queue[i]))
    BY DEF SwitchInv, SessionInv, UnboundInv
  <2>2. gallery => ~IsEdit(m)
    BY <1>f DEF IsEdit, SwitchInv, SessionInv, UiInv
  <2>3. 0 \in 0..Len(queue)
    BY <1>q
  <2> QED
    BY <2>1, <2>2, <2>3, <1>4, <1>q, PushFacts
<1>7. SavingInv'
  BY <1>s DEF SwitchInv, SessionInv, SavingInv, At, Project
<1>8. EditsInv'
  <2>1. own \in Nat /\ made \in Nat /\ doc \in Nat /\ made <= made' /\ made' \in Nat
    BY DEF SwitchInv, IInv, TypeOK, Document
  <2>2. own <= doc /\ own <= made
    BY DEF SwitchInv, SessionInv, EditsInv
  <2>3. /\ \A i \in 1..Len(queue) : queue[i].op = "edit" => own < queue[i].doc /\ queue[i].doc <= made
        /\ \A i, j \in 1..Len(queue) :
             i < j /\ queue[i].op = "edit" /\ queue[j].op = "edit" => queue[i].doc < queue[j].doc
    BY DEF SwitchInv, SessionInv, EditsInv
  <2>4. \A i \in 1..Len(queue) : queue[i].doc \in Nat
    <3>1. \A i \in 1..Len(queue) : queue[i] \in Messages
      BY <1>q
    <3> QED
      BY <3>1 DEF Messages, Document
  <2>5. m.op = "edit" => m.doc = made + 1
    OBVIOUS
  <2>6. \A i \in 1..Len(queue') :
          queue'[i].op = "edit" => own < queue'[i].doc /\ queue'[i].doc <= made'
    BY <2>1, <2>2, <2>3, <2>4, <2>5, <1>q, PushFacts
  <2>7. ASSUME NEW i \in 1..Len(queue'), NEW j \in 1..Len(queue'), i < j,
               queue'[i].op = "edit", queue'[j].op = "edit"
        PROVE  queue'[i].doc < queue'[j].doc
    <3>1. i \in 1..Len(queue) /\ queue'[i] = queue[i]
      BY <2>7, <1>q, PushFacts
    <3>2. CASE j = Len(queue) + 1
      BY <3>1, <3>2, <2>1, <2>3, <2>4, <2>5, <2>7, <1>q, PushFacts
    <3>3. CASE j # Len(queue) + 1
      BY <3>1, <3>3, <2>3, <2>7, <1>q, PushFacts
    <3> QED
      BY <3>2, <3>3
  <2> QED
    BY <2>1, <2>2, <2>6, <2>7 DEF EditsInv
<1> QED
  BY <1>1, <1>2, <1>3, <1>5, <1>6, <1>7, <1>8 DEF SessionInv

LEMMA EditingStays == ASSUME SwitchInv, Edit \/ AgentEdit PROVE SessionInv'
<1>1. PICK by \in Senders :
        /\ \E kind : SendEdit(by, kind)
        /\ by # "ui" \/ (ui = <<>> /\ ~gallery)
  BY DEF Edit, AgentEdit, Senders
<1>m. made' \in Nat /\ made' = made + 1
  BY <1>1 DEF SendEdit, SwitchInv, IInv, TypeOK
<1> DEFINE m == [Message(by, "edit", NoDraft) EXCEPT !.doc = made']
<1>2. m \in Messages /\ m.by = by /\ m.op = "edit" /\ m.doc = made'
  <2>1. Message(by, "edit", NoDraft) \in Messages /\ Message(by, "edit", NoDraft).by = by
    BY MessageFields
  <2>2. made' \in Document
    BY <1>m DEF Document
  <2> QED
    BY <2>1, <2>2 DEF Messages, Message
<1>3. /\ queue' = Append(queue, m)
      /\ UNCHANGED <<file, job, deleted, gallery, bound, doc, own, told, epoch, ui, template>>
  BY <1>1 DEF SendEdit, disk, history, senders, session, agent
<1> HIDE DEF m
<1>4. \A i \in 1..Len(template') :
        template'[i].by = "template" /\ template'[i].op \notin {"edit", "new"}
  BY <1>3 DEF SwitchInv, SessionInv, ByInv
<1>5. \/ m.by # "ui" /\ m.op # "new" /\ ui' = ui
      \/ ui = <<>> /\ ui' = ui /\ IsEdit(m) /\ ~gallery
  BY <1>1, <1>2, <1>3 DEF IsEdit
<1> QED
  BY <1>m, <1>2, <1>3, <1>4, <1>5, SendStays

LEMMA SendNextStays == ASSUME SwitchInv, SendNext PROVE SessionInv'
<1>1. Head(ui) = ui[1] /\ 1 \in 1..Len(ui) /\ Head(ui) \in Messages
  BY Popped DEF SendNext, SwitchInv, IInv, TypeOK
<1>2. /\ queue' = Append(queue, ui[1]) /\ ui' = Tail(ui) /\ ui # <<>>
      /\ UNCHANGED <<file, job, deleted, gallery, bound, doc, own, told, epoch, made, template>>
  BY <1>1 DEF SendNext, disk, bounds, history, session, agent
<1>3. ui[1].op # "edit"
  BY <1>1 DEF SwitchInv, SessionInv, UiInv
<1>4. \A i \in 1..Len(template') :
        template'[i].by = "template" /\ template'[i].op \notin {"edit", "new"}
  BY <1>2 DEF SwitchInv, SessionInv, ByInv
<1> QED
  BY <1>1, <1>2, <1>3, <1>4, SendStays

LEMMA SendTemplateStays == ASSUME SwitchInv, SendTemplate PROVE SessionInv'
<1>1. /\ Head(template) = template[1] /\ 1 \in 1..Len(template) /\ Head(template) \in Messages
      /\ \A i \in 1..Len(Tail(template)) :
           Tail(template)[i] = template[i+1] /\ i+1 \in 2..Len(template)
  BY Popped DEF SendTemplate, SwitchInv, IInv, TypeOK
<1>2. /\ queue' = Append(queue, Head(template)) /\ template' = Tail(template)
      /\ UNCHANGED <<file, job, deleted, gallery, bound, doc, own, told, epoch, made, ui>>
  BY DEF SendTemplate, disk, bounds, history, session, agent
<1>3. \A k \in 1..Len(template) :
        template[k].by = "template" /\ template[k].op \notin {"edit", "new"}
  BY DEF SwitchInv, SessionInv, ByInv
<1>4. \A i \in 1..Len(template') :
        template'[i].by = "template" /\ template'[i].op \notin {"edit", "new"}
  <2>1. \A k \in 2..Len(template) : k \in 1..Len(template)
    BY <1>1
  <2> QED
    BY <1>1, <1>2, <1>3, <2>1
<1>5. /\ Head(template).by # "ui" /\ Head(template).op # "new"
      /\ Head(template).op # "edit"
  BY <1>1, <1>3
<1> QED
  BY <1>1, <1>2, <1>4, <1>5, SendStays

LEMMA AgentOpenStays == ASSUME SwitchInv, AgentOpen PROVE SessionInv'
<1>1. PICK d \in Listed : queue' = Append(queue, Message("agent", "open", d))
  BY DEF AgentOpen
<1>2. UNCHANGED <<file, job, deleted, gallery, bound, doc, own, told, epoch, made, ui, template>>
  BY DEF AgentOpen, disk, history, senders, session, agent
<1> DEFINE m == Message("agent", "open", d)
<1>3. d \in Draft
  BY DEF Listed
<1>4. m \in Messages /\ m.op = "open" /\ m.by = "agent"
  BY <1>3, MessageFields DEF Senders
<1>5. queue' = Append(queue, m)
  BY <1>1
<1> HIDE DEF m
<1>6. \A i \in 1..Len(template') :
        template'[i].by = "template" /\ template'[i].op \notin {"edit", "new"}
  BY <1>2 DEF SwitchInv, SessionInv, ByInv
<1> QED
  BY <1>2, <1>4, <1>5, <1>6, SendStays

-----------------------------------------------------------------------------
(* The worker takes a message *)

LEMMA TakeStays ==
  ASSUME SwitchInv, NEW o, Take(o), UNCHANGED <<ui, template, made>>,
         IsFlush(Head(queue)) => Safe',
         Safe /\ Head(queue).by # "ui" => Safe',
         UnboundInv', SavingInv',
         own' \in Nat, own' <= doc',
         own' = 0 \/ own' = own \/ (o = "edit" /\ own' = Head(queue).doc)
  PROVE  SessionInv'
<1>q. /\ queue \in Seq(Messages) /\ queue # <<>> /\ queue' = Tail(queue) /\ Head(queue).op = o
      /\ Len(queue) \in Nat
  BY DEF Take, SwitchInv, IInv, TypeOK
<1>1. UiInv'
  BY DEF SwitchInv, SessionInv, UiInv, IsSwap, IsFlush, IsNew, IsBind
<1>2. ByInv'
  BY <1>q, PopFacts DEF SwitchInv, SessionInv, ByInv
<1>3. CoverInv'
  <2> SUFFICES ASSUME NEW n \in 1..(Len(queue')+1), SwapAt(n)'
               PROVE  Covered(n)'
    BY DEF CoverInv
  <2>0. n \in Nat /\ 1 <= n /\ n + 1 \in 1..(Len(queue)+1)
    BY <1>q, PopFacts
  <2>1. SwapAt(n + 1)
    <3>1. CASE n \in 1..Len(queue') /\ IsSwap(queue'[n])
      <4>1. n + 1 \in 1..Len(queue) /\ IsSwap(queue[n+1])
        BY <3>1, <1>q, PopFacts
      <4> QED
        BY <4>1 DEF SwapAt
    <3>2. CASE n = Len(queue') + 1 /\ ui # <<>> /\ IsSwap(ui[1])
      <4>1. n + 1 = Len(queue) + 1
        BY <3>2, <1>q, PopFacts
      <4> QED
        BY <4>1, <3>2 DEF SwapAt
    <3> QED
      BY <3>1, <3>2 DEF SwapAt, IsSwap
  <2>2. Covered(n + 1)
    BY <2>0, <2>1 DEF SwitchInv, SessionInv, CoverInv
  <2> QED
    BY <2>0, <2>2, <1>q, PoppedCovered
<1>4. BindInv'
  <2> SUFFICES ASSUME NEW n \in 1..Len(queue'), IsNew(queue'[n])
               PROVE  BindAfter(n)'
    BY DEF BindInv, IsNew
  <2>1. n \in Nat /\ n + 1 \in 1..Len(queue) /\ IsNew(queue[n+1])
    BY <1>q, PopFacts
  <2>2. BindAfter(n + 1)
    BY <2>1 DEF SwitchInv, SessionInv, BindInv
  <2> QED
    BY <2>1, <2>2, <1>q, PoppedBindAfter
<1>5. EditsInv'
  <2>1. own \in Nat /\ made \in Nat
    BY DEF SwitchInv, IInv, TypeOK, Document
  <2>2. /\ own <= made
        /\ \A i \in 1..Len(queue) : queue[i].op = "edit" => own < queue[i].doc /\ queue[i].doc <= made
        /\ \A i, j \in 1..Len(queue) :
             i < j /\ queue[i].op = "edit" /\ queue[j].op = "edit" => queue[i].doc < queue[j].doc
    BY DEF SwitchInv, SessionInv, EditsInv
  <2>3. \A i \in 1..Len(queue) : queue[i].doc \in Nat
    <3>1. \A i \in 1..Len(queue) : queue[i] \in Messages
      BY <1>q
    <3> QED
      BY <3>1 DEF Messages, Document
  <2>4. own' <= made
    BY <2>1, <2>2, <1>q, PopFacts
  <2>5. ASSUME NEW i \in 1..Len(queue'), queue'[i].op = "edit"
        PROVE  own' < queue'[i].doc /\ queue'[i].doc <= made
    <3>1. i + 1 \in 1..Len(queue) /\ queue'[i] = queue[i+1] /\ 1 \in 1..Len(queue) /\ 1 < i + 1
      BY <1>q, PopFacts
    <3>2. own < queue[i+1].doc /\ queue[i+1].doc <= made /\ queue[i+1].doc \in Nat
      BY <3>1, <2>2, <2>3, <2>5
    <3>3. CASE o = "edit" /\ own' = Head(queue).doc
      <4>1. queue[1].op = "edit" /\ own' = queue[1].doc
        BY <3>3, <1>q, PopFacts
      <4>2. queue[1].doc < queue[i+1].doc
        BY <4>1, <3>1, <2>2, <2>5
      <4> QED
        BY <4>1, <4>2, <3>1, <3>2
    <3>4. CASE own' = 0 \/ own' = own
      BY <3>4, <3>1, <3>2, <2>1
    <3> QED
      BY <3>3, <3>4
  <2>6. ASSUME NEW i \in 1..Len(queue'), NEW j \in 1..Len(queue'), i < j,
               queue'[i].op = "edit", queue'[j].op = "edit"
        PROVE  queue'[i].doc < queue'[j].doc
    <3>1. /\ i + 1 \in 1..Len(queue) /\ j + 1 \in 1..Len(queue) /\ i + 1 < j + 1
          /\ queue'[i] = queue[i+1] /\ queue'[j] = queue[j+1]
      BY <2>6, <1>q, PopFacts
    <3> QED
      BY <3>1, <2>2, <2>6
  <2> QED
    BY <2>4, <2>5, <2>6 DEF EditsInv
<1> QED
  BY <1>1, <1>2, <1>3, <1>4, <1>5 DEF SessionInv

(* What the invariant says of a session without a draft, when a message    *)
(* is taken that does not give it one.                                     *)
LEMMA UnboundTaken ==
  ASSUME SwitchInv, NEW o, Take(o), UNCHANGED <<ui, gallery, epoch>>,
         ~IsBind(Head(queue)), bound = NoDraft, ~told
  PROVE  /\ own = 0
         /\ \/ BindAfter(0)'
            \/ gallery' /\ ~epoch' /\ \A i \in 1..Len(queue') : ~IsEdit(queue'[i])
<1>q. queue \in Seq(Messages) /\ queue # <<>> /\ queue' = Tail(queue)
  BY DEF Take, SwitchInv, IInv, TypeOK
<1>1. /\ own = 0
      /\ BindAfter(0) \/ (gallery /\ ~epoch /\ \A i \in 1..Len(queue) : ~IsEdit(queue[i]))
  BY DEF SwitchInv, SessionInv, UnboundInv, Saving, Take
<1>2. CASE BindAfter(0)
  BY <1>1, <1>2, <1>q, PoppedBindAfter
<1>3. CASE gallery /\ ~epoch /\ \A i \in 1..Len(queue) : ~IsEdit(queue[i])
  BY <1>1, <1>3, <1>q, PopFacts
<1> QED
  BY <1>1, <1>2, <1>3

LEMMA BeginsSaving ==
  ASSUME SwitchInv, NEW d \in Draft,
         \/ job' = StartJob(d, "project", doc')
         \/ job' = [StartJob(d, "project", doc') EXCEPT !.last = TRUE]
  PROVE  Saving' /\ Safe' /\ UnboundInv' /\ SavingInv' /\ job'.draft = d
<1>1. job'.step = "stage" /\ job'.name = "project" /\ job'.doc = doc' /\ job'.draft = d
  BY DEF StartJob, NoJob
<1>2. Saving'
  BY <1>1 DEF Saving, At
<1> QED
  BY <1>1, <1>2 DEF Safe, UnboundInv, SavingInv, At

LEMMA IdleSaves ==
  ASSUME SwitchInv, NEW o, Take(o), job' = job
  PROVE  ~Saving /\ ~Saving' /\ SavingInv'
  BY DEF Take, Saving, SavingInv, At

LEMMA SafeTaken ==
  ASSUME SwitchInv, NEW o, Take(o), UNCHANGED <<job, file, deleted, bound, own>>,
         told => told', Safe
  PROVE  Safe'
  BY DEF Safe, Saving, At, Stored

LEMMA TakeSaveStays == ASSUME SwitchInv, TakeSave PROVE SessionInv'
<1> DEFINE d == IF Head(queue).draft # NoDraft THEN Head(queue).draft ELSE bound
<1>1. /\ Take("save")
      /\ UNCHANGED <<file, deleted, made, ui, template, gallery, bound, doc, own, told, epoch>>
      /\ job' = IF d = NoDraft THEN job ELSE StartJob(d, "project", doc)
  BY DEF TakeSave, disk, bounds, history, senders, session, agent
<1>2. own \in Nat /\ own <= doc
  BY DEF SwitchInv, IInv, TypeOK, Document, SessionInv, EditsInv
<1>3. CASE d = NoDraft
  <2>1. bound = NoDraft /\ job' = job /\ ~IsBind(Head(queue))
    BY <1>1, <1>3 DEF IsBind
  <2>2. ~Saving /\ ~Saving' /\ SavingInv'
    BY <1>1, <2>1, IdleSaves
  <2>3. Safe'
    <3>1. told \/ own = 0
      BY <1>1, <2>1, UnboundTaken
    <3> QED
      BY <3>1, <1>1 DEF Safe
  <2>4. UnboundInv'
    <3>1. ~told => /\ own = 0
                   /\ \/ BindAfter(0)'
                      \/ gallery' /\ ~epoch' /\ \A i \in 1..Len(queue') : ~IsEdit(queue'[i])
      BY <1>1, <2>1, UnboundTaken
    <3> QED
      BY <3>1, <1>1 DEF UnboundInv, IsEdit
  <2> QED
    BY <1>1, <1>2, <2>2, <2>3, <2>4, TakeStays
<1>4. CASE d # NoDraft
  <2>1. d \in Draft
    <3>1. Head(queue).draft \in Draft \cup {NoDraft}
      BY <1>1, TakeFacts DEF SwitchInv, Messages
    <3> QED
      BY <1>4, <3>1 DEF SwitchInv, IInv, TypeOK
  <2>2. Safe' /\ UnboundInv' /\ SavingInv'
    BY <1>1, <1>4, <2>1, BeginsSaving
  <2> QED
    BY <1>1, <1>2, <2>2, TakeStays
<1> QED
  BY <1>3, <1>4

LEMMA TakeNewStays == ASSUME SwitchInv, TakeNew PROVE SessionInv'
<1>1. /\ Take("new")
      /\ UNCHANGED <<job, file, deleted, made, ui, template, gallery>>
      /\ own' = 0 /\ doc' = 0 /\ bound' = NoDraft
  BY DEF TakeNew, BecomeSession, Fresh, disk, bounds, history, senders
<1>2. Safe'
  BY <1>1 DEF Safe
<1>3. SavingInv'
  BY <1>1, IdleSaves
<1>4. UnboundInv'
  <2>q. /\ queue \in Seq(Messages) /\ queue # <<>> /\ queue' = Tail(queue)
        /\ Head(queue) = queue[1] /\ 1 \in 1..Len(queue) /\ Head(queue).op = "new"
    BY <1>1, Popped DEF Take, SwitchInv, IInv, TypeOK
  <2>1. IsNew(queue[1])
    BY <2>q DEF IsNew, SwitchInv, SessionInv, ByInv
  <2>2. BindAfter(0 + 1) /\ 0 \in Nat
    BY <2>1, <2>q DEF SwitchInv, SessionInv, BindInv
  <2>3. BindAfter(0)'
    BY <2>2, <2>q, <1>1, PoppedBindAfter
  <2> QED
    BY <2>3, <1>1 DEF UnboundInv
<1> QED
  BY <1>1, <1>2, <1>3, <1>4, TakeStays

LEMMA TakeOpenStays == ASSUME SwitchInv, TakeOpen PROVE SessionInv'
<1>1. /\ Take("open") /\ Head(queue).op = "open"
      /\ UNCHANGED <<job, file, deleted, made, ui, template, gallery>>
  BY DEF TakeOpen, Take, disk, bounds, history, senders
<1>2. SavingInv' /\ ~Saving
  BY <1>1, IdleSaves
<1>3. Head(queue).draft \in Draft /\ ~IsFlush(Head(queue)) /\ ~IsBind(Head(queue))
  BY <1>1, TakeFacts DEF SwitchInv, IsFlush, IsBind
<1>4. own \in Nat /\ own <= doc
  BY DEF SwitchInv, IInv, TypeOK, Document, SessionInv, EditsInv
<1>5. CASE /\ told' = (told \/ Head(queue).by = "ui")
           /\ UNCHANGED <<bound, doc, saved, own, agent>>
  <2>1. UNCHANGED <<bound, doc, own, epoch>> /\ (told => told')
    BY <1>5 DEF agent
  <2>2. Safe => Safe'
    BY <1>1, <2>1, SafeTaken
  <2>3. UnboundInv'
    <3>1. bound = NoDraft /\ ~told =>
            /\ own = 0
            /\ \/ BindAfter(0)'
               \/ gallery' /\ ~epoch' /\ \A i \in 1..Len(queue') : ~IsEdit(queue'[i])
      BY <1>1, <1>3, <2>1, UnboundTaken
    <3> QED
      BY <3>1, <2>1, <1>1 DEF UnboundInv, IsEdit
  <2> QED
    BY <1>1, <1>2, <1>3, <1>4, <2>1, <2>2, <2>3, TakeStays
<1>6. CASE /\ file[Project(Head(queue).draft)] # Nothing
           /\ BecomeSession([Fresh EXCEPT !.bound = Head(queue).draft,
                                          !.doc = file[Project(Head(queue).draft)],
                                          !.saved = file[Project(Head(queue).draft)]])
           /\ Announce(Head(queue).draft)
  <2>1. own' = 0 /\ bound' = Head(queue).draft /\ doc' = file[Project(Head(queue).draft)]
    BY <1>6 DEF BecomeSession, Fresh
  <2>2. doc' \in Nat
    <3>1. Project(Head(queue).draft) \in Place
      BY <1>3 DEF Project, Place, Name
    <3> QED
      BY <3>1, <2>1, <1>6 DEF SwitchInv, IInv, TypeOK, Document
  <2>3. Safe' /\ UnboundInv'
    BY <2>1, <1>3, DraftAssumption DEF Safe, UnboundInv
  <2> QED
    BY <1>1, <1>2, <2>1, <2>2, <2>3, TakeStays
<1> QED
  BY <1>5, <1>6 DEF TakeOpen

LEMMA TakeTemplateStays == ASSUME SwitchInv, TakeTemplate PROVE SessionInv'
<1>1. /\ Take("template") /\ Head(queue).op = "template"
      /\ UNCHANGED <<file, deleted, made, ui, template, gallery>>
  BY DEF TakeTemplate, Take, bounds, senders
<1>2. own \in Nat /\ own <= doc
  BY DEF SwitchInv, IInv, TypeOK, Document, SessionInv, EditsInv
<1>3. CASE told' = TRUE /\ UNCHANGED <<job, own, doc>>
  <2>1. Safe' /\ UnboundInv'
    BY <1>3 DEF Safe, UnboundInv
  <2>2. SavingInv'
    BY <1>1, <1>3, IdleSaves
  <2> QED
    BY <1>1, <1>2, <1>3, <2>1, <2>2, TakeStays
<1>4. CASE BecomeSession([Fresh EXCEPT !.told = TRUE]) /\ UNCHANGED job
  <2>1. told' = TRUE /\ own' = 0 /\ doc' = 0
    BY <1>4 DEF BecomeSession, Fresh
  <2>2. Safe' /\ UnboundInv'
    BY <2>1 DEF Safe, UnboundInv
  <2>3. SavingInv'
    BY <1>1, <1>4, IdleSaves
  <2> QED
    BY <1>1, <2>1, <2>2, <2>3, TakeStays
<1>5. CASE \E d \in Unused :
             BecomeSession(Fresh) /\ job' = [StartJob(d, "project", 0) EXCEPT !.last = TRUE]
  <2>1. PICK d \in Draft :
          BecomeSession(Fresh) /\ job' = [StartJob(d, "project", 0) EXCEPT !.last = TRUE]
    BY <1>5 DEF Unused
  <2>2. own' = 0 /\ doc' = 0
    BY <2>1 DEF BecomeSession, Fresh
  <2>3. Safe' /\ UnboundInv' /\ SavingInv'
    BY <2>1, <2>2, BeginsSaving
  <2> QED
    BY <1>1, <2>2, <2>3, TakeStays
<1> QED
  BY <1>3, <1>4, <1>5 DEF TakeTemplate

LEMMA TakeEditStays == ASSUME SwitchInv, TakeEdit PROVE SessionInv'
<1>1. /\ Take("edit")
      /\ UNCHANGED <<job, file, deleted, made, ui, template, gallery, bound, told, epoch>>
      /\ doc' = Head(queue).doc
      /\ own' = IF Head(queue).by = "ui" THEN Head(queue).doc ELSE own
  BY DEF TakeEdit, disk, bounds, history, senders, agent
<1>q. /\ queue \in Seq(Messages) /\ queue # <<>> /\ queue' = Tail(queue)
      /\ Head(queue) = queue[1] /\ 1 \in 1..Len(queue) /\ queue[1].op = "edit"
      /\ Head(queue) \in Messages
  BY <1>1, Popped DEF Take, SwitchInv, IInv, TypeOK
<1>2. SavingInv' /\ ~Saving /\ ~Saving'
  BY <1>1, IdleSaves
<1>3. ~IsFlush(Head(queue)) /\ ~IsBind(Head(queue))
  BY <1>q DEF IsFlush, IsBind
<1>4. own \in Nat /\ own < queue[1].doc /\ queue[1].doc \in Nat
  <2>1. queue[1].doc \in Nat
    BY <1>q DEF Messages, Document
  <2> QED
    BY <2>1, <1>q DEF SwitchInv, IInv, TypeOK, Document, SessionInv, EditsInv
<1>5. Safe /\ Head(queue).by # "ui" => Safe'
  BY <1>1, SafeTaken
<1>6. UnboundInv'
  <2> SUFFICES ASSUME bound = NoDraft, ~told
               PROVE  /\ own' = 0
                      /\ \/ BindAfter(0)'
                         \/ gallery' /\ ~epoch' /\ \A i \in 1..Len(queue') : ~IsEdit(queue'[i])
    BY <1>1 DEF UnboundInv, IsEdit
  <2>1. /\ own = 0
        /\ \/ BindAfter(0)'
           \/ gallery' /\ ~epoch' /\ \A i \in 1..Len(queue') : ~IsEdit(queue'[i])
    BY <1>1, <1>3, UnboundTaken
  <2>2. queue[1].by # "ui"
    <3> SUFFICES ASSUME queue[1].by = "ui" PROVE FALSE
      OBVIOUS
    <3>1. BindAfter(0) \/ \A i \in 1..Len(queue) : ~IsEdit(queue[i])
      BY <1>2 DEF SwitchInv, SessionInv, UnboundInv
    <3>2. IsEdit(queue[1])
      BY <1>q DEF IsEdit
    <3>3. BindAfter(0)
      BY <3>1, <3>2, <1>q
    <3>4. ~Silent(0)
      BY <1>q DEF Silent
    <3>5. PICK j \in 1..Len(queue) : IsBind(queue[j]) /\ Quiet(0, j)
      BY <3>3, <3>4 DEF BindAfter
    <3>6. j = 1
      BY <3>5, <1>q DEF Quiet
    <3> QED
      BY <3>5, <3>6, <1>3, <1>q
  <2> QED
    BY <2>1, <2>2, <1>1, <1>q
<1> QED
  BY <1>1, <1>2, <1>3, <1>4, <1>5, <1>6, <1>q, TakeStays

-----------------------------------------------------------------------------
(* The worker saves *)

(* A step of a save, while queue, document and the user's edits stay.      *)
LEMMA SavingStays ==
  ASSUME SwitchInv, UNCHANGED <<queue, ui, template, made, doc, own>>,
         Safe => Safe', UnboundInv', SavingInv'
  PROVE  SessionInv'
<1>1. UiInv' /\ ByInv'
  BY DEF SwitchInv, SessionInv, UiInv, ByInv, IsSwap, IsFlush, IsNew, IsBind
<1>2. CoverInv'
  <2> SUFFICES ASSUME NEW n \in 1..(Len(queue)+1), SwapAt(n)'
               PROVE  Covered(n)'
    BY DEF CoverInv
  <2>1. SwapAt(n)
    BY DEF SwapAt, IsSwap
  <2>2. Covered(n)
    BY <2>1 DEF SwitchInv, SessionInv, CoverInv
  <2> QED
    BY <2>2 DEF Covered, Quiet
<1>3. BindInv'
  BY DEF SwitchInv, SessionInv, BindInv, IsNew, BindAfter, Quiet, Silent, IsBind
<1>4. EditsInv'
  BY DEF SwitchInv, SessionInv, EditsInv
<1> QED
  BY <1>1, <1>2, <1>3, <1>4 DEF SessionInv

LEMMA AutoSaveStays == ASSUME SwitchInv, AutoSave PROVE SessionInv'
<1>1. /\ UNCHANGED <<queue, ui, template, made, doc, own, bound>>
      /\ bound # NoDraft /\ job' = StartJob(bound, "project", doc)
  BY DEF AutoSave, bounds, senders, session
<1>2. bound \in Draft
  BY <1>1 DEF SwitchInv, IInv, TypeOK
<1> QED
  BY <1>1, <1>2, BeginsSaving, SavingStays

LEMMA ReplacingStays == ASSUME SwitchInv, Replacing PROVE SessionInv'
<1>e. Effect /\ ~At("idle")
  BY ReplaceEffect DEF SwitchInv, Replacing, At, Replace, Stage, Install, MoveAside, Swap, Restore
<1>u. UNCHANGED <<deleted, ui, template, gallery, made, queue, bound, doc, own, told, epoch>>
  BY DEF Replacing, bounds, history, senders, session, agent
<1>j. job \in Jobs /\ job' \in Jobs
  BY <1>e DEF SwitchInv, IInv, TypeOK, Effect
<1>1. Saving' = Saving /\ ~At("idle")'
  BY <1>e DEF Saving, At, Effect
<1>2. ~Saving => \A d \in Draft : file'[Project(d)] = file[Project(d)]
  <2> SUFFICES ASSUME ~Saving, NEW d \in Draft
               PROVE  file'[Project(d)] = file[Project(d)]
    OBVIOUS
  <2>1. job.name # "project"
    BY <1>e DEF Saving
  <2>2. Project(d) \in Place \ {Destination}
    BY <2>1 DEF Project, Place, Name, Destination
  <2> QED
    BY <2>2, <1>e DEF Effect
<1>3. Safe => Safe'
  <2>1. CASE Saving
    BY <2>1, <1>1 DEF Safe
  <2>2. CASE ~Saving
    BY <2>2, <1>1, <1>2, <1>u DEF Safe, Stored
  <2> QED
    BY <2>1, <2>2
<1>4. UnboundInv'
  BY <1>1, <1>u DEF SwitchInv, SessionInv, UnboundInv, BindAfter, Quiet, Silent, IsBind, IsEdit
<1>5. SavingInv'
  <2>1. Saving => job'.doc = doc
    BY <1>e DEF SwitchInv, SessionInv, SavingInv, Effect
  <2>2. Saving /\ At("done")' => file'[Project(job'.draft)] = job'.doc
    <3>1. Saving => Project(job'.draft) = Destination
      BY <1>e DEF Effect, Saving, Project, Destination
    <3> QED
      BY <3>1, <1>e DEF Effect, At
  <2>3. ~Saving => bound # NoDraft
    BY <1>e DEF SwitchInv, SessionInv, SavingInv
  <2> QED
    BY <2>1, <2>2, <2>3, <1>1, <1>u DEF SavingInv, Project
<1> QED
  BY <1>3, <1>4, <1>5, <1>u, SavingStays

LEMMA SavedStays == ASSUME SwitchInv, Saved PROVE SessionInv'
<1>1. /\ UNCHANGED <<file, deleted, queue, ui, template, made, doc, own>>
      /\ At("done") /\ job.name = "project" /\ bound' = job.draft
      /\ job' = [StartJob(job.draft, "meta", job.doc) EXCEPT !.last = job.last]
  BY DEF Saved, disk, bounds, history, senders
<1>2. Saving /\ job.draft \in Draft
  BY <1>1 DEF Saving, At, SwitchInv, IInv, JobInv
<1>3. /\ job.doc = doc
      /\ file[Project(job.draft)] = job.doc \/ job.draft \in deleted
  BY <1>1, <1>2 DEF SwitchInv, SessionInv, SavingInv
<1>4. ~Saving' /\ bound' # NoDraft
  BY <1>1, <1>2, DraftAssumption DEF Saving, StartJob, NoJob
<1>5. Safe'
  <2>1. own <= doc /\ doc \in Document
    BY DEF SwitchInv, IInv, TypeOK, SessionInv, EditsInv
  <2>2. CASE job.draft \in deleted
    BY <2>2, <1>1 DEF Safe
  <2>3. CASE file[Project(job.draft)] = doc
    <3>1. Stored(own, bound)'
      BY <2>1, <2>3, <1>1, <1>2, DraftAssumption DEF Stored, Project
    <3> QED
      BY <3>1 DEF Safe
  <2> QED
    BY <1>3, <2>2, <2>3
<1>6. UnboundInv' /\ SavingInv'
  BY <1>4 DEF UnboundInv, SavingInv
<1> QED
  BY <1>1, <1>5, <1>6, SavingStays

LEMMA EndingStays == ASSUME SwitchInv, SaveFailed \/ Named PROVE SessionInv'
<1>1. /\ UNCHANGED <<file, deleted, queue, ui, template, made, bound, doc, own>>
      /\ job' = NoJob
      /\ told' = TRUE \/ (told' = told /\ ~At("idle") /\ job.name = "meta")
  BY DEF SaveFailed, Named, EndJob, At, disk, bounds, history, senders, session
<1>2. ~Saving' /\ At("idle")'
  BY <1>1 DEF Saving, At, NoJob
<1>3. SavingInv'
  BY <1>2 DEF SavingInv, Saving
<1>4. CASE told' = TRUE
  <2>1. Safe' /\ UnboundInv'
    BY <1>4 DEF Safe, UnboundInv
  <2> QED
    BY <2>1, <1>1, <1>3, SavingStays
<1>5. CASE told' = told /\ ~At("idle") /\ job.name = "meta"
  <2>1. ~Saving
    BY <1>5 DEF Saving
  <2>2. bound # NoDraft
    BY <2>1, <1>5 DEF SwitchInv, SessionInv, SavingInv
  <2>3. Safe => Safe'
    BY <2>1, <1>1, <1>5 DEF Safe, Stored
  <2>4. UnboundInv'
    BY <2>2, <1>1 DEF UnboundInv
  <2> QED
    BY <2>3, <2>4, <1>1, <1>3, SavingStays
<1> QED
  BY <1>1, <1>4, <1>5

LEMMA ProcessEndsStays == ASSUME SwitchInv, ProcessEnds PROVE SessionInv'
<1>1. /\ made' = made /\ job' = NoJob /\ gallery' = TRUE /\ epoch' = FALSE
      /\ ui' = <<>> /\ template' = <<>> /\ queue' = <<>>
      /\ bound' = NoDraft /\ doc' = 0 /\ own' = 0 /\ told' = FALSE
  BY DEF ProcessEnds, BecomeSession, Fresh
<1>2. Len(queue') = 0 /\ Len(ui') = 0 /\ Len(template') = 0
  BY <1>1
<1>m. made' \in Nat
  BY <1>1 DEF SwitchInv, IInv, TypeOK
<1>3. UiInv' /\ ByInv' /\ BindInv' /\ EditsInv'
  BY <1>1, <1>2, <1>m DEF UiInv, ByInv, BindInv, EditsInv
<1>4. CoverInv'
  BY <1>1, <1>2 DEF CoverInv, SwapAt
<1>5. UnboundInv' /\ SavingInv'
  BY <1>1, <1>2 DEF UnboundInv, SavingInv, Saving, At, NoJob
<1> QED
  BY <1>3, <1>4, <1>5 DEF SessionInv

-----------------------------------------------------------------------------
(* The theorem *)

LEMMA SwitchStepKeeps == SwitchInv /\ [Next]_vars => SwitchInv'
<1> SUFFICES ASSUME SwitchInv, [Next]_vars PROVE SwitchInv'
  OBVIOUS
<1>0. IInv'
  BY StepKeeps DEF SwitchInv
<1>1. CASE New \/ Open \/ Import \/ PublishImport \/ Close \/ SaveNow \/ SendNext
  BY <1>0, <1>1, NewStays, OpenStays, ImportStays, PublishImportStays, FlushOnlyStays, SendNextStays
     DEF SwitchInv
<1>2. CASE Edit \/ AgentEdit \/ UseTemplate \/ SendTemplate \/ AgentOpen
  BY <1>0, <1>2, EditingStays, UseTemplateStays, SendTemplateStays, AgentOpenStays DEF SwitchInv
<1>3. CASE SeeSession \/ PersistChat \/ UNCHANGED vars \/ \E d \in Draft : Delete(d)
  BY <1>0, <1>3, ChattingStays, DeleteStays DEF SwitchInv
<1>4. CASE Worker
  BY <1>0, <1>4, TakeSaveStays, AutoSaveStays, ReplacingStays, SavedStays, EndingStays,
     TakeNewStays, TakeOpenStays, TakeTemplateStays, TakeEditStays DEF Worker, SwitchInv
<1>5. CASE ProcessEnds
  BY <1>0, <1>5, ProcessEndsStays DEF SwitchInv
<1> QED
  BY <1>1, <1>2, <1>3, <1>4, <1>5 DEF Next

(* When the user's own New, Open or Import replaces the session, the       *)
(* user's edits of that session are in the file of the draft left behind,  *)
(* or an error was shown, or the user deleted that draft (session.rs): a   *)
(* flush of its own precedes every change, whatever comes between.         *)
THEOREM SwitchLosesNothingHolds == Spec => SwitchLosesNothing
<1> DEFINE Kept ==
      (TakeNew \/ TakeOpen) /\ Head(queue).by = "ui" /\ own # own' =>
        Stored(own, bound) \/ told \/ bound \in deleted
<1>1. ASSUME SwitchInv, TakeNew \/ TakeOpen, Head(queue).by = "ui", own # own'
      PROVE  Stored(own, bound) \/ told \/ bound \in deleted
  <2>1. /\ own' = 0 \/ own' = own
        /\ queue # <<>> /\ Head(queue).op \in {"new", "open"} /\ ~Saving
    BY <1>1 DEF TakeNew, TakeOpen, Take, BecomeSession, Fresh, Saving
  <2>2. Head(queue) = queue[1] /\ 1 \in 1..Len(queue) /\ Len(queue) \in Nat
    BY <1>1, <2>1, Popped DEF SwitchInv, IInv, TypeOK
  <2>3. SwapAt(1) /\ 1 \in 1..(Len(queue)+1)
    BY <1>1, <2>1, <2>2 DEF SwapAt, IsSwap
  <2>4. Covered(1)
    BY <1>1, <2>3 DEF SwitchInv, SessionInv, CoverInv
  <2>5. Safe
    BY <2>2, <2>4 DEF Covered
  <2> QED
    BY <1>1, <2>1, <2>5 DEF Safe
<1>2. SwitchInv /\ [Next]_vars => [Kept]_vars
  BY <1>1
<1>3. SwitchInv /\ [Next]_vars => SwitchInv'
  BY SwitchStepKeeps
<1> QED
  BY SwitchInitHolds, <1>2, <1>3, PTL DEF Spec, SwitchLosesNothing
=============================================================================
