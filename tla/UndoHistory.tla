---------------------------- MODULE UndoHistory -----------------------------
(***************************************************************************)
(* What undo and redo promise, told with whole documents instead of        *)
(* inverse actions: undo brings back the document before the last entry,   *)
(* redo the one after it, a group is one entry, an aborted group never     *)
(* happened, and only opening another project forgets the past.            *)
(***************************************************************************)
EXTENDS Sequences, Naturals

CONSTANT Limit   \* entries kept

VARIABLES
  doc,      \* the document shown
  base,     \* the document the open group started from; doc when none is
  past,     \* what undo goes back through, newest last
  future,   \* what redo goes forward through, next last
  made,     \* how many entries edits have made, undone or not
  session   \* how many projects were opened before this one

history == <<doc, base, past, future, made, session>>

Init ==
  /\ base = doc
  /\ past = << >>
  /\ future = << >>
  /\ made = 0
  /\ session = 0

Pushed(s, e) == Append(IF Len(s) < Limit THEN s ELSE Tail(s), e)

Front(s) == SubSeq(s, 1, Len(s) - 1)

Last(s) == s[Len(s)]

(***************************************************************************)
(* An edit of its own is an entry; doc' is what the edit makes it.         *)
(***************************************************************************)
Edit ==
  /\ base = doc
  /\ base' = doc'
  /\ past' = Pushed(past, doc)
  /\ future' = << >>
  /\ made' = made + 1
  /\ UNCHANGED session

(***************************************************************************)
(* An edit inside a group.  Ending the group without an entry must bring   *)
(* doc back to base, since base is doc again from then on.                 *)
(***************************************************************************)
GroupedEdit == UNCHANGED <<base, past, future, made, session>>

Commit ==
  /\ base' = doc
  /\ past' = Pushed(past, base)
  /\ future' = << >>
  /\ made' = made + 1
  /\ UNCHANGED <<doc, session>>

Undo ==
  /\ base = doc
  /\ past # << >>
  /\ doc' = Last(past)
  /\ base' = doc'
  /\ past' = Front(past)
  /\ future' = Pushed(future, doc)
  /\ UNCHANGED <<made, session>>

Redo ==
  /\ base = doc
  /\ future # << >>
  /\ doc' = Last(future)
  /\ base' = doc'
  /\ future' = Front(future)
  /\ past' = Pushed(past, doc)
  /\ UNCHANGED <<made, session>>

OpenAnother ==
  /\ base' = doc'
  /\ past' = << >>
  /\ future' = << >>
  /\ session' = session + 1
  /\ UNCHANGED made

Next == Edit \/ GroupedEdit \/ Commit \/ Undo \/ Redo \/ OpenAnother

Spec == Init /\ [][Next]_history
=============================================================================
