------------------------------ MODULE MCDrafts ------------------------------
(* Bounds for TLC.  Drafts are interchangeable: every property checked is  *)
(* a safety property.                                                      *)
EXTENDS Drafts, TLC

Interchangeable == Permutations(Draft)

(* Saves that fail half-way, deletions, chats and the end of the process.  *)
Failures ==
  [kinds |-> {"new", "open", "close", "edit", "delete", "chat"},
   edits |-> 2, requests |-> 2, ends |-> 1]

(* Three changes of the session, by the UI and the template thread.        *)
Switches ==
  [kinds |-> {"new", "open", "edit", "template"},
   edits |-> 1, requests |-> 3, ends |-> 0]

(* Imports, saves the user asks for, and drafts the agent opens.           *)
Imports ==
  [kinds |-> {"import", "open", "save", "delete", "edit", "agent edit", "agent open",
              "chat"},
   edits |-> 1, requests |-> 3, ends |-> 1]

DraftHabits == {Failures, Switches, Imports}
=============================================================================
