---------------------------- MODULE CommandHistory ----------------------------
(***************************************************************************)
(* The undo and redo stacks of the runtime (struct CommandHistory of       *)
(* src/src/app/command.rs), as operators on a record [undo, redo] whose    *)
(* stacks are sequences with their top at the end.                         *)
(*                                                                         *)
(* An entry's label is the operation label; here it is the identifier of   *)
(* the command that was recorded, which tells two entries apart.           *)
(***************************************************************************)
EXTENDS Naturals, Sequences

CONSTANT HistoryCapacity    \* how many entries the undo stack keeps

ASSUME HistoryAssumption == HistoryCapacity \in Nat

EmptyHistory == [undo |-> <<>>, redo |-> <<>>]

Entry(label, command, inverse) ==
  [label |-> label, command |-> command, inverse |-> inverse]

Top(s) == s[Len(s)]
Pop(s) == SubSeq(s, 1, Len(s) - 1)

CanUndo(h) == h.undo # <<>>
CanRedo(h) == h.redo # <<>>

NextUndo(h) == Top(h.undo).inverse
NextRedo(h) == Top(h.redo).command

\* The newest entries of a stack, at most HistoryCapacity of them.
Newest(s) ==
  IF Len(s) > HistoryCapacity
    THEN SubSeq(s, Len(s) - HistoryCapacity + 1, Len(s))
    ELSE s

\* Mutant: what could be redone before a new edit still can be after it.
RecordSuccessMutant(h, e) ==
  IF HistoryCapacity = 0
    THEN h
    ELSE [h EXCEPT !.undo = Newest(Append(@, e))]

RecordSuccess(h, e) ==
  IF HistoryCapacity = 0
    THEN h
    ELSE [undo |-> Newest(Append(h.undo, e)), redo |-> <<>>]

\* undo() and redo() move the top entry to the other stack, unless there is none.
Undone(h) ==
  IF CanUndo(h)
    THEN [undo |-> Pop(h.undo), redo |-> Append(h.redo, Top(h.undo))]
    ELSE h

\* Mutant: a redone entry is not put back on the undo stack.
RedoneMutant(h) == IF CanRedo(h) THEN [h EXCEPT !.redo = Pop(@)] ELSE h

Redone(h) ==
  IF CanRedo(h)
    THEN [undo |-> Append(h.undo, Top(h.redo)), redo |-> Pop(h.redo)]
    ELSE h

ReplaceNextRedo(h, c) ==
  IF CanRedo(h) THEN [h EXCEPT !.redo[Len(h.redo)].command = c] ELSE h

ReplaceNextUndo(h, c) ==
  IF CanUndo(h) THEN [h EXCEPT !.undo[Len(h.undo)].inverse = c] ELSE h
=============================================================================
