----------------------------- MODULE KUndo2QStack -----------------------------
(* The undo stack of libs/kundo2 as a value: its methods are operators from   *)
(* a stack to a stack. What the commands do when they are done, undone or     *)
(* deleted, and in which order, is said by the caller (KisUndo); here they    *)
(* are members of a sequence. Merging needs commands with an id; no command   *)
(* of Krita has one.                                                          *)
EXTENDS Integers, Sequences

CONSTANT UndoLimit  \* m_undo_limit; 0 is no limit

ASSUME StackAssumption == UndoLimit \in Nat

\* m_macro: m_macro_stack is not empty; the macro is then the last command of
\* the list, and m_index does not count it yet. `heard`: what the listeners of
\* cleanChanged() were told last.
StacksOf(commands) ==
    [m_command_list : Seq(commands), m_index : Nat, m_clean_index : Nat \cup {-1},
     m_macro : BOOLEAN, heard : BOOLEAN]

EmptyStack ==
    [m_command_list |-> <<>>, m_index |-> 0, m_clean_index |-> 0, m_macro |-> FALSE,
     heard |-> TRUE]

count(s) == Len(s.m_command_list)
isClean(s) == ~s.m_macro /\ s.m_clean_index = s.m_index
canUndo(s) == ~s.m_macro /\ s.m_index > 0
canRedo(s) == ~s.m_macro /\ s.m_index < count(s)

\* A bug: nothing is told where the index stays.
MutantIndexSet(s, idx, clean) ==
    LET cleanIndex == IF clean THEN idx ELSE s.m_clean_index
    IN  [s EXCEPT !.m_index = idx, !.m_clean_index = cleanIndex,
                  !.heard = IF idx = s.m_index THEN @ ELSE idx = cleanIndex]

\* setIndex(int, bool), which tells of a change of cleanness by the indices alone.
indexSet(s, idx, clean) ==
    LET cleanIndex == IF clean THEN idx ELSE s.m_clean_index
        was == s.m_index = s.m_clean_index
        is == idx = cleanIndex
    IN  [s EXCEPT !.m_index = idx, !.m_clean_index = cleanIndex,
                  !.heard = IF is # was THEN is ELSE @]

\* A bug: the clean index is left where it was.
MutantWithoutRedo(s) == [s EXCEPT !.m_command_list = SubSeq(@, 1, s.m_index)]

\* What can be redone is deleted, and with it perhaps the clean state.
redoTail(s) == SubSeq(s.m_command_list, s.m_index + 1, count(s))
withoutRedo(s) ==
    [s EXCEPT !.m_command_list = SubSeq(@, 1, s.m_index),
              !.m_clean_index = IF @ > s.m_index THEN -1 ELSE @]

\* checkUndoLimit(): the oldest commands above the limit are deleted.
excess(s) ==
    IF UndoLimit = 0 \/ s.m_macro \/ UndoLimit >= count(s) THEN 0 ELSE count(s) - UndoLimit

\* A bug: the clean index is not shifted.
MutantWithinLimit(s) ==
    [s EXCEPT !.m_command_list = SubSeq(@, excess(s) + 1, Len(@)),
              !.m_index = @ - excess(s)]

withinLimit(s) ==
    [s EXCEPT !.m_command_list = SubSeq(@, excess(s) + 1, Len(@)),
              !.m_index = @ - excess(s),
              !.m_clean_index = IF @ < excess(s) THEN -1 ELSE @ - excess(s)]

\* push() of a command that was not merged, outside a macro, once what can be
\* redone is deleted.
appended(s, command) == [s EXCEPT !.m_command_list = Append(@, command)]
counted(s) == LET limited == withinLimit(s) IN indexSet(limited, limited.m_index + 1, FALSE)

macroBegun(s, command) == [appended(withoutRedo(s), command) EXCEPT !.m_macro = TRUE]
macroEnded(s) == counted([s EXCEPT !.m_macro = FALSE])

setClean(s) == IF s.m_macro THEN s ELSE indexSet(s, s.m_index, TRUE)
=============================================================================
