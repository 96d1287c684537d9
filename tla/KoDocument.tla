------------------------------ MODULE KoDocument ------------------------------
(* What a document of the suite remembers about being changed                 *)
(* (libs/main/KoDocument.cpp): the modified flag, which closing and the title *)
(* go by, and what decides about the next autosave. Operators from a document *)
(* to a document.                                                             *)
EXTENDS KUndo2QStack

Documents == [modified : BOOLEAN, modifiedAfterAutosave : BOOLEAN, autoSaveTimer : BOOLEAN]

\* The timer runs from the constructor on.
NewDocument == [modified |-> FALSE, modifiedAfterAutosave |-> FALSE, autoSaveTimer |-> TRUE]

\* A bug: the timer is started with the first change of all.
MutantSetModified(document, mod) ==
    [document EXCEPT
        !.modified = mod,
        !.modifiedAfterAutosave = mod,
        !.autoSaveTimer = @ \/ (mod /\ ~document.modified)]

\* The first change since the last autosave starts the timer.
setModified(document, mod) ==
    [document EXCEPT
        !.modified = mod,
        !.modifiedAfterAutosave = mod,
        !.autoSaveTimer = @ \/ (mod /\ ~document.modifiedAfterAutosave)]

\* The index comes with the signal, the clean index is the present one.
slotUndoStackIndexChanged(document, stack, idx) ==
    setModified(document, idx # stack.m_clean_index)

\* slotAutoSave(), when the file was written: setModified() is ignored
\* meanwhile, and the timer stops until the next change.
autoSaveDue(document) ==
    document.autoSaveTimer /\ document.modified /\ document.modifiedAfterAutosave
autoSaved(document) ==
    [document EXCEPT !.modifiedAfterAutosave = FALSE, !.autoSaveTimer = FALSE]

\* setAutoSave(): the timer starts anew, after a save and after one that failed.
setAutoSave(document) == [document EXCEPT !.autoSaveTimer = TRUE]
=============================================================================
