------------------------------- MODULE KisUndo --------------------------------
(* Undo in Krita: strokes that paint under a transaction, the commands they    *)
(* leave on the undo stack, the histories of the paint devices that carry the *)
(* commands out, and the document that is saved meanwhile.                    *)
(*                                                                            *)
(* Two actors: the GUI thread, which starts, ends and cancels strokes, undoes *)
(* and redoes under tryBarrierLock(), commits legacy commands under           *)
(* barrierLock() and saves; and a worker, which executes the strokes one after *)
(* the other and pushes their commands. The worker's indexChanged() reaches    *)
(* the document through the event queue of the GUI thread.                    *)
EXTENDS KisMementoManager, KoDocument

CONSTANTS
    Devices,
    MaxTransactions,  \* a bound on the transactions of a behaviour
    MaxChanges,       \* a bound on what one stroke changes
    Liberties         \* what may happen though the code is not made for it

AllLiberties == {"revertAfterUndo", "exportModified", "editWhileUploading",
                 "uploadFails", "jumpMixed"}

ASSUME UndoAssumption ==
    /\ MaxTransactions \in Nat /\ MaxChanges \in Nat
    /\ Liberties \subseteq AllLiberties

NoTransaction == [device |-> "none"]
NoImage == <<>>

VARIABLES
    devices,     \* the data manager of each device
    stack,       \* KisDoc2::UndoStack
    strokes,     \* the strokes queue, and the jobs of commands in it
    transaction, \* of the painting stroke that is executed
    gui,         \* "idle", "handling" an event, or composing a "macro"
    events,      \* posted indexChanged() signals
    document,
    mementos,    \* how many were taken
    images,      \* history: what the image was at each index of the stack
    onDisk, autosaved, uploading  \* images: in the file, the autosave file, on the way

vars == <<devices, stack, strokes, transaction, gui, events, document, mementos,
          images, onDisk, autosaved, uploading>>
files == <<onDisk, autosaved, uploading>>

\* KisTransactionData, with what its memento keeps.
Transactions ==
    [device : Devices, memento : 1 .. MaxTransactions, oldDefaultPixel : DefaultPixels,
     newDefaultPixel : DefaultPixels]

\* KisSavedCommand (of one transaction, carried out by a stroke), a transaction
\* added by the legacy adapter, or a macro of those (carried out by the caller).
Commands == [saved : BOOLEAN, parts : Seq(Transactions)]

image == [d \in Devices |-> [tiles |-> devices[d].m_hashTable,
                             defaultPixel |-> devices[d].m_defaultPixel]]
Images == [Devices -> [tiles : Contents, defaultPixel : DefaultPixels]]

Paint(d) == [kind |-> "paint", device |-> d, state |-> "open"]
Job(kind, t) == [kind |-> kind, transaction |-> t]
paints(s) == s.kind = "paint"
painting(queue) == {i \in DOMAIN queue : paints(queue[i])}

TypeOK ==
    /\ devices \in [Devices -> Managers]
    /\ stack \in StacksOf(Commands)
    /\ stack.m_index \in 0 .. count(stack)
    /\ stack.m_clean_index <= count(stack)
    /\ \A i \in 1 .. Len(strokes) :
           strokes[i] \in
               [kind : {"paint"}, device : Devices, state : {"open", "ended", "cancelled"}]
               \cup [kind : {"undo", "redo"}, transaction : Transactions]
    /\ transaction \in Transactions \cup {NoTransaction}
    /\ gui \in {"idle", "handling", "macro"}
    /\ events \in Seq(Nat)
    /\ document \in Documents
    /\ mementos \in 0 .. MaxTransactions
    /\ images \in Seq(Images)
    /\ onDisk \in Images
    /\ autosaved \in Images \cup {NoImage}
    /\ uploading \in Images \cup {NoImage}

\* A device as loading left it: its tiles are in an anonymous revision to come.
Loaded(contents, pixel) ==
    [m_hashTable |-> contents, m_defaultPixel |-> pixel,
     m_index |-> {p \in Positions : contents[p] # NoTile},
     m_headsHashTable |-> [p \in Positions |-> NoTile],
     m_revisions |-> <<>>, m_cancelledRevisions |-> <<>>,
     m_currentMemento |-> NoMemento]

Init ==
    \E contents \in [Positions -> Pixels], pixel \in DefaultPixels :
        /\ devices = [d \in Devices |-> Loaded(contents, pixel)]
        /\ stack = EmptyStack
        /\ strokes = <<>>
        /\ transaction = NoTransaction
        /\ gui = "idle"
        /\ events = <<>>
        /\ document = NewDocument
        /\ mementos = 0
        /\ images = <<image>>
        /\ onDisk = image
        /\ autosaved = NoImage
        /\ uploading = NoImage

-----------------------------------------------------------------------------
(* KisTransactionData and KisTiledDataManager.                                *)

opened(d, memento) ==
    [device |-> d, memento |-> memento, oldDefaultPixel |-> devices[d].m_defaultPixel,
     newDefaultPixel |-> devices[d].m_defaultPixel]

\* endTransaction(): the memento keeps the default pixel of this moment.
ended(t, manager) == [t EXCEPT !.newDefaultPixel = manager.m_defaultPixel]

undone(managers, t) ==
    [managers EXCEPT ![t.device] = setDefaultPixel(rollback(@), t.oldDefaultPixel)]
redone(managers, t) ==
    [managers EXCEPT ![t.device] = setDefaultPixel(rollforward(@), t.newDefaultPixel)]

\* The destructor.
purged(managers, t) == [managers EXCEPT ![t.device] = purgeHistory(@, t.memento)]

carriedOut(kind, managers, t) ==
    IF kind = "undo" THEN undone(managers, t)
    ELSE IF kind = "redo" THEN redone(managers, t)
    ELSE purged(managers, t)

\* The devices after each of the transactions.
carrying(kind, managers, transactions) ==
    LET after[n \in 0 .. Len(transactions)] ==
            IF n = 0 THEN managers ELSE carriedOut(kind, after[n - 1], transactions[n])
    IN  after

transactionsIn(commands) == UNION {ToSet(commands[i].parts) : i \in DOMAIN commands}

\* What a stroke or a legacy command does to a tile or the default pixel.
Changes(m) ==
    (UNION {{writeTile(m, p, x) : x \in (Pixels \cup {NoTile}) \ {m.m_hashTable[p]}} :
              p \in Positions})
        \cup {setDefaultPixel(m, x) : x \in DefaultPixels}

changesIn(t, m) ==
    Cardinality(m.m_index) + IF m.m_defaultPixel = t.oldDefaultPixel THEN 0 ELSE 1

-----------------------------------------------------------------------------
(* KisDoc2::UndoStack: commands done, undone and deleted.                     *)

\* Saved commands put a stroke in the queue, others act at once; being deleted,
\* all of them do.
executed(kind, done, command) ==
    IF command.saved /\ kind # "delete"
    THEN [done EXCEPT !.strokes = @ \o [i \in DOMAIN command.parts |->
                                            Job(kind, command.parts[i])]]
    ELSE LET order == IF kind = "undo" THEN Reverse(command.parts) ELSE command.parts
         IN  [done EXCEPT !.devices = carrying(kind, @, order)[Len(order)]]

\* The devices and the strokes after each of the commands.
executing(kind, done, commands) ==
    LET after[n \in 0 .. Len(commands)] ==
            IF n = 0 THEN done ELSE executed(kind, after[n - 1], commands[n])
    IN  after

\* The devices after the commands are deleted.
deleted(managers, commands) ==
    executing("delete", [devices |-> managers, strokes |-> <<>>], commands)[Len(commands)].devices

\* setIndex(int): undo() or redo() of every command on the way.
wayTo(idx) ==
    IF idx < stack.m_index THEN Reverse(SubSeq(stack.m_command_list, idx + 1, stack.m_index))
    ELSE SubSeq(stack.m_command_list, stack.m_index + 1, idx)
moveTo(idx) ==
    LET kind == IF idx < stack.m_index THEN "undo" ELSE "redo"
        done == executing(kind, [devices |-> devices, strokes |-> strokes],
                          wayTo(idx))[Len(wayTo(idx))]
    IN  /\ devices' = done.devices
        /\ strokes' = done.strokes
        /\ stack' = indexSet(stack, idx, FALSE)
        /\ document' = slotUndoStackIndexChanged(document, stack', idx)

\* push() outside a macro, of a command already carried out on `managers`: its
\* first redo() does nothing.
push(managers, command) ==
    LET longer == appended(withoutRedo(stack), command)
        oldest == SubSeq(longer.m_command_list, 1, excess(longer))
    IN  /\ stack' = counted(longer)
        /\ devices' = deleted(deleted(managers, redoTail(stack)), oldest)
        /\ images' = SubSeq(Append(SubSeq(images, 1, stack.m_index + 1), image'),
                            excess(longer) + 1, stack.m_index + 2)

-----------------------------------------------------------------------------
(* The GUI thread.                                                            *)

\* A handler runs while the worker may still push; what is posted before
\* is delivered before. With an upload on the way the user waits.
mayEdit == uploading = NoImage \/ "editWhileUploading" \in Liberties

startHandling ==
    /\ gui = "idle" /\ events = <<>> /\ mayEdit /\ strokes # <<>>
    /\ gui' = "handling"
    /\ UNCHANGED <<devices, stack, strokes, transaction, events, document, mementos,
                   images, files>>

\* tryBarrierLock() fails, or there is nothing to do.
giveUp ==
    /\ gui = "handling"
    /\ gui' = "idle"
    /\ UNCHANGED <<devices, stack, strokes, transaction, events, document, mementos,
                   images, files>>

\* tryBarrierLock() succeeds, or barrierLock() returns: at once, or after
\* strokes that were executed since the handler was entered.
underLock ==
    /\ strokes = <<>>
    /\ gui = "handling" \/ (gui = "idle" /\ events = <<>> /\ mayEdit)

deliver ==
    /\ gui = "idle" /\ events # <<>>
    /\ document' = slotUndoStackIndexChanged(document, stack, Head(events))
    /\ events' = Tail(events)
    /\ UNCHANGED <<devices, stack, strokes, transaction, gui, mementos, images, files>>

startStroke(d) ==
    /\ gui = "idle" /\ mayEdit
    /\ ~\E i \in 1 .. Len(strokes) : paints(strokes[i]) /\ strokes[i].state = "open"
    /\ mementos + Cardinality(painting(strokes)) < MaxTransactions
    /\ strokes' = Append(strokes, Paint(d))
    /\ UNCHANGED <<devices, stack, transaction, gui, events, document, mementos, images,
                   files>>

\* The tool ends or cancels its stroke, by itself or because a handler asks.
closeStroke(i, state) ==
    /\ paints(strokes[i]) /\ strokes[i].state = "open"
    /\ state = "cancelled" /\ "revertAfterUndo" \notin Liberties =>
           \A t \in transactionsIn(redoTail(stack)) : t.device # strokes[i].device
    /\ strokes' = [strokes EXCEPT ![i].state = state]
    /\ UNCHANGED <<devices, stack, transaction, gui, events, document, mementos, images,
                   files>>

undo ==
    /\ underLock /\ canUndo(stack)
    /\ moveTo(stack.m_index - 1)
    /\ gui' = "idle"
    /\ UNCHANGED <<transaction, events, mementos, images, files>>

redo ==
    /\ underLock /\ canRedo(stack)
    /\ moveTo(stack.m_index + 1)
    /\ gui' = "idle"
    /\ UNCHANGED <<transaction, events, mementos, images, files>>

\* The history docker. Strokes of saved commands wait for the lock, so commands
\* of both kinds on one way are not carried out in order.
setIndex(idx) ==
    /\ underLock /\ idx # stack.m_index
    /\ "jumpMixed" \in Liberties
           \/ \E saved \in BOOLEAN : \A i \in DOMAIN wayTo(idx) : wayTo(idx)[i].saved = saved
    /\ moveTo(idx)
    /\ gui' = "idle"
    /\ UNCHANGED <<transaction, events, mementos, images, files>>

\* A transaction of the GUI thread, committed to the legacy adapter.
commitLegacy(d) ==
    /\ underLock /\ mementos < MaxTransactions
    /\ \E changed \in Changes(getMemento(devices[d], mementos + 1)) :
           LET t == ended(opened(d, mementos + 1), changed)
           IN  push([devices EXCEPT ![d] = commit(changed)], [saved |-> FALSE, parts |-> <<t>>])
    /\ mementos' = mementos + 1
    /\ document' = slotUndoStackIndexChanged(document, stack', stack'.m_index)
    /\ gui' = "idle"
    /\ UNCHANGED <<strokes, transaction, events, files>>

\* beginMacro() keeps the image locked until endMacro().
beginMacro ==
    /\ underLock
    /\ stack' = macroBegun(stack, [saved |-> FALSE, parts |-> <<>>])
    /\ devices' = deleted(devices, redoTail(stack))
    /\ images' = SubSeq(images, 1, stack.m_index + 1)
    /\ gui' = "macro"
    /\ UNCHANGED <<strokes, transaction, events, document, mementos, files>>

commitInMacro(d) ==
    /\ gui = "macro" /\ mementos < MaxTransactions
    /\ \E changed \in Changes(getMemento(devices[d], mementos + 1)) :
           LET t == ended(opened(d, mementos + 1), changed)
           IN  /\ devices' = [devices EXCEPT ![d] = commit(changed)]
               /\ stack' = [stack EXCEPT !.m_command_list[count(stack)].parts = Append(@, t)]
    /\ mementos' = mementos + 1
    /\ UNCHANGED <<strokes, transaction, gui, events, document, images, files>>

endMacro ==
    LET longer == [stack EXCEPT !.m_macro = FALSE]
    IN  /\ gui = "macro"
        /\ stack' = macroEnded(stack)
        /\ devices' = deleted(devices, SubSeq(stack.m_command_list, 1, excess(longer)))
        /\ images' = SubSeq(Append(images, image), excess(longer) + 1, Len(images) + 1)
        /\ document' = slotUndoStackIndexChanged(document, stack', stack'.m_index)
        /\ gui' = "idle"
        /\ UNCHANGED <<strokes, transaction, events, mementos, files>>

\* saveFile() and saveToUrl() of a local file.
save ==
    /\ underLock
    /\ stack' = setClean(stack)
    /\ document' = setModified(setAutoSave(document), FALSE)
    /\ onDisk' = image
    /\ autosaved' = NoImage
    /\ gui' = "idle"
    /\ UNCHANGED <<devices, strokes, transaction, events, mementos, images, uploading>>

\* The lock was not to be had, or the file could not be written: the flag is set to
\* what it was.
failToSave ==
    /\ \/ /\ gui = "handling"
          /\ document' = setModified(document, document.modified)
       \/ /\ underLock
          /\ document' = setModified(setAutoSave(document), document.modified)
    /\ gui' = "idle"
    /\ UNCHANGED <<devices, stack, strokes, transaction, events, mementos, images, files>>

\* exportDocument(): the flag is put back, the clean index is not.
exportDocument ==
    /\ underLock
    /\ isClean(stack) \/ "exportModified" \in Liberties
    /\ stack' = setClean(stack)
    /\ document' = setModified(setModified(setAutoSave(document), FALSE), document.modified)
    /\ gui' = "idle"
    /\ UNCHANGED <<devices, strokes, transaction, events, mementos, images, files>>

\* saveToUrl() of a remote file leaves a copy to an upload job.
saveRemote ==
    /\ underLock /\ uploading = NoImage
    /\ stack' = setClean(stack)
    /\ document' = setAutoSave(document)
    /\ autosaved' = NoImage
    /\ uploading' = image
    /\ gui' = "idle"
    /\ UNCHANGED <<devices, strokes, transaction, events, mementos, images, onDisk>>

uploadFinished ==
    /\ gui = "idle" /\ uploading # NoImage
    /\ \/ /\ onDisk' = uploading
          /\ document' = setModified(document, FALSE)
       \/ /\ uploading = onDisk \/ "uploadFails" \in Liberties
          /\ UNCHANGED <<onDisk, document>>
    /\ uploading' = NoImage
    /\ UNCHANGED <<devices, stack, strokes, transaction, gui, events, mementos, images,
                   autosaved>>

slotAutoSave ==
    /\ underLock /\ autoSaveDue(document)
    /\ document' = autoSaved(document)
    /\ autosaved' = image
    /\ gui' = "idle"
    /\ UNCHANGED <<devices, stack, strokes, transaction, events, mementos, images, onDisk,
                   uploading>>

GUI ==
    \/ startHandling \/ giveUp \/ deliver
    \/ \E d \in Devices : startStroke(d) \/ commitLegacy(d) \/ commitInMacro(d)
    \/ \E i \in 1 .. Len(strokes) : closeStroke(i, "ended") \/ closeStroke(i, "cancelled")
    \/ undo \/ redo
    \/ \E idx \in 0 .. count(stack) : setIndex(idx)
    \/ beginMacro \/ endMacro
    \/ save \/ failToSave \/ exportDocument \/ saveRemote \/ uploadFinished
    \/ slotAutoSave

-----------------------------------------------------------------------------
(* The worker: the jobs of the first stroke in the queue.                     *)

initStrokeCallback ==
    LET d == Head(strokes).device
    IN  /\ strokes # <<>> /\ paints(Head(strokes)) /\ Head(strokes).state # "cancelled"
        /\ transaction = NoTransaction
        /\ devices' = [devices EXCEPT ![d] = getMemento(@, mementos + 1)]
        /\ transaction' = opened(d, mementos + 1)
        /\ mementos' = mementos + 1
        /\ UNCHANGED <<stack, strokes, gui, events, document, images, files>>

doStrokeCallback ==
    /\ transaction # NoTransaction /\ Head(strokes).state # "cancelled"
    /\ changesIn(transaction, devices[transaction.device]) < MaxChanges
    /\ devices' \in {[devices EXCEPT ![transaction.device] = m] :
                        m \in Changes(devices[transaction.device])}
    /\ UNCHANGED <<stack, strokes, transaction, gui, events, document, mementos, images,
                   files>>

\* The command is pushed by the worker; the index is posted. While a macro is
\* composed the lock keeps the worker idle.
finishStrokeCallback ==
    /\ transaction # NoTransaction /\ Head(strokes).state = "ended"
    /\ gui # "macro"
    /\ LET d == transaction.device
       IN  push([devices EXCEPT ![d] = commit(@)],
                [saved |-> TRUE, parts |-> <<ended(transaction, devices[d])>>])
    /\ events' = Append(events, stack'.m_index)
    /\ transaction' = NoTransaction
    /\ strokes' = Tail(strokes)
    /\ UNCHANGED <<gui, document, mementos, files>>

\* revert(): commit, undo, purge.
cancelStrokeCallback ==
    /\ transaction # NoTransaction /\ Head(strokes).state = "cancelled"
    /\ LET d == transaction.device
           ms == undone([devices EXCEPT ![d] = commit(@)], ended(transaction, devices[d]))
       IN  devices' = [ms EXCEPT ![d] = purgeHistory(@, transaction.memento)]
    /\ transaction' = NoTransaction
    /\ strokes' = Tail(strokes)
    /\ UNCHANGED <<stack, gui, events, document, mementos, images, files>>

\* A stroke that is cancelled before its first job has nothing to take back.
dropStroke ==
    /\ strokes # <<>> /\ paints(Head(strokes)) /\ Head(strokes).state = "cancelled"
    /\ transaction = NoTransaction
    /\ strokes' = Tail(strokes)
    /\ UNCHANGED <<devices, stack, transaction, gui, events, document, mementos, images,
                   files>>

runCommand ==
    /\ strokes # <<>> /\ ~paints(Head(strokes))
    /\ LET job == Head(strokes)
       IN  devices' = IF job.kind = "undo" THEN undone(devices, job.transaction)
                      ELSE redone(devices, job.transaction)
    /\ strokes' = Tail(strokes)
    /\ UNCHANGED <<stack, transaction, gui, events, document, mementos, images, files>>

Worker ==
    \/ initStrokeCallback \/ doStrokeCallback \/ finishStrokeCallback
    \/ cancelStrokeCallback \/ dropStroke \/ runCommand

Next == GUI \/ Worker
Spec == Init /\ [][Next]_vars

-----------------------------------------------------------------------------
(* Properties.                                                                *)

quiet == strokes = <<>> /\ gui # "macro"

\* When no stroke is left to execute, the image is the one that belongs to the
\* index of the stack: undo and redo, one by one or in jumps, put back tiles
\* and default pixels exactly, on every device, through purged histories,
\* cancelled strokes and macros.
ImageFollowsHistory == quiet => image = images[stack.m_index + 1]

\* Where the transactions on a device are: the command and the part of it.
partAt(place) == stack.m_command_list[place[1]].parts[place[2]]
places(d) ==
    {place \in UNION {{j} \X DOMAIN stack.m_command_list[j].parts :
                         j \in DOMAIN stack.m_command_list} : partAt(place).device = d}
before(a, b) == a[1] < b[1] \/ (a[1] = b[1] /\ a[2] < b[2])
isDone(place) == place[1] <= stack.m_index

\* Neither rollback() nor rollforward() looks for the memento it is given. They
\* take the right revision because each device keeps the revisions of the done
\* commands last, in their order, and those of the undone ones first: as many from
\* the end, or from the beginning, as there are transactions from this one on, or
\* up to it.
RevisionsMatchCommands ==
    quiet => \A d \in Devices : \A a \in places(d) :
        LET m == devices[d]
            since == Cardinality({b \in places(d) : isDone(b) /\ ~before(b, a)})
            upTo == Cardinality({b \in places(d) : ~isDone(b) /\ ~before(a, b)})
            revisions == IF isDone(a) THEN m.m_revisions ELSE m.m_cancelledRevisions
            k == IF isDone(a) THEN Len(revisions) + 1 - since ELSE upTo
        IN  k \in DOMAIN revisions /\ revisions[k].memento = partAt(a).memento

settled == quiet /\ gui = "idle" /\ events = <<>>

\* A document that is not marked as modified is the one in the file, or the one
\* on its way there: closing it loses nothing. The flag goes by indices of the
\* stack, which pushes, the undo limit and signals delivered late move about.
UnmodifiedMeansSaved == settled /\ ~document.modified => image \in {onDisk, uploading}

\* Work that is neither in a file nor on its way to one will be autosaved: the
\* timer runs, and will not be ignored.
WorkIsAutosaved ==
    settled /\ image \notin {onDisk, autosaved, uploading} => autoSaveDue(document)

\* The listeners of cleanChanged() agree with isClean().
CleanIsHeard == ~stack.m_macro => stack.heard = isClean(stack)
=============================================================================
