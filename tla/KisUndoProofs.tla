----------------------------- MODULE KisUndoProofs -----------------------------
(***************************************************************************)
(* Undo, part by part, for any devices, limits and numbers of              *)
(* transactions.                                                           *)
(*                                                                         *)
(* The stack: the listeners of its clean state are told by comparing two   *)
(* indices before and after a move, while pushes cut off what could be     *)
(* redone and the limit cuts off the oldest commands and shifts both       *)
(* indices. They know what isClean() answers, and the indices never leave  *)
(* the list (StackInv).                                                    *)
(*                                                                         *)
(* The types: that of the history of a device through commits, undo, redo  *)
(* and purging; the order of the queue, in which jobs of commands come     *)
(* before strokes; and the bound on the mementos, of which every stroke    *)
(* that waits has its own (TypedInv).                                      *)
(*                                                                         *)
(* One device: what rollback(), rollforward(), purgeHistory() and a new    *)
(* transaction do to a device whose revisions tell a history. The rest of  *)
(* the argument is in KisUndoHistoryProofs.                                *)
(***************************************************************************)
EXTENDS KisUndo, FiniteSetTheorems, SequenceTheorems, WellFoundedInduction, TLAPS

-------------------------------------------------------------------------------
(***************************************************************************)
(* The stack.                                                              *)
(***************************************************************************)

\* What a method finds and leaves. The commands may be of any kind.
IsStack(s) ==
    \E C : s \in [m_command_list : Seq(C), m_index : Nat, m_clean_index : Nat \cup {-1},
                  m_macro : BOOLEAN, heard : BOOLEAN]

\* In a macro, and in the middle of a push, one command is not counted yet.
Uncounted(s) == count(s) = s.m_index + 1

WellKept(s) ==
    /\ IsStack(s)
    /\ s.m_index <= count(s)
    /\ s.m_clean_index <= count(s)
    /\ s.m_macro => Uncounted(s)
    /\ s.heard = (s.m_clean_index = s.m_index)

\* The GUI thread knows whether it composes a macro.
StackInv ==
    /\ WellKept(stack)
    /\ stack.m_macro <=> gui = "macro"

-----------------------------------------------------------------------------
\* Telling of a change by the indices alone is enough.
LEMMA IndexSetKeeps ==
    ASSUME NEW s, WellKept(s), ~s.m_macro, NEW idx \in Nat, idx <= count(s),
           NEW clean \in BOOLEAN
    PROVE  WellKept(indexSet(s, idx, clean)) /\ ~indexSet(s, idx, clean).m_macro
<1> DEFINE t == indexSet(s, idx, clean)
           cleanIndex == IF clean THEN idx ELSE s.m_clean_index
           was == s.m_index = s.m_clean_index
           is == idx = cleanIndex
<1>1. PICK C : s \in [m_command_list : Seq(C), m_index : Nat, m_clean_index : Nat \cup {-1},
                      m_macro : BOOLEAN, heard : BOOLEAN]
  BY DEF WellKept, IsStack
<1>2. /\ t.m_command_list = s.m_command_list
      /\ t.m_index = idx
      /\ t.m_clean_index = cleanIndex
      /\ t.m_macro = s.m_macro
      /\ t.heard = (IF is # was THEN is ELSE s.heard)
  BY <1>1 DEF indexSet
<1>3. cleanIndex \in Nat \cup {-1} /\ cleanIndex <= count(s)
  BY <1>1 DEF WellKept
<1>4. t \in [m_command_list : Seq(C), m_index : Nat, m_clean_index : Nat \cup {-1},
             m_macro : BOOLEAN, heard : BOOLEAN]
  BY <1>1, <1>3 DEF indexSet
<1>5. s.heard = was
  BY DEF WellKept
<1>6. t.heard = (t.m_clean_index = t.m_index)
  BY <1>2, <1>5
<1>7. IsStack(t)
  BY <1>4 DEF IsStack
<1>8. QED
  BY <1>2, <1>3, <1>6, <1>7 DEF WellKept, count

\* Cutting off what can be redone may remove the clean state, never make one.
LEMMA WithoutRedoKeeps ==
    ASSUME NEW s, WellKept(s), ~s.m_macro
    PROVE  /\ WellKept(withoutRedo(s)) /\ ~withoutRedo(s).m_macro
           /\ count(withoutRedo(s)) = withoutRedo(s).m_index
<1> DEFINE t == withoutRedo(s)
           kept == SubSeq(s.m_command_list, 1, s.m_index)
           cleanIndex == IF s.m_clean_index > s.m_index THEN -1 ELSE s.m_clean_index
<1>1. PICK C : s \in [m_command_list : Seq(C), m_index : Nat, m_clean_index : Nat \cup {-1},
                      m_macro : BOOLEAN, heard : BOOLEAN]
  BY DEF WellKept, IsStack
<1>2. s.m_command_list \in Seq(C) /\ s.m_index \in Nat /\ s.m_index <= Len(s.m_command_list)
  BY <1>1 DEF WellKept, count
<1>3. kept \in Seq(C) /\ Len(kept) = s.m_index
  BY <1>2
<1> HIDE DEF kept
<1>4. t = [s EXCEPT !.m_command_list = kept, !.m_clean_index = cleanIndex]
  BY DEF withoutRedo, kept
<1>5. cleanIndex \in Nat \cup {-1} /\ cleanIndex <= s.m_index
      /\ (cleanIndex = s.m_index <=> s.m_clean_index = s.m_index)
  BY <1>1
<1> HIDE DEF cleanIndex, t
<1>6. /\ t.m_command_list = kept /\ t.m_index = s.m_index /\ t.m_clean_index = cleanIndex
      /\ t.m_macro = s.m_macro /\ t.heard = s.heard
  BY <1>1, <1>4
<1>7. t \in [m_command_list : Seq(C), m_index : Nat, m_clean_index : Nat \cup {-1},
             m_macro : BOOLEAN, heard : BOOLEAN]
  BY <1>1, <1>3, <1>4, <1>5
<1>8. IsStack(t)
  BY <1>7 DEF IsStack
<1>9. s.heard = (s.m_clean_index = s.m_index)
  BY DEF WellKept
<1>10. t.heard = (t.m_clean_index = t.m_index)
  BY <1>5, <1>6, <1>9
<1>11. QED
  BY <1>2, <1>3, <1>5, <1>6, <1>8, <1>10 DEF WellKept, count, t

\* A command more, which is not counted yet.
LEMMA AppendedKeeps ==
    ASSUME NEW s, WellKept(s), ~s.m_macro, count(s) = s.m_index, NEW command
    PROVE  /\ WellKept(appended(s, command)) /\ ~appended(s, command).m_macro
           /\ Uncounted(appended(s, command))
<1> DEFINE t == appended(s, command)
           longer == Append(s.m_command_list, command)
<1>1. PICK C : s \in [m_command_list : Seq(C), m_index : Nat, m_clean_index : Nat \cup {-1},
                      m_macro : BOOLEAN, heard : BOOLEAN]
  BY DEF WellKept, IsStack
<1> DEFINE D == C \cup {command}
<1>2. s.m_command_list \in Seq(D) /\ command \in D
  BY <1>1
<1> HIDE DEF D
<1>3. longer \in Seq(D) /\ Len(longer) = Len(s.m_command_list) + 1
  BY <1>2
<1> HIDE DEF longer
<1>4. t = [s EXCEPT !.m_command_list = longer]
  BY DEF appended, longer
<1> HIDE DEF t
<1>5. /\ t.m_command_list = longer /\ t.m_index = s.m_index
      /\ t.m_clean_index = s.m_clean_index /\ t.m_macro = s.m_macro /\ t.heard = s.heard
  BY <1>1, <1>4
<1>6. t \in [m_command_list : Seq(D), m_index : Nat, m_clean_index : Nat \cup {-1},
             m_macro : BOOLEAN, heard : BOOLEAN]
  BY <1>1, <1>3, <1>4
<1>7. IsStack(t)
  BY <1>6 DEF IsStack
<1>8. /\ s.m_index \in Nat /\ s.m_clean_index \in Int /\ count(s) \in Nat
      /\ s.m_clean_index <= count(s)
      /\ s.heard = (s.m_clean_index = s.m_index)
  BY <1>1 DEF WellKept, count
<1>9. count(t) = count(s) + 1
  BY <1>3, <1>5 DEF count
<1>10. QED
  BY <1>5, <1>7, <1>8, <1>9 DEF WellKept, Uncounted, t

\* A macro begins or ends with the one command that is not counted.
LEMMA MacroFlagKeeps ==
    ASSUME NEW s, WellKept(s), Uncounted(s), NEW flag \in BOOLEAN
    PROVE  LET t == [s EXCEPT !.m_macro = flag] IN
           WellKept(t) /\ Uncounted(t) /\ t.m_macro = flag
<1> DEFINE t == [s EXCEPT !.m_macro = flag]
<1>1. PICK C : s \in [m_command_list : Seq(C), m_index : Nat, m_clean_index : Nat \cup {-1},
                      m_macro : BOOLEAN, heard : BOOLEAN]
  BY DEF WellKept, IsStack
<1>2. t \in [m_command_list : Seq(C), m_index : Nat, m_clean_index : Nat \cup {-1},
             m_macro : BOOLEAN, heard : BOOLEAN]
  BY <1>1
<1>3. /\ t.m_command_list = s.m_command_list /\ t.m_index = s.m_index /\ t.m_macro = flag
      /\ t.m_clean_index = s.m_clean_index /\ t.heard = s.heard
  BY <1>1
<1> HIDE DEF t
<1>4. IsStack(t)
  BY <1>2 DEF IsStack
<1>5. QED
  BY <1>3, <1>4 DEF WellKept, Uncounted, count, t

\* The limit takes no more commands than are counted, so that an index that was
\* not clean does not become so.
LEMMA WithinLimitKeeps ==
    ASSUME NEW s, WellKept(s), ~s.m_macro, Uncounted(s)
    PROVE  /\ WellKept(withinLimit(s)) /\ ~withinLimit(s).m_macro
           /\ Uncounted(withinLimit(s))
<1> DEFINE t == withinLimit(s)
           e == excess(s)
           kept == SubSeq(s.m_command_list, e + 1, Len(s.m_command_list))
           index == s.m_index - e
           cleanIndex == IF s.m_clean_index < e THEN -1 ELSE s.m_clean_index - e
<1>1. PICK C : s \in [m_command_list : Seq(C), m_index : Nat, m_clean_index : Nat \cup {-1},
                      m_macro : BOOLEAN, heard : BOOLEAN]
  BY DEF WellKept, IsStack
<1>2. /\ s.m_command_list \in Seq(C) /\ s.m_index \in Nat /\ s.m_clean_index \in Nat \cup {-1}
      /\ Len(s.m_command_list) = s.m_index + 1 /\ s.m_clean_index <= s.m_index + 1
      /\ s.heard = (s.m_clean_index = s.m_index)
  BY <1>1 DEF WellKept, Uncounted, count
<1>3. e \in 0 .. s.m_index
  BY <1>2, StackAssumption DEF excess, count
<1> HIDE DEF e
<1>4. kept \in Seq(C) /\ Len(kept) = Len(s.m_command_list) - e
  BY <1>2, <1>3
<1> HIDE DEF kept
<1>5. /\ index \in Nat /\ Len(kept) = index + 1
      /\ cleanIndex \in Nat \cup {-1} /\ cleanIndex <= index + 1
      /\ cleanIndex = index <=> s.m_clean_index = s.m_index
  BY SMTT(30), <1>2, <1>3, <1>4
<1>6. t = [s EXCEPT !.m_command_list = kept, !.m_index = index, !.m_clean_index = cleanIndex]
  BY DEF withinLimit, kept, e
<1> HIDE DEF index, cleanIndex, t
<1>7. /\ t.m_command_list = kept /\ t.m_index = index /\ t.m_clean_index = cleanIndex
      /\ t.m_macro = s.m_macro /\ t.heard = s.heard
  BY <1>1, <1>6
<1>8. t \in [m_command_list : Seq(C), m_index : Nat, m_clean_index : Nat \cup {-1},
             m_macro : BOOLEAN, heard : BOOLEAN]
  BY <1>1, <1>4, <1>5, <1>6
<1>9. IsStack(t)
  BY <1>8 DEF IsStack
<1>10. t.heard = (t.m_clean_index = t.m_index)
  BY <1>2, <1>5, <1>7
<1>11. QED
  BY <1>5, <1>7, <1>9, <1>10 DEF WellKept, Uncounted, count, t

\* The command is counted once the limit has taken the oldest.
LEMMA CountedKeeps ==
    ASSUME NEW s, WellKept(s), ~s.m_macro, Uncounted(s)
    PROVE  WellKept(counted(s)) /\ ~counted(s).m_macro
<1> DEFINE t == withinLimit(s)
<1>1. WellKept(t) /\ ~t.m_macro /\ Uncounted(t)
  BY WithinLimitKeeps
<1> HIDE DEF t
<1>2. t.m_index \in Nat
  BY <1>1 DEF WellKept, IsStack
<1>3. t.m_index + 1 \in Nat /\ t.m_index + 1 <= count(t)
  BY <1>1, <1>2 DEF Uncounted
<1>4. WellKept(indexSet(t, t.m_index + 1, FALSE)) /\ ~indexSet(t, t.m_index + 1, FALSE).m_macro
  BY <1>1, <1>3, IndexSetKeeps
<1>5. counted(s) = indexSet(t, t.m_index + 1, FALSE)
  BY DEF counted, t
<1>6. QED
  BY <1>4, <1>5

\* push() from beginning to end.
LEMMA PushKeeps ==
    ASSUME NEW s, WellKept(s), ~s.m_macro, NEW command
    PROVE  /\ WellKept(counted(appended(withoutRedo(s), command)))
           /\ ~counted(appended(withoutRedo(s), command)).m_macro
<1> DEFINE t == withoutRedo(s)
           u == appended(t, command)
<1>1. WellKept(t) /\ ~t.m_macro /\ count(t) = t.m_index
  BY WithoutRedoKeeps
<1> HIDE DEF t
<1>2. WellKept(u) /\ ~u.m_macro /\ Uncounted(u)
  BY <1>1, AppendedKeeps
<1> HIDE DEF u
<1>3. WellKept(counted(u)) /\ ~counted(u).m_macro
  BY <1>2, CountedKeeps
<1>4. QED
  BY <1>3 DEF t, u

\* beginMacro() cuts off what could be redone and appends the macro.
LEMMA MacroBegunKeeps ==
    ASSUME NEW s, WellKept(s), ~s.m_macro, NEW command
    PROVE  WellKept(macroBegun(s, command)) /\ macroBegun(s, command).m_macro
<1> DEFINE t == withoutRedo(s)
           u == appended(t, command)
<1>1. WellKept(t) /\ ~t.m_macro /\ count(t) = t.m_index
  BY WithoutRedoKeeps
<1> HIDE DEF t
<1>2. WellKept(u) /\ Uncounted(u)
  BY <1>1, AppendedKeeps
<1> HIDE DEF u
<1>3. LET v == [u EXCEPT !.m_macro = TRUE] IN WellKept(v) /\ v.m_macro = TRUE
  BY <1>2, MacroFlagKeeps
<1>4. QED
  BY <1>3 DEF macroBegun, t, u

\* endMacro() counts the macro.
LEMMA MacroEndedKeeps ==
    ASSUME NEW s, WellKept(s), s.m_macro
    PROVE  WellKept(macroEnded(s)) /\ ~macroEnded(s).m_macro
<1> DEFINE t == [s EXCEPT !.m_macro = FALSE]
<1>1. Uncounted(s)
  BY DEF WellKept
<1>2. WellKept(t) /\ Uncounted(t) /\ t.m_macro = FALSE
  BY <1>1, MacroFlagKeeps
<1> HIDE DEF t
<1>3. WellKept(counted(t)) /\ ~counted(t).m_macro
  BY <1>2, CountedKeeps
<1>4. QED
  BY <1>3 DEF macroEnded, t

\* setClean() makes the present index the clean one, except in a macro.
LEMMA SetCleanKeeps ==
    ASSUME NEW s, WellKept(s)
    PROVE  WellKept(setClean(s)) /\ setClean(s).m_macro = s.m_macro
<1>1. CASE s.m_macro
  BY <1>1 DEF setClean
<1>2. CASE ~s.m_macro
  <2>1. s.m_index \in Nat /\ s.m_index <= count(s) /\ s.m_macro \in BOOLEAN
    BY DEF WellKept, IsStack
  <2>2. WellKept(indexSet(s, s.m_index, TRUE)) /\ ~indexSet(s, s.m_index, TRUE).m_macro
    BY <1>2, <2>1, IndexSetKeeps
  <2>3. indexSet(s, s.m_index, TRUE).m_macro \in BOOLEAN
    BY <2>2 DEF WellKept, IsStack
  <2>4. QED
    BY <1>2, <2>1, <2>2, <2>3 DEF setClean
<1>3. QED
  BY <1>1, <1>2

\* Replacing an element of a list.
LEMMA ReplacedKeepsLength ==
    ASSUME NEW S, NEW list \in Seq(S), NEW n, NEW x \in S
    PROVE  LET changed == [list EXCEPT ![n] = x] IN
           changed \in Seq(S) /\ Len(changed) = Len(list)
<1> DEFINE changed == [list EXCEPT ![n] = x]
<1>1. list \in [1 .. Len(list) -> S] /\ Len(list) \in Nat
  OBVIOUS
<1>2. changed \in [1 .. Len(list) -> S]
  BY <1>1
<1> HIDE DEF changed
<1>3. changed \in Seq(S) /\ Len(changed) = Len(list)
  BY <1>1, <1>2
<1> QED
  BY <1>3 DEF changed

\* The macro grows inside the list.
LEMMA ComposedKeeps ==
    ASSUME NEW s, WellKept(s), s.m_macro, NEW t
    PROVE  LET u == [s EXCEPT !.m_command_list[count(s)].parts = Append(@, t)] IN
           WellKept(u) /\ u.m_macro
<1> DEFINE u == [s EXCEPT !.m_command_list[count(s)].parts = Append(@, t)]
           n == count(s)
           grown == [s.m_command_list[n] EXCEPT !.parts = Append(@, t)]
           list == [s.m_command_list EXCEPT ![n] = grown]
<1>1. PICK C : s \in [m_command_list : Seq(C), m_index : Nat, m_clean_index : Nat \cup {-1},
                      m_macro : BOOLEAN, heard : BOOLEAN]
  BY DEF WellKept, IsStack
<1> DEFINE D == C \cup {grown}
<1>2. u = [s EXCEPT !.m_command_list = list]
  OBVIOUS
<1> HIDE DEF u, grown
<1>3. s.m_command_list \in Seq(D) /\ grown \in D
  BY <1>1
<1> HIDE DEF D
<1>4. list \in Seq(D) /\ Len(list) = Len(s.m_command_list)
  BY <1>3, ReplacedKeepsLength
<1> HIDE DEF list
<1>5. /\ u.m_command_list = list /\ u.m_index = s.m_index
      /\ u.m_clean_index = s.m_clean_index /\ u.m_macro = s.m_macro /\ u.heard = s.heard
  BY <1>1, <1>2
<1>6. u \in [m_command_list : Seq(D), m_index : Nat, m_clean_index : Nat \cup {-1},
             m_macro : BOOLEAN, heard : BOOLEAN]
  BY <1>1, <1>2, <1>4
<1>7. IsStack(u)
  BY <1>6 DEF IsStack
<1>8. QED
  BY <1>4, <1>5, <1>7 DEF WellKept, Uncounted, count, u

-----------------------------------------------------------------------------

\* An empty stack is clean, and its listeners know.
LEMMA InitEstablishes == Init => StackInv
<1> SUFFICES ASSUME Init PROVE StackInv
  OBVIOUS
<1>1. stack = EmptyStack /\ gui = "idle"
  BY DEF Init
<1>2. stack \in [m_command_list : Seq({}), m_index : Nat, m_clean_index : Nat \cup {-1},
                 m_macro : BOOLEAN, heard : BOOLEAN]
  BY <1>1 DEF EmptyStack
<1>3. IsStack(stack)
  BY <1>2 DEF IsStack
<1>4. /\ stack.m_command_list = <<>> /\ stack.m_index = 0 /\ stack.m_clean_index = 0
      /\ ~stack.m_macro /\ stack.heard /\ gui # "macro"
  BY <1>1 DEF EmptyStack
<1>5. count(stack) = 0
  BY <1>4 DEF count
<1>6. stack.m_index <= count(stack) /\ stack.m_clean_index <= count(stack)
  BY <1>4, <1>5
<1>7. WellKept(stack)
  BY <1>3, <1>4, <1>6, Zenon DEF WellKept
<1>8. QED
  BY <1>4, <1>7, Zenon DEF StackInv

\* A move to an index of the list, by undo, redo or a jump.
LEMMA MoveToKeeps ==
    ASSUME StackInv, ~stack.m_macro, NEW idx \in Nat, idx <= count(stack), moveTo(idx),
           gui' = "idle"
    PROVE  StackInv'
<1>1. stack' = indexSet(stack, idx, FALSE)
  BY DEF moveTo
<1>2. WellKept(indexSet(stack, idx, FALSE)) /\ ~indexSet(stack, idx, FALSE).m_macro
  BY IndexSetKeeps DEF StackInv
<1>3. QED
  BY <1>1, <1>2 DEF StackInv

\* Who leaves the stack alone keeps what is known of it.
LEMMA StackKept == StackInv /\ stack' = stack /\ (gui' = "macro" <=> gui = "macro") => StackInv'
BY DEF StackInv

\* Under the lock, whoever holds it is not composing a macro.
LEMMA LockedOutsideMacro == StackInv /\ underLock => ~stack.m_macro /\ gui # "macro"
BY DEF StackInv, underLock

\* Every operation of the GUI thread and of the worker keeps the stack well.
LEMMA NextKeeps == StackInv /\ Next => StackInv'
<1> SUFFICES ASSUME StackInv, Next PROVE StackInv'
  OBVIOUS
<1>1. CASE \E d \in Devices : commitLegacy(d)
  <2>1. ~stack.m_macro /\ gui' = "idle"
    BY <1>1, LockedOutsideMacro DEF commitLegacy
  <2>2. PICK command : stack' = counted(appended(withoutRedo(stack), command))
    BY <1>1 DEF commitLegacy, push
  <2>3. WellKept(stack') /\ ~stack'.m_macro
    BY <2>1, <2>2, PushKeeps DEF StackInv
  <2>4. QED
    BY <2>1, <2>3 DEF StackInv
<1>2. CASE finishStrokeCallback
  <2>1. ~stack.m_macro /\ gui' # "macro"
    BY <1>2 DEF finishStrokeCallback, StackInv
  <2>2. PICK command : stack' = counted(appended(withoutRedo(stack), command))
    BY <1>2 DEF finishStrokeCallback, push
  <2>3. WellKept(stack') /\ ~stack'.m_macro
    BY <2>1, <2>2, PushKeeps DEF StackInv
  <2>4. QED
    BY <2>1, <2>3 DEF StackInv
<1>3. CASE undo \/ redo \/ \E idx \in 0 .. count(stack) : setIndex(idx)
  <2>1. ~stack.m_macro /\ gui' = "idle"
    BY <1>3, LockedOutsideMacro DEF undo, redo, setIndex
  <2>2. stack.m_index \in Nat /\ stack.m_index <= count(stack) /\ count(stack) \in Nat
    BY DEF StackInv, WellKept, IsStack, count
  <2>3. CASE undo
    <3>1. moveTo(stack.m_index - 1) /\ stack.m_index > 0
      BY <2>3 DEF undo, canUndo
    <3>2. stack.m_index - 1 \in Nat /\ stack.m_index - 1 <= count(stack)
      BY <2>2, <3>1
    <3>3. QED
      BY <2>1, <3>1, <3>2, MoveToKeeps
  <2>4. CASE redo
    <3>1. moveTo(stack.m_index + 1) /\ stack.m_index < count(stack)
      BY <2>4 DEF redo, canRedo
    <3>2. stack.m_index + 1 \in Nat /\ stack.m_index + 1 <= count(stack)
      BY <2>2, <3>1
    <3>3. QED
      BY <2>1, <3>1, <3>2, MoveToKeeps
  <2>5. CASE \E idx \in 0 .. count(stack) : setIndex(idx)
    <3>1. PICK idx \in 0 .. count(stack) : moveTo(idx)
      BY <2>5 DEF setIndex
    <3>2. idx \in Nat /\ idx <= count(stack)
      BY <2>2, <3>1
    <3>3. QED
      BY <2>1, <3>1, <3>2, MoveToKeeps
  <2>6. QED
    BY <1>3, <2>3, <2>4, <2>5
<1>4. CASE beginMacro
  <2>1. ~stack.m_macro /\ gui' = "macro"
    BY <1>4, LockedOutsideMacro DEF beginMacro
  <2>2. stack' = macroBegun(stack, [saved |-> FALSE, parts |-> <<>>])
    BY <1>4 DEF beginMacro
  <2>3. WellKept(stack') /\ stack'.m_macro
    BY <2>1, <2>2, MacroBegunKeeps DEF StackInv
  <2>4. QED
    BY <2>1, <2>3 DEF StackInv
<1>5. CASE \E d \in Devices : commitInMacro(d)
  <2>1. stack.m_macro /\ gui' = "macro"
    BY <1>5 DEF commitInMacro, StackInv
  <2>2. PICK t : stack' = [stack EXCEPT !.m_command_list[count(stack)].parts = Append(@, t)]
    BY <1>5 DEF commitInMacro
  <2>3. LET u == [stack EXCEPT !.m_command_list[count(stack)].parts = Append(@, t)] IN
        WellKept(u) /\ u.m_macro
    BY <2>1, ComposedKeeps DEF StackInv
  <2>4. QED
    BY <2>1, <2>2, <2>3 DEF StackInv
<1>6. CASE endMacro
  <2>1. stack.m_macro /\ gui' = "idle" /\ stack' = macroEnded(stack)
    BY <1>6 DEF endMacro, StackInv
  <2>2. WellKept(stack') /\ ~stack'.m_macro
    BY <2>1, MacroEndedKeeps DEF StackInv
  <2>3. QED
    BY <2>1, <2>2 DEF StackInv
<1>7. CASE save \/ exportDocument \/ saveRemote
  <2>1. ~stack.m_macro /\ gui' = "idle" /\ stack' = setClean(stack)
    BY <1>7, LockedOutsideMacro DEF save, exportDocument, saveRemote
  <2>2. WellKept(stack') /\ ~stack'.m_macro
    BY <2>1, SetCleanKeeps DEF StackInv
  <2>3. QED
    BY <2>1, <2>2 DEF StackInv
<1>8. CASE startHandling \/ giveUp \/ failToSave \/ slotAutoSave
  <2>1. stack' = stack /\ gui # "macro" /\ gui' # "macro"
    BY <1>8, LockedOutsideMacro DEF startHandling, giveUp, failToSave, slotAutoSave
  <2>2. QED
    BY <2>1, StackKept
<1>9. CASE deliver \/ uploadFinished \/ \E d \in Devices : startStroke(d)
  <2>1. stack' = stack /\ gui' = gui
    BY <1>9 DEF deliver, uploadFinished, startStroke
  <2>2. QED
    BY <2>1, StackKept
<1>10. CASE \E i \in 1 .. Len(strokes) : closeStroke(i, "ended") \/ closeStroke(i, "cancelled")
  <2>1. stack' = stack /\ gui' = gui
    BY <1>10 DEF closeStroke
  <2>2. QED
    BY <2>1, StackKept
<1>11. CASE \/ initStrokeCallback \/ doStrokeCallback \/ cancelStrokeCallback \/ dropStroke
            \/ runCommand
  <2>1. stack' = stack /\ gui' = gui
    BY <1>11 DEF initStrokeCallback, doStrokeCallback, cancelStrokeCallback, dropStroke, runCommand
  <2>2. QED
    BY <2>1, StackKept
<1>12. QED
  BY <1>1, <1>2, <1>3, <1>4, <1>5, <1>6, <1>7, <1>8, <1>9, <1>10, <1>11 DEF Next, GUI, Worker

\* The stack stays well kept.
LEMMA StackAlwaysKept == Spec => []StackInv
<1>1. StackInv /\ UNCHANGED vars => StackInv'
  BY StackKept DEF vars
<1>2. StackInv /\ [Next]_vars => StackInv'
  BY <1>1, NextKeeps
<1>3. QED
  BY <1>2, InitEstablishes, PTL DEF Spec

\* The listeners of cleanChanged() know what isClean() answers, for every limit,
\* with any number of commands, macros, jumps and saves.
THEOREM CleanKnown == Spec => []CleanIsHeard
<1>1. StackInv => CleanIsHeard
  BY DEF StackInv, WellKept, CleanIsHeard, isClean
<1>2. QED
  BY <1>1, StackAlwaysKept, PTL

\* Neither the index nor the clean index ever points behind the last command,
\* whatever pushes, the limit and macros do to the list: what undo() and redo()
\* fetch is there.
THEOREM IndicesInside ==
    Spec => [](stack.m_index \in 0 .. count(stack) /\ stack.m_clean_index <= count(stack))
<1>1. StackInv => stack.m_index \in 0 .. count(stack) /\ stack.m_clean_index <= count(stack)
  <2> SUFFICES ASSUME StackInv
               PROVE  stack.m_index \in 0 .. count(stack) /\ stack.m_clean_index <= count(stack)
    OBVIOUS
  <2>1. stack.m_index \in Nat /\ count(stack) \in Nat
    BY DEF StackInv, WellKept, IsStack, count
  <2>2. QED
    BY <2>1 DEF StackInv, WellKept
<1>2. QED
  BY <1>1, StackAlwaysKept, PTL

-----------------------------------------------------------------------------
\* A set of numbers that is not empty has a least element.
LEMMA Least ==
    ASSUME NEW T, T \subseteq Nat, T # {}
    PROVE  \E m \in T : \A n \in T : m <= n
<1>1. PICK m \in T : \A n \in T : <<n, m>> \notin OpToRel(<, Nat)
  BY NatLessThanWellFounded, WFMin
<1>2. ASSUME NEW n \in T PROVE m <= n
  <2>1. m \in Nat /\ n \in Nat
    OBVIOUS
  <2>2. ~(n < m)
    BY <1>1, <2>1 DEF OpToRel
  <2>3. QED
    BY <2>1, <2>2
<1>3. QED
  BY <1>2

\* A part of a list.
LEMMA CutOut ==
    ASSUME NEW T, NEW list \in Seq(T), NEW i \in 1 .. (Len(list) + 1), NEW j \in (i - 1) .. Len(list)
    PROVE  /\ SubSeq(list, i, j) \in Seq(T)
           /\ Len(SubSeq(list, i, j)) = j - i + 1
           /\ \A k \in 1 .. (j - i + 1) : SubSeq(list, i, j)[k] = list[i + k - 1]
<1>1. \A k \in i .. j : list[k] \in T
  OBVIOUS
<1>2. i \in Int /\ j \in Int
  OBVIOUS
<1>3. QED
  BY <1>1, <1>2, SubSeqProperties

-----------------------------------------------------------------------------
(***************************************************************************)
(* Types.                                                                  *)
(***************************************************************************)
Tiles == Pixels \cup {NoTile}
Item == [now : Tiles, before : Tiles]

\* The lists of items, one by one.
LEMMA ItemListTyped ==
    ASSUME NEW f
    PROVE  f \in ItemLists <=> f \in [DOMAIN f -> Item] /\ DOMAIN f \in SUBSET Positions
<1>1. ASSUME f \in ItemLists PROVE f \in [DOMAIN f -> Item] /\ DOMAIN f \in SUBSET Positions
  <2>1. PICK changed \in SUBSET Positions : f \in [changed -> Item]
    BY <1>1 DEF ItemLists, Item, Tiles
  <2>2. QED
    BY <2>1
<1>2. ASSUME f \in [DOMAIN f -> Item], DOMAIN f \in SUBSET Positions PROVE f \in ItemLists
  BY <1>2 DEF ItemLists, Item, Tiles
<1>3. QED
  BY <1>1, <1>2

\* What is empty.
LEMMA NothingTyped ==
    {} \in SUBSET Positions /\ <<>> \in Seq(Revisions) /\ NoMemento \in Nat /\ Len(<<>>) = 0
BY DEF NoMemento

\* The fields of a manager.
LEMMA ManagerFields ==
    ASSUME NEW m \in Managers
    PROVE  /\ m.m_hashTable \in [Positions -> Tiles] /\ m.m_headsHashTable \in [Positions -> Tiles]
           /\ m.m_defaultPixel \in DefaultPixels /\ m.m_index \in SUBSET Positions
           /\ m.m_revisions \in Seq(Revisions) /\ m.m_cancelledRevisions \in Seq(Revisions)
           /\ m.m_currentMemento \in Nat
BY DEF Managers, Contents, Tiles

\* commit() makes a revision of the index.
revisionOf(m) ==
    [memento |-> m.m_currentMemento,
     items |-> [p \in m.m_index |-> [now |-> m.m_hashTable[p], before |-> m.m_headsHashTable[p]]]]

headsAfter(m) ==
    [p \in Positions |-> IF p \in m.m_index THEN m.m_hashTable[p] ELSE m.m_headsHashTable[p]]

\* What commit() stores is a revision, and the heads after it are contents.
LEMMA RevisionTyped ==
    ASSUME NEW m \in Managers
    PROVE  revisionOf(m) \in Revisions /\ headsAfter(m) \in Contents
<1>1. /\ m.m_hashTable \in [Positions -> Tiles] /\ m.m_headsHashTable \in [Positions -> Tiles]
      /\ m.m_index \in SUBSET Positions /\ m.m_currentMemento \in Nat
  BY ManagerFields
<1>2. PICK items : items = [p \in m.m_index |-> [now |-> m.m_hashTable[p], before |-> m.m_headsHashTable[p]]]
  OBVIOUS
<1>3. DOMAIN items = m.m_index /\ \A p \in m.m_index : items[p] \in Item
  BY <1>1, <1>2 DEF Item
<1>4. items \in ItemLists
  BY <1>1, <1>2, <1>3, ItemListTyped
<1>5. QED
  BY <1>1, <1>2, <1>4 DEF revisionOf, headsAfter, Revisions, Contents, Tiles

\* What commit() leaves.
LEMMA Committed ==
    ASSUME NEW m \in Managers, NEW c, c = commit(m)
    PROVE  /\ c \in Managers
           /\ m.m_index = {} /\ m.m_currentMemento = NoMemento => c = m
           /\ m.m_index # {} \/ m.m_currentMemento # NoMemento =>
                /\ c.m_revisions = Append(m.m_revisions, revisionOf(m))
                /\ c.m_headsHashTable = headsAfter(m)
           /\ c.m_index = {} /\ c.m_currentMemento = NoMemento
           /\ c.m_hashTable = m.m_hashTable /\ c.m_defaultPixel = m.m_defaultPixel
           /\ c.m_cancelledRevisions = m.m_cancelledRevisions
<1>1. CASE m.m_index = {} /\ m.m_currentMemento = NoMemento
  BY <1>1 DEF commit
<1>2. CASE m.m_index # {} \/ m.m_currentMemento # NoMemento
  <2>1. PICK list : list = Append(m.m_revisions, revisionOf(m))
    OBVIOUS
  <2>2. PICK heads : heads = headsAfter(m)
    OBVIOUS
  <2>3. c = [m EXCEPT !.m_revisions = list, !.m_headsHashTable = heads, !.m_index = {},
                      !.m_currentMemento = NoMemento]
    BY <1>2, <2>1, <2>2 DEF commit, revisionOf, headsAfter
  <2>4. m.m_revisions \in Seq(Revisions) /\ revisionOf(m) \in Revisions /\ heads \in Contents
    BY <2>2, RevisionTyped DEF Managers
  <2>5. list \in Seq(Revisions)
    BY <2>1, <2>4
  <2>6. c \in Managers
    BY <2>3, <2>4, <2>5, NothingTyped DEF Managers
  <2>7. /\ c.m_revisions = list /\ c.m_headsHashTable = heads /\ c.m_index = {}
        /\ c.m_currentMemento = NoMemento
        /\ c.m_hashTable = m.m_hashTable /\ c.m_defaultPixel = m.m_defaultPixel
        /\ c.m_cancelledRevisions = m.m_cancelledRevisions
    BY <2>3 DEF Managers
  <2>8. QED
    BY <1>2, <2>1, <2>2, <2>6, <2>7
<1>3. QED
  BY <1>1, <1>2

\* getMemento() forgets what could be redone, and opens a revision.
opensTo(m, memento, g) ==
    /\ m.m_index = {} /\ m.m_currentMemento = NoMemento =>
         /\ g.m_revisions = m.m_revisions
         /\ g.m_headsHashTable = m.m_headsHashTable
    /\ m.m_index # {} \/ m.m_currentMemento # NoMemento =>
         /\ g.m_revisions = Append(m.m_revisions, revisionOf(m))
         /\ g.m_headsHashTable = headsAfter(m)
    /\ g.m_index = {} /\ g.m_currentMemento = memento
    /\ g.m_hashTable = m.m_hashTable /\ g.m_defaultPixel = m.m_defaultPixel
    /\ g.m_cancelledRevisions = <<>>

\* getMemento() leaves a manager and does what opensTo says.
LEMMA Opened ==
    ASSUME NEW m \in Managers, NEW memento \in Nat, NEW g, g = getMemento(m, memento)
    PROVE  g \in Managers /\ opensTo(m, memento, g)
<1>1. PICK n : n = [m EXCEPT !.m_cancelledRevisions = <<>>]
  OBVIOUS
<1>2. /\ n \in Managers /\ n.m_revisions = m.m_revisions /\ n.m_headsHashTable = m.m_headsHashTable
      /\ n.m_hashTable = m.m_hashTable /\ n.m_defaultPixel = m.m_defaultPixel
      /\ n.m_index = m.m_index /\ n.m_currentMemento = m.m_currentMemento
      /\ n.m_cancelledRevisions = <<>>
  BY <1>1, NothingTyped DEF Managers
<1>3. revisionOf(n) = revisionOf(m) /\ headsAfter(n) = headsAfter(m)
  BY <1>2 DEF revisionOf, headsAfter
<1>4. PICK c : c = commit(n)
  OBVIOUS
<1>5. g = [c EXCEPT !.m_currentMemento = memento]
  BY <1>1, <1>4 DEF getMemento
<1>6. c \in Managers
  BY <1>2, <1>4, Committed
<1>7. /\ g \in Managers /\ g.m_revisions = c.m_revisions /\ g.m_headsHashTable = c.m_headsHashTable
      /\ g.m_hashTable = c.m_hashTable /\ g.m_defaultPixel = c.m_defaultPixel
      /\ g.m_index = c.m_index /\ g.m_currentMemento = memento
      /\ g.m_cancelledRevisions = c.m_cancelledRevisions
  BY <1>5, <1>6 DEF Managers
<1>8. opensTo(m, memento, g)
  BY <1>2, <1>3, <1>4, <1>7, Committed DEF opensTo
<1>9. QED
  BY <1>7, <1>8

\* What rollback() and rollforward() do to the tiles.
LEMMA ReplacedTyped ==
    ASSUME NEW contents \in Contents, NEW items \in ItemLists, NEW from, NEW to,
           <<from, to>> \in {<<"now", "before">>, <<"before", "now">>}
    PROVE  replaced(contents, items, from, to) \in Contents
<1>1. DOMAIN items \in SUBSET Positions /\ \A p \in DOMAIN items : items[p].now \in Tiles /\ items[p].before \in Tiles
  BY ItemListTyped DEF Item
<1>2. \A p \in DOMAIN items : items[p][to] \in Tiles
  BY <1>1
<1>3. QED
  BY <1>2 DEF replaced, Contents, Tiles

\* The parts of a list of revisions.
LEMMA RevisionLists ==
    ASSUME NEW R \in Seq(Revisions)
    PROVE  /\ Len(R) \in Nat /\ DOMAIN R = 1 .. Len(R)
           /\ \A k \in 1 .. Len(R) : R[k] \in Revisions
           /\ \A r \in Revisions :
                /\ Append(R, r) \in Seq(Revisions) /\ Len(Append(R, r)) = Len(R) + 1
                /\ Append(R, r)[Len(R) + 1] = r
                /\ \A k \in 1 .. Len(R) : Append(R, r)[k] = R[k]
                /\ <<r>> \o R \in Seq(Revisions) /\ Len(<<r>> \o R) = Len(R) + 1
                /\ (<<r>> \o R)[1] = r
                /\ \A k \in 1 .. Len(R) : (<<r>> \o R)[k + 1] = R[k]
           /\ R # <<>> =>
                /\ Len(R) > 0 /\ Last(R) = R[Len(R)] /\ Head(R) = R[1]
                /\ Front(R) \in Seq(Revisions) /\ Len(Front(R)) = Len(R) - 1
                /\ \A k \in 1 .. (Len(R) - 1) : Front(R)[k] = R[k]
                /\ Tail(R) \in Seq(Revisions) /\ Len(Tail(R)) = Len(R) - 1
                /\ \A k \in 1 .. (Len(R) - 1) : Tail(R)[k] = R[k + 1]
<1>1. /\ Len(R) \in Nat /\ DOMAIN R = 1 .. Len(R)
      /\ \A k \in 1 .. Len(R) : R[k] \in Revisions
  OBVIOUS
<1>2. ASSUME NEW r \in Revisions
      PROVE  /\ Append(R, r) \in Seq(Revisions) /\ Len(Append(R, r)) = Len(R) + 1
             /\ Append(R, r)[Len(R) + 1] = r
             /\ \A k \in 1 .. Len(R) : Append(R, r)[k] = R[k]
  OBVIOUS
<1>3. ASSUME NEW r \in Revisions
      PROVE  /\ <<r>> \o R \in Seq(Revisions) /\ Len(<<r>> \o R) = Len(R) + 1
             /\ (<<r>> \o R)[1] = r
             /\ \A k \in 1 .. Len(R) : (<<r>> \o R)[k + 1] = R[k]
  <2>1. <<r>> \in Seq(Revisions) /\ Len(<<r>>) = 1
    OBVIOUS
  <2>2. QED
    BY <2>1
<1>4. ASSUME R # <<>>
      PROVE  /\ Len(R) > 0 /\ Last(R) = R[Len(R)] /\ Head(R) = R[1]
             /\ Front(R) \in Seq(Revisions) /\ Len(Front(R)) = Len(R) - 1
             /\ \A k \in 1 .. (Len(R) - 1) : Front(R)[k] = R[k]
  <2>1. Len(R) > 0 /\ Len(R) - 1 \in Nat
    BY <1>4
  <2>2. Head(R) = R[1] /\ Last(R) = R[Len(R)]
    BY <1>4 DEF Last
  <2>3. PICK n : n = Len(R) - 1
    OBVIOUS
  <2>4. 1 \in 1 .. (Len(R) + 1) /\ n \in (1 - 1) .. Len(R) /\ n \in Nat
    BY <2>1, <2>3
  <2>5. /\ SubSeq(R, 1, n) \in Seq(Revisions) /\ Len(SubSeq(R, 1, n)) = n - 1 + 1
        /\ \A k \in 1 .. (n - 1 + 1) : SubSeq(R, 1, n)[k] = R[1 + k - 1]
    BY <2>4, CutOut
  <2>6. n - 1 + 1 = n /\ \A k \in 1 .. n : 1 + k - 1 = k
    BY <2>4
  <2>7. /\ SubSeq(R, 1, n) \in Seq(Revisions) /\ Len(SubSeq(R, 1, n)) = n
        /\ \A k \in 1 .. n : SubSeq(R, 1, n)[k] = R[k]
    BY <2>5, <2>6
  <2>8. QED
    BY <2>1, <2>2, <2>3, <2>7 DEF Front
<1>5. ASSUME R # <<>>
      PROVE  /\ Tail(R) \in Seq(Revisions) /\ Len(Tail(R)) = Len(R) - 1
             /\ \A k \in 1 .. (Len(R) - 1) : Tail(R)[k] = R[k + 1]
  BY <1>5
<1>6. QED
  BY <1>1, <1>2, <1>3, <1>4, <1>5

\* The tiles and the heads after a revision is carried out.
headsWith(heads, items, to) ==
    [p \in Positions |-> IF p \in DOMAIN items THEN items[p][to] ELSE heads[p]]

\* The contents that a revision leaves are contents.
LEMMA HeadsTyped ==
    ASSUME NEW heads \in Contents, NEW items \in ItemLists, NEW to \in {"now", "before"}
    PROVE  headsWith(heads, items, to) \in Contents
<1>1. DOMAIN items \in SUBSET Positions /\ \A p \in DOMAIN items : items[p].now \in Tiles /\ items[p].before \in Tiles
  BY ItemListTyped DEF Item
<1>2. \A p \in DOMAIN items : items[p][to] \in Tiles
  BY <1>1
<1>3. QED
  BY <1>2 DEF headsWith, Contents, Tiles

\* What rollback() leaves.
LEMMA RolledBack ==
    ASSUME NEW m \in Managers, NEW c, c = commit(m), NEW r, r = rollback(m)
    PROVE  /\ r \in Managers
           /\ c.m_revisions = <<>> => r = c
           /\ c.m_revisions # <<>> =>
                LET changeList == c.m_revisions[Len(c.m_revisions)] IN
                /\ r.m_hashTable = replaced(c.m_hashTable, changeList.items, "now", "before")
                /\ r.m_headsHashTable = headsWith(c.m_headsHashTable, changeList.items, "before")
                /\ r.m_revisions = Front(c.m_revisions)
                /\ r.m_cancelledRevisions = <<changeList>> \o c.m_cancelledRevisions
                /\ r.m_currentMemento = NoMemento
                /\ r.m_index = {} /\ r.m_defaultPixel = c.m_defaultPixel
<1>1. c \in Managers /\ c.m_index = {}
  BY Committed
<1>2. CASE c.m_revisions = <<>>
  <2>1. r = c
    BY <1>2 DEF rollback
  <2>2. QED
    BY <1>1, <1>2, <2>1
<1>3. CASE c.m_revisions # <<>>
  <2>1. PICK chg : chg = Last(c.m_revisions)
    OBVIOUS
  <2>2. chg = c.m_revisions[Len(c.m_revisions)] /\ chg \in Revisions
        /\ Front(c.m_revisions) \in Seq(Revisions)
    <3>1. c.m_revisions \in Seq(Revisions)
      BY <1>1, ManagerFields
    <3>2. /\ Len(c.m_revisions) > 0 /\ Len(c.m_revisions) \in Nat
          /\ Last(c.m_revisions) = c.m_revisions[Len(c.m_revisions)]
          /\ Front(c.m_revisions) \in Seq(Revisions)
          /\ \A k \in 1 .. Len(c.m_revisions) : c.m_revisions[k] \in Revisions
      BY <1>3, <3>1, RevisionLists
    <3>3. Len(c.m_revisions) \in 1 .. Len(c.m_revisions)
      BY <3>2
    <3>4. QED
      BY <2>1, <3>2, <3>3
  <2>3. PICK hash : hash = replaced(c.m_hashTable, chg.items, "now", "before")
    OBVIOUS
  <2>4. PICK heads : heads = headsWith(c.m_headsHashTable, chg.items, "before")
    OBVIOUS
  <2>5. PICK front : front = Front(c.m_revisions)
    OBVIOUS
  <2>6. PICK undoneFirst : undoneFirst = <<chg>> \o c.m_cancelledRevisions
    OBVIOUS
  <2>7. r = [c EXCEPT !.m_hashTable = hash, !.m_headsHashTable = heads, !.m_revisions = front,
                      !.m_cancelledRevisions = undoneFirst, !.m_currentMemento = NoMemento]
    BY <1>3, <2>1, <2>3, <2>4, <2>5, <2>6 DEF rollback, headsWith
  <2>8. chg.items \in ItemLists
    BY <2>2 DEF Revisions
  <2>9. c.m_hashTable \in Contents /\ c.m_headsHashTable \in Contents
        /\ c.m_cancelledRevisions \in Seq(Revisions)
    BY <1>1 DEF Managers
  <2>10. hash \in Contents
    BY <2>3, <2>8, <2>9, ReplacedTyped
  <2>11. heads \in Contents
    BY <2>4, <2>8, <2>9, HeadsTyped
  <2>12. undoneFirst \in Seq(Revisions)
    BY <2>2, <2>6, <2>9, RevisionLists
  <2>13. r \in Managers
    BY <1>1, <2>2, <2>5, <2>7, <2>10, <2>11, <2>12, NothingTyped DEF Managers
  <2>14. /\ r.m_hashTable = hash /\ r.m_headsHashTable = heads /\ r.m_revisions = front
         /\ r.m_cancelledRevisions = undoneFirst /\ r.m_currentMemento = NoMemento
         /\ r.m_index = c.m_index /\ r.m_defaultPixel = c.m_defaultPixel
    BY <1>1, <2>7 DEF Managers
  <2>15. QED
    BY <1>1, <1>3, <2>2, <2>3, <2>4, <2>5, <2>6, <2>13, <2>14
<1>4. QED
  BY <1>2, <1>3

\* What rollforward() leaves, before it commits again.
LEMMA RolledForward ==
    ASSUME NEW m \in Managers, NEW c, c = commit(m), NEW r, r = rollforward(m)
    PROVE  /\ r \in Managers
           /\ c.m_cancelledRevisions = <<>> => r = c
           /\ c.m_cancelledRevisions # <<>> =>
                LET changeList == c.m_cancelledRevisions[1] IN
                \E n \in Managers :
                  /\ r = commit(n)
                  /\ n.m_hashTable = replaced(c.m_hashTable, changeList.items, "before", "now")
                  /\ n.m_index = DOMAIN changeList.items
                  /\ n.m_cancelledRevisions = Tail(c.m_cancelledRevisions)
                  /\ n.m_currentMemento = changeList.memento
                  /\ n.m_headsHashTable = c.m_headsHashTable
                  /\ n.m_revisions = c.m_revisions /\ n.m_defaultPixel = c.m_defaultPixel
<1>1. c \in Managers /\ c.m_index = {}
  BY Committed
<1>2. CASE c.m_cancelledRevisions = <<>>
  <2>1. r = c
    BY <1>2 DEF rollforward
  <2>2. QED
    BY <1>1, <1>2, <2>1
<1>3. CASE c.m_cancelledRevisions # <<>>
  <2>1. PICK chg : chg = Head(c.m_cancelledRevisions)
    OBVIOUS
  <2>2. chg = c.m_cancelledRevisions[1] /\ chg \in Revisions
        /\ Tail(c.m_cancelledRevisions) \in Seq(Revisions)
    <3>1. c.m_cancelledRevisions \in Seq(Revisions)
      BY <1>1, ManagerFields
    <3>2. /\ Len(c.m_cancelledRevisions) > 0 /\ Len(c.m_cancelledRevisions) \in Nat
          /\ Head(c.m_cancelledRevisions) = c.m_cancelledRevisions[1]
          /\ Tail(c.m_cancelledRevisions) \in Seq(Revisions)
          /\ \A k \in 1 .. Len(c.m_cancelledRevisions) : c.m_cancelledRevisions[k] \in Revisions
      BY <1>3, <3>1, RevisionLists
    <3>3. 1 \in 1 .. Len(c.m_cancelledRevisions)
      BY <3>2
    <3>4. QED
      BY <2>1, <3>2, <3>3
  <2>3. PICK hash : hash = replaced(c.m_hashTable, chg.items, "before", "now")
    OBVIOUS
  <2>4. PICK touched : touched = DOMAIN chg.items
    OBVIOUS
  <2>5. PICK tail : tail = Tail(c.m_cancelledRevisions)
    OBVIOUS
  <2>6. PICK n : n = [c EXCEPT !.m_hashTable = hash, !.m_index = touched,
                              !.m_cancelledRevisions = tail, !.m_currentMemento = chg.memento]
    OBVIOUS
  <2>7. r = commit(n)
    BY <1>3, <2>1, <2>3, <2>4, <2>5, <2>6 DEF rollforward
  <2>8. chg.items \in ItemLists /\ chg.memento \in Nat
    BY <2>2 DEF Revisions
  <2>9. touched \in SUBSET Positions
    BY <2>4, <2>8, ItemListTyped
  <2>10. hash \in Contents
    BY <1>1, <2>3, <2>8, ReplacedTyped DEF Managers
  <2>11. n \in Managers
    BY <1>1, <2>2, <2>5, <2>6, <2>8, <2>9, <2>10 DEF Managers
  <2>12. /\ n.m_hashTable = hash /\ n.m_index = touched /\ n.m_cancelledRevisions = tail
         /\ n.m_currentMemento = chg.memento /\ n.m_headsHashTable = c.m_headsHashTable
         /\ n.m_revisions = c.m_revisions /\ n.m_defaultPixel = c.m_defaultPixel
    BY <1>1, <2>6 DEF Managers
  <2>13. r \in Managers
    BY <2>7, <2>11, Committed
  <2>14. QED
    BY <1>3, <2>2, <2>3, <2>4, <2>5, <2>7, <2>11, <2>12, <2>13
<1>4. QED
  BY <1>2, <1>3

\* The oldest revision keeps what it says of the tiles, not of those before it.
LEMMA Rooted ==
    ASSUME NEW r \in Revisions, NEW s, s = resetRevisionHistory(r)
    PROVE  /\ s \in Revisions /\ s.memento = r.memento
           /\ DOMAIN s.items = DOMAIN r.items
           /\ \A p \in DOMAIN r.items : s.items[p].now = r.items[p].now
<1>1. r.memento \in Nat /\ r.items \in ItemLists
  BY DEF Revisions
<1>2. PICK items : items = [p \in DOMAIN r.items |-> [r.items[p] EXCEPT !.before = NoTile]]
  OBVIOUS
<1>3. s = [r EXCEPT !.items = items]
  BY <1>2 DEF resetRevisionHistory
<1>4. /\ r.items \in [DOMAIN r.items -> Item] /\ DOMAIN r.items \in SUBSET Positions
  BY <1>1, ItemListTyped
<1>5. DOMAIN items = DOMAIN r.items
  BY <1>2
<1>6. \A p \in DOMAIN r.items : items[p] \in Item /\ items[p].now = r.items[p].now
  BY <1>2, <1>4 DEF Item, Tiles
<1>7. items \in [DOMAIN items -> Item]
  BY <1>2, <1>5, <1>6
<1>8. items \in ItemLists
  BY <1>4, <1>5, <1>7, ItemListTyped
<1>9. QED
  BY <1>3, <1>5, <1>6, <1>8 DEF Revisions

\* What purging comes to, when the device knows the transaction.
purgedTo(old, c, r) ==
    /\ r \in Managers
    /\ (\E k \in 1 .. Len(c.m_revisions) : c.m_revisions[k].memento = old) =>
         \E n \in 1 .. Len(c.m_revisions) :
           /\ c.m_revisions[n].memento = old
           /\ \A k \in 1 .. Len(c.m_revisions) : c.m_revisions[k].memento = old => n <= k
           /\ Len(r.m_revisions) = Len(c.m_revisions) - n + 1
           /\ r.m_revisions[1] = resetRevisionHistory(c.m_revisions[n])
           /\ \A k \in 2 .. (Len(c.m_revisions) - n + 1) :
                 r.m_revisions[k] = c.m_revisions[n + k - 1]
           /\ r.m_hashTable = c.m_hashTable /\ r.m_headsHashTable = c.m_headsHashTable
           /\ r.m_cancelledRevisions = c.m_cancelledRevisions
           /\ r.m_currentMemento = c.m_currentMemento
           /\ r.m_index = c.m_index /\ r.m_defaultPixel = c.m_defaultPixel

\* What purgeHistory() leaves: from the revision of this memento on, all.
LEMMA Purged ==
    ASSUME NEW m \in Managers, NEW old,
           NEW c, c = IF m.m_currentMemento = old THEN commit(m) ELSE m,
           NEW r, r = purgeHistory(m, old)
    PROVE  /\ r \in Managers /\ c \in Managers
           /\ (\A k \in 1 .. Len(c.m_revisions) : c.m_revisions[k].memento # old) => r = c
           /\ purgedTo(old, c, r)
<1>1. c \in Managers
  BY Committed
<1>2. c.m_revisions \in Seq(Revisions)
  BY <1>1, ManagerFields
<1>3. PICK R : R = c.m_revisions
  OBVIOUS
<1>4. /\ Len(R) \in Nat /\ DOMAIN R = 1 .. Len(R)
      /\ \A k \in 1 .. Len(R) : R[k] \in Revisions
  BY <1>2, <1>3, RevisionLists
<1>5. PICK index : index = findRevisionByMemento(c, old)
  OBVIOUS
<1>6. r = IF index = 0 THEN c
          ELSE [c EXCEPT !.m_revisions =
                   <<resetRevisionHistory(@[index])>> \o SubSeq(@, index + 1, Len(@))]
  BY <1>5 DEF purgeHistory
<1> DEFINE I == {i \in 1 .. Len(R) : R[i].memento = old}
<1>7. index = IF I # {} THEN Min(I) ELSE 0
  BY <1>3, <1>5 DEF findRevisionByMemento, SelectInSeq
<1>8. CASE \A k \in 1 .. Len(R) : R[k].memento # old
  <2>1. index = 0
    BY <1>7, <1>8
  <2>2. r = c
    BY <1>6, <2>1
  <2>3. QED
    BY <1>1, <1>3, <1>8, <2>2 DEF purgedTo
<1>9. CASE \E k \in 1 .. Len(R) : R[k].memento = old
  <2>1. I # {} /\ I \subseteq Nat /\ \A i \in I : i \in 1 .. Len(R) /\ R[i].memento = old
    BY <1>9
  <2>2. \A k \in 1 .. Len(R) : R[k].memento = old => k \in I
    OBVIOUS
  <2>3. index = Min(I)
    BY <1>7, <2>1
  <2> HIDE DEF I
  <2>4. PICK n \in I : \A k \in I : n <= k
    BY <2>1, Least
  <2>5. index \in I /\ \A k \in I : index <= k
    BY <2>3, <2>4 DEF Min
  <2>6. index \in 1 .. Len(R) /\ R[index].memento = old /\ index # 0
        /\ \A k \in 1 .. Len(R) : R[k].memento = old => index <= k
    <3>1. index \in 1 .. Len(R) /\ R[index].memento = old
      BY <2>1, <2>5
    <3>2. index # 0
      BY <1>4, <3>1
    <3>3. \A k \in 1 .. Len(R) : R[k].memento = old => index <= k
      BY <2>2, <2>5
    <3>4. QED
      BY <3>1, <3>2, <3>3
  <2>7. PICK root : root = resetRevisionHistory(R[index])
    OBVIOUS
  <2>8. PICK last : last = Len(R)
    OBVIOUS
  <2>9. PICK rest : rest = SubSeq(R, index + 1, last)
    OBVIOUS
  <2>10. last \in Nat /\ index \in Nat /\ index <= last /\ index >= 1
    BY <1>4, <2>6, <2>8
  <2>11. PICK next : next = index + 1
    OBVIOUS
  <2>12. next \in 1 .. (Len(R) + 1) /\ last \in (next - 1) .. Len(R) /\ R \in Seq(Revisions)
    BY <1>2, <1>3, <2>8, <2>10, <2>11
  <2>13. /\ rest \in Seq(Revisions) /\ Len(rest) = last - next + 1
         /\ \A k \in 1 .. (last - next + 1) : rest[k] = R[next + k - 1]
    BY <2>9, <2>11, <2>12, CutOut
  <2>14. last - next + 1 = last - index /\ \A k \in Nat : next + k - 1 = index + k
    BY <2>10, <2>11
  <2>15. root \in Revisions
    BY <1>4, <2>6, <2>7, Rooted
  <2>16. PICK list : list = <<root>> \o rest
    OBVIOUS
  <2>17. /\ list \in Seq(Revisions) /\ Len(list) = last - index + 1 /\ list[1] = root
         /\ \A k \in 1 .. (last - index) : list[k + 1] = R[index + k]
    <3>1. /\ list \in Seq(Revisions) /\ Len(list) = Len(rest) + 1 /\ list[1] = root
          /\ \A k \in 1 .. Len(rest) : list[k + 1] = rest[k]
      BY <2>13, <2>15, <2>16, RevisionLists
    <3>2. Len(rest) = last - index
      BY <2>13, <2>14
    <3>3. \A k \in 1 .. (last - index) : rest[k] = R[index + k]
      BY <2>10, <2>13, <2>14
    <3>4. QED
      BY <3>1, <3>2, <3>3
  <2>18. r = [c EXCEPT !.m_revisions = list]
    BY <1>3, <1>6, <2>6, <2>7, <2>8, <2>9, <2>16
  <2>19. /\ r \in Managers /\ r.m_revisions = list
         /\ r.m_hashTable = c.m_hashTable /\ r.m_headsHashTable = c.m_headsHashTable
         /\ r.m_cancelledRevisions = c.m_cancelledRevisions
         /\ r.m_currentMemento = c.m_currentMemento
         /\ r.m_index = c.m_index /\ r.m_defaultPixel = c.m_defaultPixel
    BY <1>1, <2>17, <2>18 DEF Managers
  <2>20. ASSUME NEW k \in 2 .. (last - index + 1) PROVE list[k] = R[index + k - 1]
    <3>1. k - 1 \in 1 .. (last - index) /\ (k - 1) + 1 = k /\ index + (k - 1) = index + k - 1
      BY <2>10
    <3>2. list[(k - 1) + 1] = R[index + (k - 1)]
      BY <2>17, <3>1
    <3>3. QED
      BY <3>1, <3>2
  <2>21. QED
    BY SMTT(30), <1>1, <1>3, <1>9, <2>6, <2>7, <2>8, <2>17, <2>19, <2>20 DEF purgedTo
<1>10. QED
  BY <1>8, <1>9

-----------------------------------------------------------------------------
(***************************************************************************)
(* Commands are carried out one after the other.                           *)
(***************************************************************************)

\* What is so at the beginning, and after a step if before it, is always so.
LEMMA StepByStep ==
    ASSUME NEW N \in Nat, NEW T, 0 \in T, \A n \in 1 .. N : n - 1 \in T => n \in T
    PROVE  \A n \in 0 .. N : n \in T
<1> DEFINE Bad == {n \in 0 .. N : n \notin T}
<1>1. SUFFICES Bad = {}
  OBVIOUS
<1>2. SUFFICES ASSUME Bad # {} PROVE FALSE
  OBVIOUS
<1>3. Bad \subseteq Nat /\ \A n \in Bad : n \in 0 .. N /\ n \notin T
  OBVIOUS
<1>4. \A n \in 0 .. N : n \notin Bad => n \in T
  OBVIOUS
<1> HIDE DEF Bad
<1>5. PICK n \in Bad : \A k \in Bad : n <= k
  BY <1>2, <1>3, Least
<1>6. n \in 1 .. N /\ n - 1 \in 0 .. N
  BY <1>3, <1>5
<1>7. n - 1 \notin Bad
  <2>1. n \in Nat /\ ~(n <= n - 1)
    BY <1>6
  <2>2. QED
    BY <1>5, <2>1
<1>8. QED
  BY <1>3, <1>4, <1>5, <1>6, <1>7

\* The transactions of a command, one by one.
LEMMA Carrying ==
    ASSUME NEW kind, NEW managers, NEW ts, Len(ts) \in Nat
    PROVE  /\ carrying(kind, managers, ts)[0] = managers
           /\ \A n \in 1 .. Len(ts) :
                carrying(kind, managers, ts)[n] =
                    carriedOut(kind, carrying(kind, managers, ts)[n - 1], ts[n])
<1>0. PICK N : N = Len(ts) /\ N \in Nat
  OBVIOUS
<1> DEFINE Visit(x, j) == carriedOut(kind, x, ts[j])
           Solves(f, n) == f = [j \in 0 .. n |-> IF j = 0 THEN managers ELSE Visit(f[j - 1], j)]
           T == {n \in Nat : \E f : Solves(f, n)}
<1> HIDE DEF Visit
<1>1. 0 \in T
  <2>1. Solves([j \in 0 .. 0 |-> managers], 0)
    OBVIOUS
  <2>2. QED
    BY <2>1
<1>2. ASSUME NEW n \in 1 .. N, n - 1 \in T PROVE n \in T
  <2>1. n \in Nat /\ n - 1 \in Nat /\ n # 0
    BY <1>0
  <2>2. PICK g : Solves(g, n - 1)
    BY <1>2
  <2> DEFINE f == [j \in 0 .. n |-> IF j = n THEN Visit(g[n - 1], n) ELSE g[j]]
  <2>3. \A j \in 0 .. n : f[j] = IF j = 0 THEN managers ELSE Visit(f[j - 1], j)
    <3>1. ASSUME NEW j \in 0 .. n, j # n
          PROVE  f[j] = IF j = 0 THEN managers ELSE Visit(f[j - 1], j)
      <4>1. j \in 0 .. (n - 1) /\ (j # 0 => j - 1 \in 0 .. n /\ j - 1 # n)
        BY <2>1, <3>1
      <4>2. f[j] = g[j] /\ (j # 0 => f[j - 1] = g[j - 1])
        BY <3>1, <4>1
      <4>3. QED
        BY <2>2, <4>1, <4>2
    <3>2. n \in 0 .. n /\ n - 1 \in 0 .. n /\ n - 1 # n
      BY <2>1
    <3>3. f[n] = Visit(f[n - 1], n)
      BY <3>2
    <3>4. QED
      BY <2>1, <3>1, <3>3
  <2>4. Solves(f, n)
    BY <2>3
  <2>5. QED
    BY <2>1, <2>4
<1>3. N \in T
  <2> HIDE DEF T
  <2>1. \A n \in 0 .. N : n \in T
    BY <1>0, <1>1, <1>2, StepByStep
  <2>2. QED
    BY <1>0, <2>1
<1> DEFINE after == CHOOSE f : Solves(f, N)
<1>4. Solves(after, N)
  BY <1>3
<1>5. carrying(kind, managers, ts) = after
  BY <1>0 DEF carrying, Visit
<1> HIDE DEF after
<1>6. after[0] = managers /\ \A n \in 1 .. N : after[n] = Visit(after[n - 1], n)
  BY <1>0, <1>4
<1>7. QED
  BY <1>0, <1>5, <1>6 DEF Visit

\* The commands of a list, one by one.
LEMMA Executing ==
    ASSUME NEW kind, NEW done, NEW commands, Len(commands) \in Nat
    PROVE  /\ executing(kind, done, commands)[0] = done
           /\ \A n \in 1 .. Len(commands) :
                executing(kind, done, commands)[n] =
                    executed(kind, executing(kind, done, commands)[n - 1], commands[n])
<1>0. PICK N : N = Len(commands) /\ N \in Nat
  OBVIOUS
<1> DEFINE Visit(x, j) == executed(kind, x, commands[j])
           Solves(f, n) == f = [j \in 0 .. n |-> IF j = 0 THEN done ELSE Visit(f[j - 1], j)]
           T == {n \in Nat : \E f : Solves(f, n)}
<1> HIDE DEF Visit
<1>1. 0 \in T
  <2>1. Solves([j \in 0 .. 0 |-> done], 0)
    OBVIOUS
  <2>2. QED
    BY <2>1
<1>2. ASSUME NEW n \in 1 .. N, n - 1 \in T PROVE n \in T
  <2>1. n \in Nat /\ n - 1 \in Nat /\ n # 0
    BY <1>0
  <2>2. PICK g : Solves(g, n - 1)
    BY <1>2
  <2> DEFINE f == [j \in 0 .. n |-> IF j = n THEN Visit(g[n - 1], n) ELSE g[j]]
  <2>3. \A j \in 0 .. n : f[j] = IF j = 0 THEN done ELSE Visit(f[j - 1], j)
    <3>1. ASSUME NEW j \in 0 .. n, j # n
          PROVE  f[j] = IF j = 0 THEN done ELSE Visit(f[j - 1], j)
      <4>1. j \in 0 .. (n - 1) /\ (j # 0 => j - 1 \in 0 .. n /\ j - 1 # n)
        BY <2>1, <3>1
      <4>2. f[j] = g[j] /\ (j # 0 => f[j - 1] = g[j - 1])
        BY <3>1, <4>1
      <4>3. QED
        BY <2>2, <4>1, <4>2
    <3>2. n \in 0 .. n /\ n - 1 \in 0 .. n /\ n - 1 # n
      BY <2>1
    <3>3. f[n] = Visit(f[n - 1], n)
      BY <3>2
    <3>4. QED
      BY <2>1, <3>1, <3>3
  <2>4. Solves(f, n)
    BY <2>3
  <2>5. QED
    BY <2>1, <2>4
<1>3. N \in T
  <2> HIDE DEF T
  <2>1. \A n \in 0 .. N : n \in T
    BY <1>0, <1>1, <1>2, StepByStep
  <2>2. QED
    BY <1>0, <2>1
<1> DEFINE after == CHOOSE f : Solves(f, N)
<1>4. Solves(after, N)
  BY <1>3
<1>5. executing(kind, done, commands) = after
  BY <1>0 DEF executing, Visit
<1> HIDE DEF after
<1>6. after[0] = done /\ \A n \in 1 .. N : after[n] = Visit(after[n - 1], n)
  BY <1>0, <1>4
<1>7. QED
  BY <1>0, <1>5, <1>6 DEF Visit

\* A stroke of the queue that paints, or that carries out a transaction again.
Jobs == [kind : {"undo", "redo"}, transaction : Transactions]
Strokes ==
    [kind : {"paint"}, device : Devices, state : {"open", "ended", "cancelled"}] \cup Jobs

\* Another default pixel.
LEMMA PixelSet ==
    ASSUME NEW m \in Managers, NEW x \in DefaultPixels, NEW r, r = setDefaultPixel(m, x)
    PROVE  /\ r \in Managers /\ r.m_defaultPixel = x
           /\ r.m_hashTable = m.m_hashTable /\ r.m_headsHashTable = m.m_headsHashTable
           /\ r.m_index = m.m_index /\ r.m_currentMemento = m.m_currentMemento
           /\ r.m_revisions = m.m_revisions /\ r.m_cancelledRevisions = m.m_cancelledRevisions
BY DEF setDefaultPixel, Managers

\* The fields of a transaction.
LEMMA TransactionFields ==
    ASSUME NEW t \in Transactions
    PROVE  /\ t.device \in Devices /\ t.memento \in 1 .. MaxTransactions /\ t.memento \in Nat
           /\ t.oldDefaultPixel \in DefaultPixels /\ t.newDefaultPixel \in DefaultPixels
<1>1. t.memento \in 1 .. MaxTransactions
  BY DEF Transactions
<1>2. MaxTransactions \in Nat
  BY UndoAssumption
<1>3. QED
  BY <1>1, <1>2 DEF Transactions

\* One transaction is carried out on its device.
LEMMA CarriedOut ==
    ASSUME NEW kind, NEW managers \in [Devices -> Managers], NEW t \in Transactions,
           NEW after, after = carriedOut(kind, managers, t)
    PROVE  /\ after \in [Devices -> Managers]
           /\ \A d \in Devices : d # t.device => after[d] = managers[d]
           /\ kind = "undo" =>
                after[t.device] = setDefaultPixel(rollback(managers[t.device]), t.oldDefaultPixel)
           /\ kind = "redo" =>
                after[t.device] = setDefaultPixel(rollforward(managers[t.device]), t.newDefaultPixel)
           /\ kind \notin {"undo", "redo"} =>
                after[t.device] = purgeHistory(managers[t.device], t.memento)
<1>1. t.device \in Devices /\ t.oldDefaultPixel \in DefaultPixels /\ t.newDefaultPixel \in DefaultPixels
  BY TransactionFields
<1>2. PICK m : m = managers[t.device]
  OBVIOUS
<1>3. m \in Managers
  BY <1>1, <1>2
<1>4. PICK u : u = setDefaultPixel(rollback(m), t.oldDefaultPixel)
  OBVIOUS
<1>5. PICK r : r = setDefaultPixel(rollforward(m), t.newDefaultPixel)
  OBVIOUS
<1>6. PICK p : p = purgeHistory(m, t.memento)
  OBVIOUS
<1>7. u \in Managers
  <2>1. rollback(m) \in Managers
    BY <1>3, RolledBack
  <2>2. QED
    BY <1>1, <1>4, <2>1, PixelSet
<1>8. r \in Managers
  <2>1. rollforward(m) \in Managers
    BY <1>3, RolledForward
  <2>2. QED
    BY <1>1, <1>5, <2>1, PixelSet
<1>9. p \in Managers
  BY <1>3, <1>6, Purged
<1>10. after = IF kind = "undo" THEN [managers EXCEPT ![t.device] = u]
               ELSE IF kind = "redo" THEN [managers EXCEPT ![t.device] = r]
               ELSE [managers EXCEPT ![t.device] = p]
  BY <1>2, <1>4, <1>5, <1>6 DEF carriedOut, undone, redone, purged
<1>11. QED
  BY <1>1, <1>2, <1>4, <1>5, <1>6, <1>7, <1>8, <1>9, <1>10

\* All transactions of a command are.
LEMMA CarryingTyped ==
    ASSUME NEW kind, NEW managers \in [Devices -> Managers], NEW ts \in Seq(Transactions)
    PROVE  \A n \in 0 .. Len(ts) : carrying(kind, managers, ts)[n] \in [Devices -> Managers]
<1>1. PICK after : after = carrying(kind, managers, ts)
  OBVIOUS
<1>2. /\ Len(ts) \in Nat /\ after[0] = managers
      /\ \A n \in 1 .. Len(ts) : after[n] = carriedOut(kind, after[n - 1], ts[n])
  <2>1. Len(ts) \in Nat
    OBVIOUS
  <2>2. QED
    BY <1>1, <2>1, Carrying
<1>3. PICK N : N = Len(ts)
  OBVIOUS
<1> DEFINE T == {n \in 0 .. N : after[n] \in [Devices -> Managers]}
<1>4. 0 \in T
  BY <1>2, <1>3
<1>5. ASSUME NEW n \in 1 .. N, n - 1 \in T PROVE n \in T
  <2>1. after[n - 1] \in [Devices -> Managers] /\ ts[n] \in Transactions
    BY <1>3, <1>5
  <2>2. PICK x : x = carriedOut(kind, after[n - 1], ts[n])
    OBVIOUS
  <2>3. x \in [Devices -> Managers]
    BY <2>1, <2>2, CarriedOut
  <2>4. after[n] = x
    BY <1>2, <1>3, <2>2
  <2>5. n \in 0 .. N
    BY <1>2, <1>3
  <2>6. QED
    BY <2>3, <2>4, <2>5
<1>6. \A n \in T : after[n] \in [Devices -> Managers]
  OBVIOUS
<1> HIDE DEF T
<1>7. \A n \in 0 .. N : n \in T
  BY <1>2, <1>3, <1>4, <1>5, StepByStep
<1>8. QED
  BY <1>1, <1>3, <1>6, <1>7

\* A list of transactions, backwards.
LEMMA Reversed ==
    ASSUME NEW T, NEW list \in Seq(T)
    PROVE  /\ Reverse(list) \in Seq(T) /\ Len(Reverse(list)) = Len(list) /\ Len(list) \in Nat
           /\ \A i \in 1 .. Len(list) :
                /\ Reverse(list)[i] = list[Len(list) + 1 - i]
                /\ Len(list) + 1 - i \in 1 .. Len(list)
<1>1. PICK n : n = Len(list) /\ n \in Nat
  OBVIOUS
<1>2. PICK r : r = [i \in 1 .. n |-> list[(n - i) + 1]]
  OBVIOUS
<1>3. Reverse(list) = r
  BY <1>1, <1>2 DEF Reverse
<1>4. \A i \in 1 .. n : (n - i) + 1 \in 1 .. n /\ (n - i) + 1 = n + 1 - i
  BY <1>1
<1>5. r \in [1 .. n -> T]
  BY <1>1, <1>2, <1>4
<1>6. r \in Seq(T) /\ Len(r) = n
  BY <1>1, <1>2, <1>5
<1>7. QED
  BY <1>1, <1>2, <1>3, <1>4, <1>6

\* What a command that is carried out does to the devices and to the queue.
Affairs == [devices : [Devices -> Managers], strokes : Seq(Strokes)]

jobsOf(kind, parts) == [i \in 1 .. Len(parts) |-> Job(kind, parts[i])]

\* A command has a flag and a list of transactions.
LEMMA CommandFields ==
    ASSUME NEW command \in Commands
    PROVE  /\ command.saved \in BOOLEAN /\ command.parts \in Seq(Transactions)
           /\ Len(command.parts) \in Nat /\ DOMAIN command.parts = 1 .. Len(command.parts)
           /\ \A i \in 1 .. Len(command.parts) : command.parts[i] \in Transactions
BY DEF Commands

\* A saved command that is undone or redone only adds its jobs to the queue.
LEMMA ExecutedLater ==
    ASSUME NEW kind \in {"undo", "redo"}, NEW done \in Affairs,
           NEW command \in Commands, command.saved,
           NEW after, after = executed(kind, done, command)
    PROVE  /\ after \in Affairs /\ after.devices = done.devices
           /\ after.strokes = done.strokes \o jobsOf(kind, command.parts)
           /\ jobsOf(kind, command.parts) \in Seq(Jobs)
<1>1. /\ command.parts \in Seq(Transactions)
      /\ Len(command.parts) \in Nat /\ DOMAIN command.parts = 1 .. Len(command.parts)
      /\ \A i \in 1 .. Len(command.parts) : command.parts[i] \in Transactions
  BY CommandFields
<1>2. done.devices \in [Devices -> Managers] /\ done.strokes \in Seq(Strokes)
  BY DEF Affairs
<1>3. PICK jobs : jobs = jobsOf(kind, command.parts)
  OBVIOUS
<1>4. \A i \in 1 .. Len(command.parts) : Job(kind, command.parts[i]) \in Jobs
  BY <1>1 DEF Job, Jobs
<1>5. jobs \in [1 .. Len(command.parts) -> Jobs]
  BY <1>3, <1>4 DEF jobsOf
<1>6. jobs \in Seq(Jobs)
  BY <1>1, <1>5
<1>7. jobs \in Seq(Strokes)
  BY <1>6 DEF Strokes
<1>8. PICK list : list = done.strokes \o jobs
  OBVIOUS
<1>9. list \in Seq(Strokes)
  BY <1>2, <1>7, <1>8
<1>10. after = [done EXCEPT !.strokes = list]
  BY <1>1, <1>3, <1>8 DEF executed, jobsOf
<1>11. after \in Affairs /\ after.devices = done.devices /\ after.strokes = list
  BY <1>9, <1>10 DEF Affairs
<1>12. QED
  BY <1>3, <1>6, <1>8, <1>11

\* In which order the parts of a command are carried out.
orderOf(kind, parts) == IF kind = "undo" THEN Reverse(parts) ELSE parts

\* Any other command runs its parts on the devices, the last first when it is undone.
LEMMA ExecutedAtOnce ==
    ASSUME NEW kind \in {"undo", "redo", "delete"}, NEW done \in Affairs,
           NEW command \in Commands, ~(command.saved /\ kind # "delete"),
           NEW after, after = executed(kind, done, command)
    PROVE  /\ after \in Affairs /\ after.strokes = done.strokes
           /\ orderOf(kind, command.parts) \in Seq(Transactions)
           /\ Len(orderOf(kind, command.parts)) = Len(command.parts)
           /\ after.devices =
                carrying(kind, done.devices, orderOf(kind, command.parts))[Len(command.parts)]
<1>1. /\ command.parts \in Seq(Transactions) /\ Len(command.parts) \in Nat
  BY CommandFields
<1>2. done.devices \in [Devices -> Managers] /\ done.strokes \in Seq(Strokes)
  BY DEF Affairs
<1>3. PICK order : order = orderOf(kind, command.parts)
  OBVIOUS
<1>4. order \in Seq(Transactions) /\ Len(order) = Len(command.parts)
  BY <1>1, <1>3, Reversed DEF orderOf
<1>5. PICK ms : ms = carrying(kind, done.devices, order)[Len(order)]
  OBVIOUS
<1>6. ms \in [Devices -> Managers]
  <2>1. Len(order) \in 0 .. Len(order)
    BY <1>4
  <2>2. QED
    BY <1>2, <1>4, <1>5, <2>1, CarryingTyped
<1>7. after = [done EXCEPT !.devices = ms]
  BY <1>3, <1>5 DEF executed, orderOf
<1>8. after \in Affairs /\ after.devices = ms /\ after.strokes = done.strokes
  BY <1>6, <1>7 DEF Affairs
<1>9. QED
  BY <1>3, <1>4, <1>5, <1>8

\* The queue is left alone.
LEMMA QueueKept ==
    ASSUME NEW kind \in {"undo", "redo"}, NEW done \in Affairs, NEW command \in Commands,
           ~command.saved, NEW after, after = executed(kind, done, command)
    PROVE  after.strokes = done.strokes
<1>1. PICK ms : ms = carrying(kind, done.devices, orderOf(kind, command.parts))
                         [Len(orderOf(kind, command.parts))]
  OBVIOUS
<1>2. after = [done EXCEPT !.devices = ms]
  BY <1>1 DEF executed, orderOf
<1>3. QED
  BY <1>2 DEF Affairs

\* Either way.
LEMMA ExecutedTyped ==
    ASSUME NEW kind \in {"undo", "redo", "delete"}, NEW done \in Affairs, NEW command \in Commands
    PROVE  executed(kind, done, command) \in Affairs
<1>1. ASSUME command.saved /\ kind # "delete" PROVE executed(kind, done, command) \in Affairs
  BY <1>1, ExecutedLater
<1>2. ASSUME ~(command.saved /\ kind # "delete") PROVE executed(kind, done, command) \in Affairs
  BY <1>2, ExecutedAtOnce
<1>3. QED
  BY <1>1, <1>2

\* All commands of a list are carried out.
LEMMA ExecutingTyped ==
    ASSUME NEW kind \in {"undo", "redo", "delete"}, NEW done \in Affairs,
           NEW commands \in Seq(Commands)
    PROVE  \A n \in 0 .. Len(commands) : executing(kind, done, commands)[n] \in Affairs
<1>1. PICK after : after = executing(kind, done, commands)
  OBVIOUS
<1>2. /\ Len(commands) \in Nat /\ after[0] = done
      /\ \A n \in 1 .. Len(commands) : after[n] = executed(kind, after[n - 1], commands[n])
  <2>1. Len(commands) \in Nat
    OBVIOUS
  <2>2. QED
    BY <1>1, <2>1, Executing
<1>3. PICK N : N = Len(commands)
  OBVIOUS
<1> DEFINE T == {n \in 0 .. N : after[n] \in Affairs}
<1>4. 0 \in T
  BY <1>2, <1>3
<1>5. ASSUME NEW n \in 1 .. N, n - 1 \in T PROVE n \in T
  <2>1. after[n - 1] \in Affairs /\ commands[n] \in Commands
    BY <1>3, <1>5
  <2>2. PICK x : x = executed(kind, after[n - 1], commands[n])
    OBVIOUS
  <2>3. x \in Affairs
    BY <2>1, <2>2, ExecutedTyped
  <2>4. after[n] = x
    BY <1>2, <1>3, <2>2
  <2>5. n \in 0 .. N
    BY <1>2, <1>3
  <2>6. QED
    BY <2>3, <2>4, <2>5
<1>6. \A n \in T : after[n] \in Affairs
  OBVIOUS
<1> HIDE DEF T
<1>7. \A n \in 0 .. N : n \in T
  BY <1>2, <1>3, <1>4, <1>5, StepByStep
<1>8. QED
  BY <1>1, <1>3, <1>6, <1>7

\* Nothing else is in the queue when commands are carried out.
LEMMA JobsQueued ==
    ASSUME NEW kind \in {"undo", "redo"}, NEW done \in Affairs, done.strokes \in Seq(Jobs),
           NEW commands \in Seq(Commands)
    PROVE  \A n \in 0 .. Len(commands) : executing(kind, done, commands)[n].strokes \in Seq(Jobs)
<1>1. PICK after : after = executing(kind, done, commands)
  OBVIOUS
<1>2. /\ Len(commands) \in Nat /\ after[0] = done
      /\ \A n \in 1 .. Len(commands) : after[n] = executed(kind, after[n - 1], commands[n])
  <2>1. Len(commands) \in Nat
    OBVIOUS
  <2>2. QED
    BY <1>1, <2>1, Executing
<1>3. PICK N : N = Len(commands)
  OBVIOUS
<1>0. kind \in {"undo", "redo", "delete"} /\ kind # "delete"
  OBVIOUS
<1> DEFINE T == {n \in 0 .. N : after[n].strokes \in Seq(Jobs)}
<1>4. 0 \in T
  BY <1>2, <1>3
<1>5. ASSUME NEW n \in 1 .. N, n - 1 \in T PROVE n \in T
  <2>1. after[n - 1].strokes \in Seq(Jobs) /\ commands[n] \in Commands
    BY <1>3, <1>5
  <2>2. PICK x : x = executed(kind, after[n - 1], commands[n])
    OBVIOUS
  <2>3. after[n - 1] \in Affairs
    <3>1. n - 1 \in 0 .. Len(commands)
      BY <1>2, <1>3
    <3>2. QED
      BY <1>0, <1>1, <3>1, ExecutingTyped
  <2>10. PICK y, command : y = after[n - 1] /\ command = commands[n]
    OBVIOUS
  <2>11. y \in Affairs /\ command \in Commands /\ y.strokes \in Seq(Jobs)
    BY <2>1, <2>3, <2>10
  <2>12. x = executed(kind, y, command)
    BY <2>2, <2>10
  <2>4. ASSUME command.saved PROVE x.strokes \in Seq(Jobs)
    <3>1. PICK jobs : jobs = jobsOf(kind, command.parts)
      OBVIOUS
    <3>2. x.strokes = y.strokes \o jobs /\ jobs \in Seq(Jobs)
      BY <2>4, <2>11, <2>12, <3>1, ExecutedLater
    <3>3. QED
      BY <2>11, <3>2
  <2>5. ASSUME ~command.saved PROVE x.strokes \in Seq(Jobs)
    <3>1. x.strokes = y.strokes
      BY <2>5, <2>11, <2>12, QueueKept
    <3>2. QED
      BY <2>11, <3>1
  <2>6. x.strokes \in Seq(Jobs)
    BY <2>4, <2>5
  <2>7. after[n] = x
    BY <1>2, <1>3, <2>2
  <2>8. n \in 0 .. N
    BY <1>2, <1>3
  <2>9. QED
    BY <2>6, <2>7, <2>8
<1>6. \A n \in T : after[n].strokes \in Seq(Jobs)
  OBVIOUS
<1> HIDE DEF T
<1>7. \A n \in 0 .. N : n \in T
  BY <1>2, <1>3, <1>4, <1>5, StepByStep
<1>8. QED
  BY <1>1, <1>3, <1>6, <1>7

\* Deleting commands keeps the devices what they are.
LEMMA DeletedTyped ==
    ASSUME NEW managers \in [Devices -> Managers], NEW commands \in Seq(Commands)
    PROVE  deleted(managers, commands) \in [Devices -> Managers]
<1>1. PICK done : done = [devices |-> managers, strokes |-> <<>>]
  OBVIOUS
<1>2. done \in Affairs
  <2>1. <<>> \in Seq(Strokes)
    OBVIOUS
  <2>2. QED
    BY <1>1, <2>1 DEF Affairs
<1>3. Len(commands) \in 0 .. Len(commands)
  OBVIOUS
<1>4. PICK x : x = executing("delete", done, commands)[Len(commands)]
  OBVIOUS
<1>5. x \in Affairs
  BY <1>2, <1>3, <1>4, ExecutingTyped
<1>6. deleted(managers, commands) = x.devices
  BY <1>1, <1>4 DEF deleted
<1>7. QED
  BY <1>5, <1>6 DEF Affairs

-----------------------------------------------------------------------------
(***************************************************************************)
(* The lists of the stack, and of the images.                              *)
(***************************************************************************)

\* The head of a list.
isHead(T, list, n, r) ==
    r \in Seq(T) /\ Len(r) = n /\ n \in Nat /\ \A i \in 1 .. n : r[i] = list[i]

\* SubSeq from 1 is the head of a list.
LEMMA CutHead ==
    ASSUME NEW T, NEW list \in Seq(T), NEW n \in 0 .. Len(list), NEW r, r = SubSeq(list, 1, n)
    PROVE  isHead(T, list, n, r)
<1>1. 1 \in 1 .. (Len(list) + 1) /\ n \in (1 - 1) .. Len(list) /\ n \in Nat
  OBVIOUS
<1>2. /\ r \in Seq(T) /\ Len(r) = n - 1 + 1
      /\ \A i \in 1 .. (n - 1 + 1) : r[i] = list[1 + i - 1]
  BY <1>1, CutOut
<1>3. n - 1 + 1 = n /\ \A i \in 1 .. n : 1 + i - 1 = i
  BY <1>1
<1>4. QED
  BY <1>1, <1>2, <1>3 DEF isHead

\* The tail of a list.
isTail(T, list, e, r) ==
    /\ r \in Seq(T) /\ Len(r) = Len(list) - e /\ e \in Nat /\ Len(list) \in Nat
    /\ \A i \in 1 .. (Len(list) - e) : r[i] = list[i + e]

\* SubSeq to the end is the tail of a list.
LEMMA CutTail ==
    ASSUME NEW T, NEW list \in Seq(T), NEW e \in 0 .. Len(list),
           NEW f, f = e + 1, NEW n, n = Len(list), NEW r, r = SubSeq(list, f, n)
    PROVE  isTail(T, list, e, r)
<1>1. n \in Nat /\ f \in Nat /\ e \in Nat
  OBVIOUS
<1>2. f \in 1 .. (Len(list) + 1) /\ n \in (f - 1) .. Len(list)
  BY <1>1
<1>3. /\ r \in Seq(T) /\ Len(r) = n - f + 1
      /\ \A i \in 1 .. (n - f + 1) : r[i] = list[f + i - 1]
  BY <1>1, <1>2, CutOut
<1>4. n - f + 1 = n - e /\ \A i \in Nat : f + i - 1 = i + e
  BY <1>1
<1>5. n - e \in Nat
  BY <1>1
<1>6. QED
  BY <1>1, <1>3, <1>4, <1>5 DEF isTail

\* Something is appended, and the oldest is taken off.
isGrown(T, list, n, x, e, r) ==
    /\ r \in Seq(T) /\ Len(r) = n + 1 - e /\ n \in Nat /\ e \in Nat
    /\ \A i \in 1 .. (n + 1 - e) : r[i] = IF i + e < n + 1 THEN list[i + e] ELSE x

\* Append, then SubSeq to the end, as push() and checkUndoLimit() do.
LEMMA GrownAndCut ==
    ASSUME NEW T, NEW list \in Seq(T), NEW n, n = Len(list), NEW x \in T, NEW e \in 0 .. n,
           NEW longer, longer = Append(list, x), NEW f, f = e + 1, NEW last, last = n + 1,
           NEW r, r = SubSeq(longer, f, last)
    PROVE  isGrown(T, list, n, x, e, r)
<1>1. /\ longer \in Seq(T) /\ Len(longer) = n + 1 /\ n \in Nat
      /\ longer[n + 1] = x /\ \A i \in 1 .. n : longer[i] = list[i]
  OBVIOUS
<1>2. /\ last = Len(longer) /\ e \in 0 .. Len(longer) /\ e \in Nat /\ last \in Nat
      /\ longer[last] = x
  BY <1>1
<1>3. longer \in Seq(T)
  BY <1>1
<1>4. isTail(T, longer, e, r)
  BY <1>2, <1>3, CutTail
<1>5. r \in Seq(T) /\ Len(r) = n + 1 - e /\ \A i \in 1 .. (n + 1 - e) : r[i] = longer[i + e]
  BY <1>1, <1>4 DEF isTail
<1>6. ASSUME NEW i \in 1 .. (n + 1 - e) PROVE r[i] = IF i + e < n + 1 THEN list[i + e] ELSE x
  <2>1. r[i] = longer[i + e]
    BY <1>5
  <2>2. ASSUME i + e < n + 1 PROVE r[i] = list[i + e]
    <3>1. i + e \in 1 .. n
      BY <1>1, <1>2, <2>2
    <3>2. QED
      BY <1>1, <2>1, <3>1
  <2>3. ASSUME ~(i + e < n + 1) PROVE r[i] = x
    <3>1. i + e = n + 1
      BY <1>1, <1>2, <2>3
    <3>2. QED
      BY <1>1, <2>1, <3>1
  <2>4. QED
    BY <2>2, <2>3
<1>7. QED
  BY <1>1, <1>2, <1>5, <1>6 DEF isGrown

\* What is behind n is taken off first.
LEMMA CutAndGrown ==
    ASSUME NEW T, NEW list \in Seq(T), NEW n \in 0 .. Len(list), NEW x \in T, NEW e \in 0 .. n,
           NEW head, head = SubSeq(list, 1, n), NEW longer, longer = Append(head, x),
           NEW f, f = e + 1, NEW last, last = n + 1, NEW r, r = SubSeq(longer, f, last)
    PROVE  isGrown(T, list, n, x, e, r)
<1>1. isHead(T, list, n, head)
  BY CutHead
<1>2. head \in Seq(T) /\ n = Len(head) /\ n \in Nat /\ \A i \in 1 .. n : head[i] = list[i]
  BY <1>1 DEF isHead
<1>3. isGrown(T, head, n, x, e, r)
  BY <1>2, GrownAndCut
<1>4. ASSUME NEW i \in 1 .. (n + 1 - e), i + e < n + 1 PROVE head[i + e] = list[i + e]
  <2>1. i + e \in 1 .. n
    BY <1>2, <1>4
  <2>2. QED
    BY <1>2, <2>1
<1>5. QED
  BY <1>3, <1>4 DEF isGrown

\* The fields of a stack of these commands.
LEMMA StackFields ==
    ASSUME NEW s, WellKept(s), s.m_command_list \in Seq(Commands)
    PROVE  /\ s \in StacksOf(Commands) /\ count(s) = Len(s.m_command_list) /\ count(s) \in Nat
           /\ s.m_index \in Nat /\ s.m_index \in 0 .. count(s)
           /\ s.m_clean_index \in Nat \cup {-1} /\ s.m_clean_index <= count(s)
           /\ s.m_macro \in BOOLEAN /\ s.heard \in BOOLEAN
           /\ s.m_macro => count(s) = s.m_index + 1
<1>1. PICK C : s \in [m_command_list : Seq(C), m_index : Nat, m_clean_index : Nat \cup {-1},
                      m_macro : BOOLEAN, heard : BOOLEAN]
  BY DEF WellKept, IsStack
<1>2. s \in StacksOf(Commands)
  BY <1>1 DEF StacksOf
<1>3. count(s) = Len(s.m_command_list) /\ count(s) \in Nat
  BY DEF count
<1>4. s.m_index \in Nat /\ s.m_index <= count(s)
  BY <1>1 DEF WellKept
<1>5. s.m_index \in 0 .. count(s)
  BY <1>3, <1>4
<1>6. QED
  BY <1>1, <1>2, <1>3, <1>4, <1>5 DEF WellKept, Uncounted

\* setIndex().
LEMMA IndexSetFields ==
    ASSUME NEW s \in StacksOf(Commands), NEW idx, NEW clean \in BOOLEAN,
           NEW t, t = indexSet(s, idx, clean)
    PROVE  /\ t.m_command_list = s.m_command_list /\ t.m_index = idx
           /\ t.m_clean_index = (IF clean THEN idx ELSE s.m_clean_index)
           /\ t.m_macro = s.m_macro
<1>1. PICK ci : ci = IF clean THEN idx ELSE s.m_clean_index
  OBVIOUS
<1>2. PICK h : h = IF (idx = ci) # (s.m_index = s.m_clean_index) THEN idx = ci ELSE s.heard
  OBVIOUS
<1>3. t = [s EXCEPT !.m_index = idx, !.m_clean_index = ci, !.heard = h]
  BY <1>1, <1>2 DEF indexSet
<1>4. QED
  BY <1>1, <1>3 DEF StacksOf

\* checkUndoLimit() and the counting of the last command.
isCounted(s, e, t) ==
    /\ e \in 0 .. s.m_index
    /\ t.m_command_list = SubSeq(s.m_command_list, e + 1, Len(s.m_command_list))
    /\ t.m_index = s.m_index - e + 1
    /\ t.m_clean_index = (IF s.m_clean_index < e THEN -1 ELSE s.m_clean_index - e)
    /\ t.m_macro = s.m_macro

\* What counting the last command does to the list and the two indices.
LEMMA CountedFields ==
    ASSUME NEW s \in StacksOf(Commands), Len(s.m_command_list) = s.m_index + 1, ~s.m_macro,
           NEW t, t = counted(s), NEW e, e = excess(s)
    PROVE  isCounted(s, e, t)
<1>1. /\ s.m_command_list \in Seq(Commands) /\ s.m_index \in Nat
      /\ s.m_clean_index \in Nat \cup {-1} /\ s.m_macro \in BOOLEAN /\ s.heard \in BOOLEAN
  BY DEF StacksOf
<1>2. e \in 0 .. s.m_index
  BY <1>1, StackAssumption DEF excess, count
<1>3. PICK f, n, kept : f = e + 1 /\ n = Len(s.m_command_list) /\ kept = SubSeq(s.m_command_list, f, n)
  OBVIOUS
<1>4. PICK index, ci : index = s.m_index - e
                       /\ ci = (IF s.m_clean_index < e THEN -1 ELSE s.m_clean_index - e)
  OBVIOUS
<1>5. PICK l : l = withinLimit(s)
  OBVIOUS
<1>6. l = [s EXCEPT !.m_command_list = kept, !.m_index = index, !.m_clean_index = ci]
  BY <1>3, <1>4, <1>5 DEF withinLimit
<1>7. kept \in Seq(Commands)
  <2>1. e \in 0 .. Len(s.m_command_list)
    BY <1>1, <1>2
  <2>2. isTail(Commands, s.m_command_list, e, kept)
    BY <1>1, <1>3, <2>1, CutTail
  <2>3. QED
    BY <2>2 DEF isTail
<1>8. index \in Nat /\ ci \in Nat \cup {-1}
  BY <1>1, <1>2, <1>4
<1>9. l \in StacksOf(Commands) /\ l.m_command_list = kept /\ l.m_index = index
      /\ l.m_clean_index = ci /\ l.m_macro = s.m_macro
  BY <1>6, <1>7, <1>8 DEF StacksOf
<1>10. PICK next : next = index + 1
  OBVIOUS
<1>11. t = indexSet(l, next, FALSE)
  BY <1>5, <1>9, <1>10 DEF counted
<1>12. /\ t.m_command_list = kept /\ t.m_index = next /\ t.m_clean_index = ci
       /\ t.m_macro = s.m_macro
  BY <1>9, <1>11 DEF indexSet, StacksOf
<1>13. QED
  BY <1>2, <1>3, <1>4, <1>10, <1>12 DEF isCounted

\* What can be redone.
LEMMA RedoTail ==
    ASSUME NEW s, WellKept(s), s.m_command_list \in Seq(Commands), NEW r, r = redoTail(s)
    PROVE  isTail(Commands, s.m_command_list, s.m_index, r)
<1>1. PICK list, i, f, n : list = s.m_command_list /\ i = s.m_index /\ f = i + 1 /\ n = count(s)
  OBVIOUS
<1>2. n = Len(list) /\ i \in 0 .. Len(list) /\ list \in Seq(Commands)
  BY <1>1, StackFields
<1>3. r = SubSeq(list, f, n)
  BY <1>1 DEF redoTail
<1>4. isTail(Commands, list, i, r)
  BY <1>1, <1>2, <1>3, CutTail
<1>5. QED
  BY <1>1, <1>4

\* What can be redone is gone, and a command is appended.
isLonger(s, command, t) ==
    /\ t \in StacksOf(Commands)
    /\ t.m_command_list = Append(SubSeq(s.m_command_list, 1, s.m_index), command)
    /\ Len(t.m_command_list) = s.m_index + 1
    /\ \A i \in 1 .. s.m_index : t.m_command_list[i] = s.m_command_list[i]
    /\ t.m_command_list[s.m_index + 1] = command
    /\ t.m_index = s.m_index /\ t.m_macro = s.m_macro
    /\ t.m_clean_index = (IF s.m_clean_index > s.m_index THEN -1 ELSE s.m_clean_index)

\* What push() does before it counts the command.
LEMMA LongerFields ==
    ASSUME NEW s, WellKept(s), s.m_command_list \in Seq(Commands), ~s.m_macro,
           NEW command \in Commands, NEW t, t = appended(withoutRedo(s), command)
    PROVE  isLonger(s, command, t)
<1>1. /\ s \in StacksOf(Commands) /\ count(s) = Len(s.m_command_list) /\ s.m_index \in Nat
      /\ s.m_index \in 0 .. Len(s.m_command_list) /\ s.m_clean_index \in Nat \cup {-1}
  BY StackFields
<1>2. PICK head : head = SubSeq(s.m_command_list, 1, s.m_index)
  OBVIOUS
<1>3. PICK n : n = s.m_index
  OBVIOUS
<1>4. /\ head \in Seq(Commands) /\ Len(head) = n /\ n \in Nat
      /\ \A i \in 1 .. n : head[i] = s.m_command_list[i]
  <2>1. isHead(Commands, s.m_command_list, n, head)
    BY <1>1, <1>2, <1>3, CutHead
  <2>2. QED
    BY <2>1 DEF isHead
<1>5. PICK ci : ci = IF s.m_clean_index > n THEN -1 ELSE s.m_clean_index
  OBVIOUS
<1>6. PICK list : list = Append(head, command)
  OBVIOUS
<1>7. /\ list \in Seq(Commands) /\ Len(list) = n + 1 /\ list[n + 1] = command
      /\ \A i \in 1 .. n : list[i] = head[i]
  BY <1>4, <1>6
<1>8. PICK u : u = withoutRedo(s)
  OBVIOUS
<1>9. u = [s EXCEPT !.m_command_list = head, !.m_clean_index = ci]
  BY <1>2, <1>3, <1>5, <1>8 DEF withoutRedo
<1>10. /\ u \in StacksOf(Commands) /\ u.m_command_list = head /\ u.m_index = n
       /\ u.m_macro = s.m_macro /\ u.m_clean_index = ci
  BY <1>1, <1>3, <1>4, <1>5, <1>9 DEF StacksOf
<1>11. t = [u EXCEPT !.m_command_list = list]
  BY <1>6, <1>8, <1>10 DEF appended
<1>12. /\ t \in StacksOf(Commands) /\ t.m_command_list = list /\ t.m_index = n
       /\ t.m_macro = s.m_macro /\ t.m_clean_index = ci
  BY <1>7, <1>10, <1>11 DEF StacksOf
<1>13. QED
  BY <1>2, <1>3, <1>4, <1>5, <1>6, <1>7, <1>12 DEF isLonger

\* push() from beginning to end.
isPushed(s, command, e, t, oldest) ==
    /\ e \in 0 .. s.m_index
    /\ isGrown(Commands, s.m_command_list, s.m_index, command, e, t.m_command_list)
    /\ t.m_index = s.m_index + 1 - e /\ t.m_macro = s.m_macro
    /\ \E ci \in Nat \cup {-1} :
         /\ ci = (IF s.m_clean_index > s.m_index THEN -1 ELSE s.m_clean_index)
         /\ t.m_clean_index = (IF ci < e THEN -1 ELSE ci - e)
    /\ isHead(Commands, s.m_command_list, e, oldest)

\* What push() does to the list, the index and the clean index as a whole.
LEMMA PushedFields ==
    ASSUME NEW s, WellKept(s), s.m_command_list \in Seq(Commands), ~s.m_macro,
           NEW command \in Commands, NEW longer, longer = appended(withoutRedo(s), command),
           NEW e, e = excess(longer), NEW t, t = counted(longer),
           NEW oldest, oldest = SubSeq(longer.m_command_list, 1, e)
    PROVE  isPushed(s, command, e, t, oldest)
<1>1. /\ s.m_index \in Nat /\ s.m_clean_index \in Nat \cup {-1}
      /\ s.m_index \in 0 .. Len(s.m_command_list)
  BY StackFields
<1>2. PICK n, last : n = s.m_index /\ last = n + 1
  OBVIOUS
<1>3. PICK head, list : head = SubSeq(s.m_command_list, 1, n) /\ list = Append(head, command)
  OBVIOUS
<1>4. PICK ci : ci = IF s.m_clean_index > n THEN -1 ELSE s.m_clean_index
  OBVIOUS
<1>5. isLonger(s, command, longer)
  BY LongerFields
<1>6. /\ longer \in StacksOf(Commands) /\ longer.m_command_list = list
      /\ Len(list) = last /\ \A i \in 1 .. n : list[i] = s.m_command_list[i]
      /\ longer.m_index = n /\ longer.m_macro = s.m_macro /\ longer.m_clean_index = ci
  BY <1>2, <1>3, <1>4, <1>5 DEF isLonger
<1>7. Len(longer.m_command_list) = longer.m_index + 1 /\ ~longer.m_macro
  BY <1>2, <1>6
<1>8. /\ e \in 0 .. n
      /\ t.m_command_list = SubSeq(list, e + 1, last)
      /\ t.m_index = n - e + 1
      /\ t.m_clean_index = (IF ci < e THEN -1 ELSE ci - e)
      /\ t.m_macro = s.m_macro
  <2>1. /\ e \in 0 .. longer.m_index
        /\ t.m_command_list = SubSeq(longer.m_command_list, e + 1, Len(longer.m_command_list))
        /\ t.m_index = longer.m_index - e + 1
        /\ t.m_clean_index = (IF longer.m_clean_index < e THEN -1 ELSE longer.m_clean_index - e)
        /\ t.m_macro = longer.m_macro
    <3>1. isCounted(longer, e, t)
      BY <1>6, <1>7, CountedFields
    <3>2. QED
      BY <3>1 DEF isCounted
  <2>2. QED
    BY <1>6, <2>1
<1>9. PICK f, r : f = e + 1 /\ r = SubSeq(list, f, last)
  OBVIOUS
<1>10. PICK old : old = s.m_command_list
  OBVIOUS
<1>11. n \in 0 .. Len(old) /\ old \in Seq(Commands) /\ head = SubSeq(old, 1, n)
  BY <1>1, <1>2, <1>3, <1>10
<1>12. isGrown(Commands, old, n, command, e, r)
  BY <1>2, <1>3, <1>8, <1>9, <1>11, CutAndGrown
<1>13. list \in Seq(Commands) /\ e \in 0 .. Len(list) /\ oldest = SubSeq(list, 1, e)
  BY <1>1, <1>2, <1>6, <1>8 DEF StacksOf
<1>14. isHead(Commands, list, e, oldest)
  BY <1>13, CutHead
<1>15. \A i \in 1 .. e : i \in 1 .. n
  BY <1>1, <1>2, <1>8
<1>16. isHead(Commands, old, e, oldest)
  BY <1>6, <1>10, <1>14, <1>15 DEF isHead
<1>17. ci \in Nat \cup {-1} /\ n - e + 1 = n + 1 - e
  BY <1>1, <1>2, <1>4, <1>8
<1>18. t.m_command_list = r
  BY <1>8, <1>9
<1>19. QED
  BY <1>2, <1>4, <1>8, <1>10, <1>12, <1>16, <1>17, <1>18 DEF isPushed

\* endMacro() counts the macro.
isEnded(s, e, t, oldest) ==
    /\ e \in 0 .. s.m_index
    /\ isTail(Commands, s.m_command_list, e, t.m_command_list)
    /\ t.m_index = s.m_index + 1 - e /\ ~t.m_macro
    /\ t.m_clean_index = (IF s.m_clean_index < e THEN -1 ELSE s.m_clean_index - e)
    /\ isHead(Commands, s.m_command_list, e, oldest)

\* What endMacro() does to the list, the index and the clean index.
LEMMA MacroEndedFields ==
    ASSUME NEW s, WellKept(s), s.m_command_list \in Seq(Commands), s.m_macro,
           NEW longer, longer = [s EXCEPT !.m_macro = FALSE],
           NEW e, e = excess(longer), NEW t, t = macroEnded(s),
           NEW oldest, oldest = SubSeq(s.m_command_list, 1, e)
    PROVE  isEnded(s, e, t, oldest)
<1>1. /\ s \in StacksOf(Commands) /\ s.m_index \in Nat /\ s.m_clean_index \in Nat \cup {-1}
      /\ s.m_index \in 0 .. Len(s.m_command_list) /\ Len(s.m_command_list) = s.m_index + 1
  BY StackFields
<1>2. /\ longer \in StacksOf(Commands) /\ longer.m_command_list = s.m_command_list
      /\ longer.m_index = s.m_index /\ longer.m_clean_index = s.m_clean_index /\ ~longer.m_macro
  BY <1>1 DEF StacksOf
<1>3. Len(longer.m_command_list) = longer.m_index + 1 /\ ~longer.m_macro
  BY <1>1, <1>2
<1>4. t = counted(longer)
  BY DEF macroEnded
<1>5. PICK list, last : list = s.m_command_list /\ last = Len(list)
  OBVIOUS
<1>6. /\ e \in 0 .. s.m_index
      /\ t.m_command_list = SubSeq(list, e + 1, last)
      /\ t.m_index = s.m_index - e + 1
      /\ t.m_clean_index = (IF s.m_clean_index < e THEN -1 ELSE s.m_clean_index - e)
      /\ ~t.m_macro
  <2>1. /\ e \in 0 .. longer.m_index
        /\ t.m_command_list = SubSeq(longer.m_command_list, e + 1, Len(longer.m_command_list))
        /\ t.m_index = longer.m_index - e + 1
        /\ t.m_clean_index = (IF longer.m_clean_index < e THEN -1 ELSE longer.m_clean_index - e)
        /\ t.m_macro = longer.m_macro
    <3>1. isCounted(longer, e, t)
      BY <1>2, <1>3, <1>4, CountedFields
    <3>2. QED
      BY <3>1 DEF isCounted
  <2>2. QED
    BY <1>2, <1>5, <2>1
<1>7. PICK f, r : f = e + 1 /\ r = SubSeq(list, f, last)
  OBVIOUS
<1>8. list \in Seq(Commands) /\ e \in 0 .. Len(list) /\ oldest = SubSeq(list, 1, e)
  BY <1>1, <1>5, <1>6
<1>9. isTail(Commands, list, e, r)
  BY <1>5, <1>7, <1>8, CutTail
<1>10. isHead(Commands, list, e, oldest)
  BY <1>8, CutHead
<1>11. s.m_index - e + 1 = s.m_index + 1 - e
  BY <1>1, <1>6
<1>12. t.m_command_list = r
  BY <1>6, <1>7
<1>13. QED
  BY <1>5, <1>6, <1>9, <1>10, <1>11, <1>12 DEF isEnded

\* beginMacro() appends a command without parts, that is not counted.
LEMMA MacroBegunFields ==
    ASSUME NEW s, WellKept(s), s.m_command_list \in Seq(Commands), ~s.m_macro,
           NEW command \in Commands, NEW t, t = macroBegun(s, command)
    PROVE  \E longer : isLonger(s, command, longer) /\ t = [longer EXCEPT !.m_macro = TRUE]
<1>1. PICK longer : longer = appended(withoutRedo(s), command)
  OBVIOUS
<1>2. isLonger(s, command, longer)
  BY <1>1, LongerFields
<1>3. t = [longer EXCEPT !.m_macro = TRUE]
  BY <1>1 DEF macroBegun
<1>4. QED
  BY <1>2, <1>3

\* An element of a list is replaced.
isReplaced(T, list, r) == r \in Seq(T) /\ Len(r) = Len(list)

\* EXCEPT keeps a list and its length.
LEMMA Replaced ==
    ASSUME NEW T, NEW list \in Seq(T), NEW n, NEW x \in T, NEW r, r = [list EXCEPT ![n] = x]
    PROVE  isReplaced(T, list, r)
BY ReplacedKeepsLength DEF isReplaced

\* The macro grows.
grown(command, t) == [command EXCEPT !.parts = Append(@, t)]

isComposed(s, t, u) ==
    /\ u.m_command_list \in Seq(Commands)
    /\ u.m_command_list = [s.m_command_list EXCEPT ![count(s)] = grown(s.m_command_list[count(s)], t)]
    /\ Len(u.m_command_list) = count(s) /\ count(s) \in 1 .. count(s)
    /\ s.m_command_list[count(s)] \in Commands
    /\ grown(s.m_command_list[count(s)], t) \in Commands
    /\ u.m_index = s.m_index /\ u.m_clean_index = s.m_clean_index
    /\ u.m_macro = s.m_macro

\* A transaction that is pushed inside a macro becomes a part of the last command.
LEMMA ComposedFields ==
    ASSUME NEW s, WellKept(s), s.m_command_list \in Seq(Commands), s.m_macro,
           NEW t \in Transactions,
           NEW u, u = [s EXCEPT !.m_command_list[count(s)].parts = Append(@, t)]
    PROVE  isComposed(s, t, u)
<1>1. /\ s \in StacksOf(Commands) /\ s.m_index \in Nat /\ count(s) = Len(s.m_command_list)
      /\ count(s) = s.m_index + 1
  BY StackFields
<1>2. PICK n : n = count(s)
  OBVIOUS
<1>3. n \in 1 .. n /\ n = Len(s.m_command_list) /\ s.m_command_list[n] \in Commands
  <2>1. n \in Nat /\ n > 0 /\ n = Len(s.m_command_list)
    BY <1>1, <1>2
  <2>2. n \in 1 .. Len(s.m_command_list)
    BY <2>1
  <2>3. QED
    BY <2>1, <2>2
<1>4. PICK command : command = s.m_command_list[n]
  OBVIOUS
<1>5. PICK g : g = grown(command, t)
  OBVIOUS
<1>6. g \in Commands
  <2>1. PICK parts : parts = Append(command.parts, t)
    OBVIOUS
  <2>2. parts \in Seq(Transactions)
    BY <1>3, <1>4, <2>1, CommandFields
  <2>3. g = [command EXCEPT !.parts = parts]
    BY <1>5, <2>1 DEF grown
  <2>4. QED
    BY <1>3, <1>4, <2>2, <2>3 DEF Commands
<1>7. PICK list : list = [s.m_command_list EXCEPT ![n] = g]
  OBVIOUS
<1>8. list \in Seq(Commands) /\ Len(list) = Len(s.m_command_list)
  <2>1. PICK old : old = s.m_command_list
    OBVIOUS
  <2>2. old \in Seq(Commands) /\ list = [old EXCEPT ![n] = g]
    BY <1>7, <2>1
  <2>3. isReplaced(Commands, old, list)
    BY <1>6, <2>2, Replaced
  <2>4. QED
    BY <2>1, <2>3 DEF isReplaced
<1>9. u = [s EXCEPT !.m_command_list = list]
  BY <1>2, <1>4, <1>5, <1>7 DEF grown
<1>10. u.m_command_list = list /\ u.m_index = s.m_index
       /\ u.m_clean_index = s.m_clean_index /\ u.m_macro = s.m_macro
  BY <1>1, <1>9 DEF StacksOf
<1>11. QED
  BY <1>2, <1>3, <1>4, <1>5, <1>6, <1>7, <1>8, <1>10 DEF isComposed

-----------------------------------------------------------------------------
(***************************************************************************)
(* The types of all variables, and what keeps them: the bound on the       *)
(* transactions, and the order of the queue.                               *)
(***************************************************************************)
imageOf(managers) ==
    [d \in Devices |-> [tiles |-> managers[d].m_hashTable,
                        defaultPixel |-> managers[d].m_defaultPixel]]

\* What is seen of the devices.
LEMMA ImageTyped ==
    ASSUME NEW managers \in [Devices -> Managers]
    PROVE  imageOf(managers) \in Images
<1>1. \A d \in Devices : managers[d].m_hashTable \in Contents
                         /\ managers[d].m_defaultPixel \in DefaultPixels
  BY DEF Managers
<1>2. QED
  BY <1>1 DEF imageOf, Images

Shapes ==
    /\ devices \in [Devices -> Managers]
    /\ stack.m_command_list \in Seq(Commands)
    /\ strokes \in Seq(Strokes)
    /\ transaction \in Transactions \cup {NoTransaction}
    /\ gui \in {"idle", "handling", "macro"}
    /\ events \in Seq(Nat)
    /\ document \in Documents
    /\ mementos \in Nat
    /\ images \in Seq(Images)
    /\ onDisk \in Images
    /\ autosaved \in Images \cup {NoImage}
    /\ uploading \in Images \cup {NoImage}

\* The first q strokes of the queue carry out commands, the others paint.
jobsFirst(queue, q) ==
    q \in 0 .. Len(queue) /\ \A k \in 1 .. Len(queue) : paints(queue[k]) <=> k > q

\* Every stroke that waits, and the one that is executed, has its memento.
spoken(queue, q, t) == IF t = NoTransaction THEN Len(queue) - q ELSE Len(queue) - q - 1

QueueInv ==
    \E q \in 0 .. Len(strokes) :
        /\ jobsFirst(strokes, q)
        /\ mementos + spoken(strokes, q, transaction) <= MaxTransactions
        /\ transaction # NoTransaction =>
             q = 0 /\ strokes # <<>> /\ strokes[1].device = transaction.device

\* There is an image for each index of the stack.
PagesInv ==
    /\ gui = "macro" => strokes = <<>> /\ transaction = NoTransaction
                        /\ Len(images) = stack.m_index + 1
    /\ gui # "macro" => Len(images) = count(stack) + 1

TypedInv == StackInv /\ Shapes /\ QueueInv /\ PagesInv

\* What push() does.
hasPushed(managers, command, e, oldest) ==
    /\ isPushed(stack, command, e, stack', oldest)
    /\ devices' = deleted(deleted(managers, redoTail(stack)), oldest)
    /\ devices' \in [Devices -> Managers]
    /\ image' \in Images
    /\ isGrown(Images, images, stack.m_index + 1, image', e, images')

\* push() keeps the types of devices and images, and does what hasPushed says.
LEMMA Pushing ==
    ASSUME StackInv, Shapes, ~stack.m_macro, Len(images) = count(stack) + 1,
           NEW managers \in [Devices -> Managers], NEW command \in Commands,
           push(managers, command)
    PROVE  \E e, oldest : hasPushed(managers, command, e, oldest)
<1>1. WellKept(stack) /\ stack.m_command_list \in Seq(Commands) /\ images \in Seq(Images)
  BY DEF StackInv, Shapes
<1>2. PICK longer : longer = appended(withoutRedo(stack), command)
  OBVIOUS
<1>3. PICK e : e = excess(longer)
  OBVIOUS
<1>4. PICK oldest : oldest = SubSeq(longer.m_command_list, 1, e)
  OBVIOUS
<1>5. PICK tail : tail = redoTail(stack)
  OBVIOUS
<1>6. /\ stack' = counted(longer)
      /\ devices' = deleted(deleted(managers, tail), oldest)
      /\ images' = SubSeq(Append(SubSeq(images, 1, stack.m_index + 1), image'),
                          e + 1, stack.m_index + 2)
  BY <1>2, <1>3, <1>4, <1>5 DEF push
<1>7. PICK s, t : s = stack /\ t = stack'
  OBVIOUS
<1>8. isPushed(s, command, e, t, oldest)
  <2>1. WellKept(s) /\ s.m_command_list \in Seq(Commands) /\ ~s.m_macro
    BY <1>1, <1>7
  <2>2. longer = appended(withoutRedo(s), command) /\ t = counted(longer)
    BY <1>2, <1>6, <1>7
  <2>3. QED
    BY <1>3, <1>4, <2>1, <2>2, PushedFields
<1>9. isTail(Commands, s.m_command_list, s.m_index, tail)
  <2>1. WellKept(s) /\ s.m_command_list \in Seq(Commands) /\ tail = redoTail(s)
    BY <1>1, <1>5, <1>7
  <2>2. QED
    BY <2>1, RedoTail
<1>10. tail \in Seq(Commands) /\ oldest \in Seq(Commands) /\ e \in 0 .. s.m_index /\ s.m_index \in Nat
  BY <1>8, <1>9 DEF isPushed, isTail, isHead
<1>11. PICK ms : ms = deleted(managers, tail)
  OBVIOUS
<1>12. ms \in [Devices -> Managers]
  BY <1>10, <1>11, DeletedTyped
<1>13. devices' \in [Devices -> Managers]
  <2>1. deleted(ms, oldest) \in [Devices -> Managers]
    BY <1>10, <1>12, DeletedTyped
  <2>2. QED
    BY <1>6, <1>11, <2>1
<1>14. image' \in Images
  <2>1. PICK after : after = devices'
    OBVIOUS
  <2>2. imageOf(after) \in Images
    BY <1>13, <2>1, ImageTyped
  <2>3. image' = imageOf(after)
    BY <2>1 DEF image, imageOf
  <2>4. QED
    BY <2>2, <2>3
<1>15. PICK x, n, head, grew, f, last, r :
         /\ x = image' /\ n = stack.m_index + 1 /\ head = SubSeq(images, 1, n)
         /\ grew = Append(head, x) /\ f = e + 1 /\ last = n + 1 /\ r = SubSeq(grew, f, last)
  OBVIOUS
<1>16. n \in 0 .. Len(images) /\ e \in 0 .. n /\ last = stack.m_index + 2
  <2>1. stack.m_index \in 0 .. count(stack) /\ count(stack) \in Nat
    BY <1>1, StackFields
  <2>2. PICK i, c : i = stack.m_index /\ c = count(stack)
    OBVIOUS
  <2>3. /\ i \in 0 .. c /\ c \in Nat /\ i \in Nat /\ e \in 0 .. i
        /\ n = i + 1 /\ last = n + 1 /\ Len(images) = c + 1
    BY <1>7, <1>10, <1>15, <2>1, <2>2
  <2>4. n \in 0 .. (c + 1) /\ e \in 0 .. n /\ last = i + 2
    BY <2>3
  <2>5. QED
    BY <2>2, <2>3, <2>4
<1>17. images' = r
  BY <1>6, <1>15, <1>16
<1>18. isGrown(Images, images, n, x, e, r)
  <2>1. PICK list : list = images
    OBVIOUS
  <2>2. list \in Seq(Images) /\ n \in 0 .. Len(list) /\ x \in Images /\ head = SubSeq(list, 1, n)
    BY <1>1, <1>14, <1>15, <1>16, <2>1
  <2>3. isGrown(Images, list, n, x, e, r)
    BY <1>15, <1>16, <2>2, CutAndGrown
  <2>4. QED
    BY <2>1, <2>3
<1>19. hasPushed(managers, command, e, oldest)
  BY <1>5, <1>6, <1>7, <1>8, <1>13, <1>14, <1>15, <1>17, <1>18 DEF hasPushed
<1>20. QED
  BY <1>19

\* What happens to a document.
LEMMA DocumentTyped ==
    ASSUME NEW doc \in Documents
    PROVE  /\ \A mod \in BOOLEAN : setModified(doc, mod) \in Documents
           /\ \A s, idx : slotUndoStackIndexChanged(doc, s, idx) \in Documents
           /\ setAutoSave(doc) \in Documents /\ autoSaved(doc) \in Documents
           /\ doc.modified \in BOOLEAN
<1>1. ASSUME NEW mod \in BOOLEAN PROVE setModified(doc, mod) \in Documents
  BY DEF setModified, Documents
<1>2. ASSUME NEW s, NEW idx PROVE slotUndoStackIndexChanged(doc, s, idx) \in Documents
  <2>1. PICK mod \in BOOLEAN : mod = (idx # s.m_clean_index)
    OBVIOUS
  <2>2. setModified(doc, mod) \in Documents
    BY <1>1
  <2>3. QED
    BY <2>1, <2>2 DEF slotUndoStackIndexChanged
<1>3. QED
  BY <1>1, <1>2 DEF setAutoSave, autoSaved, Documents

\* Only the clean index of the stack is changed.
isMarked(s, t) == t.m_command_list = s.m_command_list /\ t.m_index = s.m_index

\* setClean() moves the clean index only, to the index outside a macro.
LEMMA SetCleanFields ==
    ASSUME NEW s, WellKept(s), s.m_command_list \in Seq(Commands), NEW t, t = setClean(s)
    PROVE  isMarked(s, t) /\ (~s.m_macro => t.m_clean_index = s.m_index)
<1>1. s \in StacksOf(Commands)
  BY StackFields
<1>2. QED
  BY <1>1 DEF setClean, indexSet, StacksOf, isMarked

\* Nothing happens to the devices, to the queue and to the list of commands.
LEMMA Unconcerned ==
    ASSUME TypedInv, UNCHANGED <<devices, strokes, transaction, mementos, images>>,
           isMarked(stack, stack'), gui' \in {"idle", "handling", "macro"},
           gui' = "macro" <=> gui = "macro",
           events' \in Seq(Nat), document' \in Documents, onDisk' \in Images,
           autosaved' \in Images \cup {NoImage}, uploading' \in Images \cup {NoImage}
    PROVE  (Shapes /\ QueueInv /\ PagesInv)'
<1>1. Shapes'
  BY DEF TypedInv, Shapes, isMarked
<1>2. QueueInv'
  BY DEF TypedInv, QueueInv
<1>3. PagesInv'
  BY DEF TypedInv, PagesInv, isMarked, count
<1>4. QED
  BY <1>1, <1>2, <1>3

\* The events, the document and the files.
LEMMA DocumentSteps ==
    ASSUME TypedInv,
           startHandling \/ giveUp \/ deliver \/ save \/ failToSave \/ exportDocument
           \/ saveRemote \/ uploadFinished \/ slotAutoSave
    PROVE  (Shapes /\ QueueInv /\ PagesInv)'
<1>1. /\ StackInv /\ Shapes /\ document \in Documents /\ events \in Seq(Nat)
      /\ gui \in {"idle", "handling", "macro"} /\ onDisk \in Images
      /\ autosaved \in Images \cup {NoImage} /\ uploading \in Images \cup {NoImage}
      /\ WellKept(stack) /\ stack.m_command_list \in Seq(Commands)
      /\ devices \in [Devices -> Managers]
  BY DEF TypedInv, Shapes, StackInv
<1>2. image \in Images
  <2>1. imageOf(devices) \in Images
    BY <1>1, ImageTyped
  <2>2. QED
    BY <2>1 DEF image, imageOf
<1>3. isMarked(stack, setClean(stack)) /\ isMarked(stack, stack)
  <2>1. isMarked(stack, setClean(stack))
    BY <1>1, SetCleanFields
  <2>2. QED
    BY <2>1 DEF isMarked
<1>4. /\ \A mod \in BOOLEAN : setModified(document, mod) \in Documents
      /\ \A s, idx : slotUndoStackIndexChanged(document, s, idx) \in Documents
      /\ setAutoSave(document) \in Documents /\ autoSaved(document) \in Documents
      /\ \A mod \in BOOLEAN : setModified(setAutoSave(document), mod) \in Documents
      /\ document.modified \in BOOLEAN
      /\ \A mod \in BOOLEAN :
           setModified(setModified(setAutoSave(document), FALSE), mod) \in Documents
  <2>1. /\ \A mod \in BOOLEAN : setModified(document, mod) \in Documents
        /\ \A s, idx : slotUndoStackIndexChanged(document, s, idx) \in Documents
        /\ setAutoSave(document) \in Documents /\ autoSaved(document) \in Documents
        /\ document.modified \in BOOLEAN
    BY <1>1, DocumentTyped
  <2>2. \A mod \in BOOLEAN : setModified(setAutoSave(document), mod) \in Documents
    BY <2>1, DocumentTyped
  <2>3. \A mod \in BOOLEAN : setModified(setModified(setAutoSave(document), FALSE), mod) \in Documents
    BY <2>2, DocumentTyped
  <2>4. QED
    BY <2>1, <2>2, <2>3
<1>5. CASE startHandling \/ giveUp
  <2>1. /\ UNCHANGED <<devices, strokes, transaction, mementos, images, stack, events, document,
                       onDisk, autosaved, uploading>>
        /\ gui' \in {"idle", "handling", "macro"} /\ gui' # "macro" /\ gui # "macro"
    BY <1>5 DEF startHandling, giveUp, files
  <2>2. QED
    BY <1>1, <1>3, <2>1, Unconcerned
<1>6. CASE deliver
  <2>1. /\ UNCHANGED <<devices, strokes, transaction, mementos, images, stack, gui,
                       onDisk, autosaved, uploading>>
        /\ document' \in Documents /\ events # <<>> /\ events' = Tail(events)
    BY <1>4, <1>6 DEF deliver, files
  <2>2. events' \in Seq(Nat)
    BY <1>1, <2>1
  <2>3. QED
    BY <1>1, <1>3, <2>1, <2>2, Unconcerned
<1>7. CASE save \/ exportDocument \/ saveRemote
  <2>1. /\ UNCHANGED <<devices, strokes, transaction, mementos, images, events>>
        /\ stack' = setClean(stack) /\ gui' \in {"idle", "handling", "macro"}
        /\ gui' # "macro" /\ gui # "macro"
    BY <1>7 DEF save, exportDocument, saveRemote, underLock, files
  <2>2. document' \in Documents
    BY <1>4, <1>7 DEF save, exportDocument, saveRemote
  <2>3. onDisk' \in Images /\ autosaved' \in Images \cup {NoImage}
        /\ uploading' \in Images \cup {NoImage}
    BY <1>1, <1>2, <1>7 DEF save, exportDocument, saveRemote, files
  <2>4. QED
    BY <1>1, <1>3, <2>1, <2>2, <2>3, Unconcerned
<1>8. CASE failToSave
  <2>1. /\ UNCHANGED <<devices, strokes, transaction, mementos, images, events, stack, onDisk,
                       autosaved, uploading>>
        /\ gui' \in {"idle", "handling", "macro"} /\ gui' # "macro" /\ gui # "macro"
    BY <1>8 DEF failToSave, underLock, files
  <2>2. document' \in Documents
    BY <1>4, <1>8 DEF failToSave
  <2>3. QED
    BY <1>1, <1>3, <2>1, <2>2, Unconcerned
<1>9. CASE uploadFinished
  <2>1. /\ UNCHANGED <<devices, strokes, transaction, mementos, images, events, stack, gui,
                       autosaved>>
        /\ uploading' = NoImage
        /\ \/ onDisk' = uploading /\ uploading # NoImage /\ document' = setModified(document, FALSE)
           \/ onDisk' = onDisk /\ document' = document
    BY <1>9 DEF uploadFinished
  <2>2. document' \in Documents /\ onDisk' \in Images
    BY <1>1, <1>4, <2>1
  <2>3. QED
    BY <1>1, <1>3, <2>1, <2>2, Unconcerned
<1>10. CASE slotAutoSave
  <2>1. /\ UNCHANGED <<devices, strokes, transaction, mementos, images, events, stack, onDisk,
                       uploading>>
        /\ document' = autoSaved(document) /\ autosaved' = image
        /\ gui' \in {"idle", "handling", "macro"} /\ gui' # "macro" /\ gui # "macro"
    BY <1>10 DEF slotAutoSave, underLock
  <2>2. QED
    BY <1>1, <1>2, <1>3, <1>4, <2>1, Unconcerned
<1>11. QED
  BY <1>5, <1>6, <1>7, <1>8, <1>9, <1>10

\* The first of a list goes.
isRest(T, list, r) ==
    /\ r \in Seq(T) /\ Len(r) = Len(list) - 1 /\ Len(list) \in Nat /\ Len(list) > 0
    /\ Head(list) = list[1] /\ list[1] \in T
    /\ \A k \in 1 .. (Len(list) - 1) : r[k] = list[k + 1]

\* Tail is the rest of a list.
LEMMA Rest ==
    ASSUME NEW T, NEW list \in Seq(T), list # <<>>, NEW r, r = Tail(list)
    PROVE  isRest(T, list, r)
<1>1. Len(list) \in Nat /\ Len(list) > 0 /\ Head(list) = list[1]
  OBVIOUS
<1>2. list[1] \in T
  BY <1>1
<1>3. r \in Seq(T) /\ Len(r) = Len(list) - 1
  OBVIOUS
<1>4. \A k \in 1 .. (Len(list) - 1) : r[k] = list[k + 1]
  OBVIOUS
<1>5. QED
  BY <1>1, <1>2, <1>3, <1>4 DEF isRest

\* How many strokes paint.
LEMMA PaintingCounted ==
    ASSUME NEW queue \in Seq(Strokes), NEW q, jobsFirst(queue, q)
    PROVE  Cardinality(painting(queue)) = Len(queue) - q
<1>1. /\ Len(queue) \in Nat /\ q \in 0 .. Len(queue) /\ DOMAIN queue = 1 .. Len(queue)
      /\ \A k \in 1 .. Len(queue) : paints(queue[k]) <=> k > q
  BY DEF jobsFirst
<1>2. PICK a, b : a = q + 1 /\ b = Len(queue)
  OBVIOUS
<1>3. a \in Int /\ b \in Int /\ q \in Nat
  BY <1>1, <1>2
<1>4. painting(queue) = a .. b
  <2>1. \A k : k \in painting(queue) <=> k \in 1 .. Len(queue) /\ k > q
    BY <1>1 DEF painting
  <2>2. \A k : k \in a .. b <=> k \in 1 .. Len(queue) /\ k > q
    BY <1>1, <1>2, <1>3
  <2>3. QED
    BY <2>1, <2>2
<1>5. Cardinality(a .. b) = IF a > b THEN 0 ELSE b - a + 1
  BY <1>3, FS_Interval
<1>6. (IF a > b THEN 0 ELSE b - a + 1) = b - q
  <2>1. b \in Nat /\ q \in Nat /\ q <= b /\ a = q + 1
    BY <1>1, <1>2
  <2>2. QED
    BY <2>1
<1>7. QED
  BY <1>2, <1>4, <1>5, <1>6

\* A queue and who is executed.
isQueue(queue, q, t, taken) ==
    /\ jobsFirst(queue, q)
    /\ taken + spoken(queue, q, t) <= MaxTransactions
    /\ t # NoTransaction => q = 0 /\ queue # <<>> /\ queue[1].device = t.device

\* The invariant of the queue, with the number of jobs in front named.
LEMMA QueueIs ==
    QueueInv <=> \E q : isQueue(strokes, q, transaction, mementos)
<1>1. QueueInv => \E q : isQueue(strokes, q, transaction, mementos)
  BY DEF QueueInv, isQueue
<1>2. (\E q : isQueue(strokes, q, transaction, mementos)) => QueueInv
  BY DEF QueueInv, isQueue, jobsFirst
<1>3. QED
  BY <1>1, <1>2

\* A stroke is appended while there are mementos left.
LEMMA StrokeStarts ==
    ASSUME NEW queue \in Seq(Strokes), NEW q, NEW t, NEW taken \in Nat,
           isQueue(queue, q, t, taken), NEW s \in Strokes, paints(s),
           taken + Cardinality(painting(queue)) < MaxTransactions,
           NEW r, r = Append(queue, s)
    PROVE  r \in Seq(Strokes) /\ isQueue(r, q, t, taken)
<1>1. /\ Len(queue) \in Nat /\ q \in 0 .. Len(queue)
      /\ \A k \in 1 .. Len(queue) : paints(queue[k]) <=> k > q
  BY DEF isQueue, jobsFirst
<1>2. /\ r \in Seq(Strokes) /\ Len(r) = Len(queue) + 1 /\ r[Len(queue) + 1] = s
      /\ \A k \in 1 .. Len(queue) : r[k] = queue[k]
  OBVIOUS
<1>3. Cardinality(painting(queue)) = Len(queue) - q
  BY PaintingCounted DEF isQueue
<1>4. jobsFirst(r, q)
  <2>1. ASSUME NEW k \in 1 .. Len(r) PROVE paints(r[k]) <=> k > q
    <3>1. CASE k \in 1 .. Len(queue)
      BY <1>1, <1>2, <3>1
    <3>2. CASE k \notin 1 .. Len(queue)
      <4>1. k = Len(queue) + 1 /\ k > q
        BY <1>1, <1>2, <3>2
      <4>2. QED
        BY <1>2, <4>1
    <3>3. QED
      BY <3>1, <3>2
  <2>2. q \in 0 .. Len(r)
    BY <1>1, <1>2
  <2>3. QED
    BY <2>1, <2>2 DEF jobsFirst
<1>5. taken + spoken(r, q, t) <= MaxTransactions
  <2>1. MaxTransactions \in Nat
    BY UndoAssumption
  <2>2. taken + (Len(queue) - q) < MaxTransactions
    BY <1>3
  <2>3. q \in Nat
    BY <1>1
  <2>4. QED
    BY <1>1, <1>2, <2>1, <2>2, <2>3 DEF spoken
<1>6. t # NoTransaction => q = 0 /\ r # <<>> /\ r[1].device = t.device
  <2>1. t # NoTransaction => q = 0 /\ queue # <<>> /\ queue[1].device = t.device
    BY DEF isQueue
  <2>2. queue # <<>> => r[1] = queue[1]
    <3>1. queue # <<>> => 1 \in 1 .. Len(queue)
      BY <1>1
    <3>2. QED
      BY <1>2, <3>1
  <2>3. r # <<>>
    BY <1>1, <1>2
  <2>4. QED
    BY <2>1, <2>2, <2>3
<1>7. QED
  BY <1>2, <1>4, <1>5, <1>6 DEF isQueue

\* The first stroke of the queue is done with.
LEMMA StrokeGoes ==
    ASSUME NEW queue \in Seq(Strokes), NEW q, NEW t, NEW taken \in Nat,
           isQueue(queue, q, t, taken), queue # <<>>,
           NEW r, r = Tail(queue)
    PROVE  /\ r \in Seq(Strokes)
           /\ paints(Head(queue)) => isQueue(r, 0, NoTransaction, taken)
           /\ ~paints(Head(queue)) => isQueue(r, q - 1, t, taken) /\ q > 0
<1>1. /\ Len(queue) \in Nat /\ q \in 0 .. Len(queue) /\ q \in Nat
      /\ \A k \in 1 .. Len(queue) : paints(queue[k]) <=> k > q
  BY DEF isQueue, jobsFirst
<1>2. isRest(Strokes, queue, r)
  BY Rest
<1>3. /\ r \in Seq(Strokes) /\ Len(r) = Len(queue) - 1 /\ Len(queue) > 0 /\ Head(queue) = queue[1]
      /\ \A k \in 1 .. (Len(queue) - 1) : r[k] = queue[k + 1]
  BY <1>2 DEF isRest
<1>4. paints(Head(queue)) <=> q = 0
  <2>1. 1 \in 1 .. Len(queue)
    BY <1>1, <1>3
  <2>2. paints(queue[1]) <=> 1 > q
    BY <1>1, <2>1
  <2>3. 1 > q <=> q = 0
    BY <1>1
  <2>4. QED
    BY <1>3, <2>2, <2>3
<1>5. MaxTransactions \in Nat
  BY UndoAssumption
<1>6. \A k \in 1 .. (Len(queue) - 1) : paints(r[k]) <=> k + 1 > q
  <2>1. ASSUME NEW k \in 1 .. (Len(queue) - 1) PROVE paints(r[k]) <=> k + 1 > q
    <3>1. k + 1 \in 1 .. Len(queue)
      BY <1>1
    <3>2. paints(queue[k + 1]) <=> k + 1 > q
      BY <1>1, <3>1
    <3>3. QED
      BY <1>3, <3>2
  <2>2. QED
    BY <2>1
<1>7. taken + spoken(queue, q, t) <= MaxTransactions
  BY DEF isQueue
<1>8. ASSUME q = 0 PROVE isQueue(r, 0, NoTransaction, taken)
  <2>1. jobsFirst(r, 0)
    BY <1>1, <1>3, <1>6, <1>8 DEF jobsFirst
  <2>2. taken + spoken(r, 0, NoTransaction) <= MaxTransactions
    BY <1>1, <1>3, <1>5, <1>7, <1>8 DEF spoken
  <2>3. QED
    BY <2>1, <2>2 DEF isQueue
<1>9. ASSUME q # 0 PROVE isQueue(r, q - 1, t, taken) /\ q > 0
  <2>1. t = NoTransaction
    BY <1>9 DEF isQueue
  <2>2. jobsFirst(r, q - 1)
    <3>1. ASSUME NEW k \in 1 .. Len(r) PROVE paints(r[k]) <=> k > q - 1
      <4>1. k \in 1 .. (Len(queue) - 1) /\ (k + 1 > q <=> k > q - 1)
        BY <1>1, <1>3
      <4>2. QED
        BY <1>6, <4>1
    <3>2. q - 1 \in 0 .. Len(r)
      BY <1>1, <1>3, <1>9
    <3>3. QED
      BY <3>1, <3>2 DEF jobsFirst
  <2>3. taken + spoken(r, q - 1, t) <= MaxTransactions
    BY <1>1, <1>3, <1>5, <1>7, <2>1 DEF spoken
  <2>4. q > 0
    BY <1>1, <1>9
  <2>5. QED
    BY <2>1, <2>2, <2>3, <2>4 DEF isQueue
<1>10. QED
  BY <1>3, <1>4, <1>8, <1>9

\* The state of one stroke of the queue is changed.
isClosed(queue, i, state, q, t, taken, r) == r \in Seq(Strokes) /\ isQueue(r, q, t, taken)

\* A stroke that ends or is cancelled stays where it is in the queue.
LEMMA StrokeCloses ==
    ASSUME NEW queue \in Seq(Strokes), NEW q, NEW t, NEW taken \in Nat,
           isQueue(queue, q, t, taken), NEW i \in 1 .. Len(queue), paints(queue[i]),
           NEW state \in {"ended", "cancelled"},
           NEW r, r = [queue EXCEPT ![i].state = state]
    PROVE  isClosed(queue, i, state, q, t, taken, r)
<1>1. /\ Len(queue) \in Nat /\ q \in 0 .. Len(queue)
      /\ \A k \in 1 .. Len(queue) : paints(queue[k]) <=> k > q
  BY DEF isQueue, jobsFirst
<1>2. PICK s : s = [queue[i] EXCEPT !.state = state]
  OBVIOUS
<1>3. s \in Strokes /\ s.kind = queue[i].kind /\ s.device = queue[i].device
  <2>1. queue[i] \in Strokes /\ queue[i].kind = "paint"
    BY DEF paints
  <2>2. queue[i] \in [kind : {"paint"}, device : Devices, state : {"open", "ended", "cancelled"}]
    BY <2>1 DEF Strokes, Jobs
  <2>3. QED
    BY <1>2, <2>2 DEF Strokes
<1>4. r = [queue EXCEPT ![i] = s]
  BY <1>2
<1>5. isReplaced(Strokes, queue, r)
  BY <1>3, <1>4, Replaced
<1>6. r \in Seq(Strokes) /\ Len(r) = Len(queue)
  BY <1>5 DEF isReplaced
<1>7. ASSUME NEW k \in 1 .. Len(queue)
      PROVE  r[k].kind = queue[k].kind /\ (paints(r[k]) => r[k].device = queue[k].device)
  <2>1. DOMAIN queue = 1 .. Len(queue)
    OBVIOUS
  <2>2. r[k] = IF k = i THEN s ELSE queue[k]
    BY <1>4, <2>1
  <2>3. QED
    BY <1>3, <2>2
<1>8. jobsFirst(r, q)
  BY <1>1, <1>6, <1>7 DEF jobsFirst, paints
<1>9. taken + spoken(r, q, t) <= MaxTransactions
  BY <1>6 DEF isQueue, spoken
<1>10. t # NoTransaction => q = 0 /\ r # <<>> /\ r[1].device = t.device
  <2>1. SUFFICES ASSUME t # NoTransaction PROVE q = 0 /\ r # <<>> /\ r[1].device = t.device
    OBVIOUS
  <2>2. q = 0 /\ queue # <<>> /\ queue[1].device = t.device
    BY <2>1 DEF isQueue
  <2>3. 1 \in 1 .. Len(queue)
    BY <1>1
  <2>4. r[1].device = queue[1].device
    BY <1>1, <1>7, <1>8, <1>6, <2>2, <2>3 DEF jobsFirst
  <2>5. r # <<>>
    BY <1>1, <1>6, <2>3
  <2>6. QED
    BY <2>2, <2>4, <2>5
<1>11. QED
  BY <1>6, <1>8, <1>9, <1>10 DEF isQueue, isClosed

\* What a stroke changes.
LEMMA ChangesTyped ==
    ASSUME NEW m \in Managers, NEW c \in Changes(m)
    PROVE  /\ c \in Managers
           /\ c.m_headsHashTable = m.m_headsHashTable /\ c.m_currentMemento = m.m_currentMemento
           /\ c.m_revisions = m.m_revisions /\ c.m_cancelledRevisions = m.m_cancelledRevisions
           /\ m.m_index \subseteq c.m_index
           /\ \A p \in Positions : c.m_hashTable[p] = m.m_hashTable[p] \/ p \in c.m_index
<1>0. /\ m.m_hashTable \in [Positions -> Tiles] /\ m.m_index \in SUBSET Positions
  BY ManagerFields
<1>1. CASE \E x \in DefaultPixels : c = setDefaultPixel(m, x)
  BY <1>1, PixelSet
<1>2. CASE \E p \in Positions : \E x \in Tiles : c = writeTile(m, p, x)
  <2>1. PICK p \in Positions, x \in Tiles : c = writeTile(m, p, x)
    BY <1>2
  <2>2. PICK hash, index : hash = [m.m_hashTable EXCEPT ![p] = x] /\ index = m.m_index \cup {p}
    OBVIOUS
  <2>3. c = [m EXCEPT !.m_hashTable = hash, !.m_index = index]
    BY <2>1, <2>2 DEF writeTile
  <2>4. hash \in Contents /\ index \in SUBSET Positions
    BY <1>0, <2>2 DEF Contents, Tiles
  <2>5. /\ c \in Managers /\ c.m_hashTable = hash /\ c.m_index = index
        /\ c.m_headsHashTable = m.m_headsHashTable /\ c.m_currentMemento = m.m_currentMemento
        /\ c.m_revisions = m.m_revisions /\ c.m_cancelledRevisions = m.m_cancelledRevisions
    BY <2>3, <2>4 DEF Managers
  <2>6. \A o \in Positions : hash[o] = m.m_hashTable[o] \/ o \in index
    BY <1>0, <2>2
  <2>7. QED
    BY <2>2, <2>5, <2>6
<1>3. QED
  BY <1>1, <1>2 DEF Changes, Tiles

\* What is typed, of the variables that a step leaves alone and of the others.
LEMMA ShapesFrom ==
    ASSUME Shapes, UNCHANGED <<stack, gui, document, images, files>>,
           devices' \in [Devices -> Managers], strokes' \in Seq(Strokes),
           transaction' \in Transactions \cup {NoTransaction}, mementos' \in Nat,
           events' = events
    PROVE  Shapes'
BY DEF Shapes, files

\* What belongs to an open transaction.
LEMMA OpenedTyped ==
    ASSUME devices \in [Devices -> Managers], NEW d \in Devices, NEW memento \in Nat,
           memento + 1 <= MaxTransactions,
           NEW t, t = opened(d, memento + 1)
    PROVE  /\ t \in Transactions /\ t # NoTransaction
           /\ t.device = d /\ t.memento = memento + 1 /\ memento + 1 \in Nat
           /\ t.oldDefaultPixel = devices[d].m_defaultPixel
           /\ \A m \in Managers :
                /\ ended(t, m) \in Transactions
                /\ ended(t, m).device = d /\ ended(t, m).memento = memento + 1
                /\ ended(t, m).oldDefaultPixel = t.oldDefaultPixel
                /\ ended(t, m).newDefaultPixel = m.m_defaultPixel
<1>1. PICK x, n : x = devices[d].m_defaultPixel /\ n = memento + 1
  OBVIOUS
<1>2. x \in DefaultPixels
  BY <1>1, ManagerFields
<1>3. n \in 1 .. MaxTransactions
  BY <1>1, UndoAssumption
<1>4. t = [device |-> d, memento |-> n, oldDefaultPixel |-> x, newDefaultPixel |-> x]
  BY <1>1 DEF opened
<1>5. t \in Transactions
  BY <1>2, <1>3, <1>4 DEF Transactions
<1>6. t # NoTransaction
  <2>1. "memento" \in DOMAIN t
    BY <1>4
  <2>2. "memento" \notin DOMAIN NoTransaction
    BY DEF NoTransaction
  <2>3. QED
    BY <2>1, <2>2
<1>7. ASSUME NEW m \in Managers
      PROVE  /\ ended(t, m) \in Transactions
             /\ ended(t, m).device = d /\ ended(t, m).memento = n
             /\ ended(t, m).oldDefaultPixel = t.oldDefaultPixel
             /\ ended(t, m).newDefaultPixel = m.m_defaultPixel
  <2>1. m.m_defaultPixel \in DefaultPixels
    BY ManagerFields
  <2>2. QED
    BY <1>2, <1>3, <1>4, <2>1 DEF ended, Transactions
<1>8. QED
  BY <1>1, <1>3, <1>4, <1>5, <1>6, <1>7

\* An open transaction ends.
LEMMA EndedTyped ==
    ASSUME NEW t \in Transactions, NEW m \in Managers, NEW u, u = ended(t, m)
    PROVE  /\ u \in Transactions /\ u.device = t.device /\ u.memento = t.memento
           /\ u.oldDefaultPixel = t.oldDefaultPixel /\ u.newDefaultPixel = m.m_defaultPixel
<1>1. m.m_defaultPixel \in DefaultPixels
  BY ManagerFields
<1>2. QED
  BY <1>1 DEF ended, Transactions

\* The queue is typed and ordered.
LEMMA TypedParts ==
    ASSUME TypedInv
    PROVE  /\ WellKept(stack) /\ Shapes /\ PagesInv
           /\ devices \in [Devices -> Managers] /\ stack.m_command_list \in Seq(Commands)
           /\ strokes \in Seq(Strokes) /\ transaction \in Transactions \cup {NoTransaction}
           /\ mementos \in Nat /\ images \in Seq(Images)
           /\ \E q : isQueue(strokes, q, transaction, mementos)
BY QueueIs DEF TypedInv, StackInv, Shapes

\* The strokes, as the tools and the worker see them.
LEMMA QueueSteps ==
    ASSUME TypedInv,
           \/ \E d \in Devices : startStroke(d)
           \/ \E i \in 1 .. Len(strokes) : closeStroke(i, "ended") \/ closeStroke(i, "cancelled")
           \/ dropStroke
    PROVE  (Shapes /\ QueueInv /\ PagesInv)'
<1>1. /\ WellKept(stack) /\ Shapes /\ PagesInv
      /\ strokes \in Seq(Strokes) /\ transaction \in Transactions \cup {NoTransaction}
      /\ mementos \in Nat
  BY TypedParts
<1>2. PICK q : isQueue(strokes, q, transaction, mementos)
  BY TypedParts
<1>3. SUFFICES /\ strokes' \in Seq(Strokes)
               /\ \E p : isQueue(strokes', p, transaction', mementos')
  <2>1. SUFFICES ASSUME strokes' \in Seq(Strokes),
                        \E p : isQueue(strokes', p, transaction', mementos')
                 PROVE  (Shapes /\ QueueInv /\ PagesInv)'
    OBVIOUS
  <2>2. /\ UNCHANGED <<devices, stack, transaction, gui, events, document, mementos, images, files>>
        /\ gui # "macro"
    BY <1>1 DEF startStroke, closeStroke, dropStroke, PagesInv
  <2>3. Shapes'
    BY <1>1, <2>1, <2>2, ShapesFrom DEF Shapes
  <2>4. QueueInv'
    BY <2>1 DEF QueueInv, isQueue, jobsFirst
  <2>5. PagesInv'
    BY <1>1, <2>2 DEF PagesInv
  <2>6. QED
    BY <2>3, <2>4, <2>5
<1>4. CASE \E d \in Devices : startStroke(d)
  <2>1. PICK d \in Devices : startStroke(d)
    BY <1>4
  <2>2. PICK s, r : s = Paint(d) /\ r = Append(strokes, s)
    OBVIOUS
  <2>3. s \in Strokes /\ paints(s)
    BY <2>2 DEF Paint, Strokes, paints
  <2>4. r \in Seq(Strokes) /\ isQueue(r, q, transaction, mementos)
    <3>1. mementos + Cardinality(painting(strokes)) < MaxTransactions
      BY <2>1 DEF startStroke
    <3>2. QED
      BY <1>1, <1>2, <2>2, <2>3, <3>1, StrokeStarts
  <2>5. strokes' = r /\ transaction' = transaction /\ mementos' = mementos
    BY <2>1, <2>2 DEF startStroke
  <2>6. QED
    BY <2>4, <2>5
<1>5. CASE \E i \in 1 .. Len(strokes) : closeStroke(i, "ended") \/ closeStroke(i, "cancelled")
  <2>1. PICK i \in 1 .. Len(strokes), state \in {"ended", "cancelled"} : closeStroke(i, state)
    BY <1>5
  <2>2. PICK queue, r : queue = strokes /\ r = [queue EXCEPT ![i].state = state]
    OBVIOUS
  <2>3. r \in Seq(Strokes) /\ isQueue(r, q, transaction, mementos)
    <3>1. paints(queue[i]) /\ i \in 1 .. Len(queue) /\ queue \in Seq(Strokes)
      BY <1>1, <2>1, <2>2 DEF closeStroke
    <3>2. isQueue(queue, q, transaction, mementos)
      BY <1>2, <2>2
    <3>3. state \in {"ended", "cancelled"} /\ mementos \in Nat
      BY <1>1
    <3>4. isClosed(queue, i, state, q, transaction, mementos, r)
      BY <2>2, <3>1, <3>2, <3>3, StrokeCloses
    <3>5. QED
      BY <3>4 DEF isClosed
  <2>4. strokes' = r /\ transaction' = transaction /\ mementos' = mementos
    BY <2>1, <2>2 DEF closeStroke
  <2>5. QED
    BY <2>3, <2>4
<1>6. CASE dropStroke
  <2>1. PICK r : r = Tail(strokes)
    OBVIOUS
  <2>2. /\ strokes # <<>> /\ paints(Head(strokes)) /\ strokes' = r
        /\ transaction = NoTransaction /\ transaction' = transaction /\ mementos' = mementos
    BY <1>6, <2>1 DEF dropStroke
  <2>3. r \in Seq(Strokes) /\ isQueue(r, 0, NoTransaction, mementos)
    BY <1>1, <1>2, <2>1, <2>2, StrokeGoes
  <2>4. QED
    BY <2>2, <2>3
<1>7. QED
  BY <1>4, <1>5, <1>6

\* The steps that neither touch the stack nor the images.
LEMMA Worked ==
    ASSUME TypedInv, gui # "macro", UNCHANGED <<stack, gui, events, document, images, files>>,
           devices' \in [Devices -> Managers], strokes' \in Seq(Strokes),
           transaction' \in Transactions \cup {NoTransaction}, mementos' \in Nat,
           \E p : isQueue(strokes', p, transaction', mementos')
    PROVE  (Shapes /\ QueueInv /\ PagesInv)'
<1>1. Shapes /\ PagesInv
  BY TypedParts
<1>2. Shapes'
  BY <1>1, ShapesFrom
<1>3. QueueInv'
  BY DEF QueueInv, isQueue, jobsFirst
<1>4. PagesInv'
  BY <1>1 DEF PagesInv
<1>5. QED
  BY <1>2, <1>3, <1>4

\* Nobody works while a macro is composed.
LEMMA WorkerIdle ==
    ASSUME TypedInv, gui = "macro"
    PROVE  strokes = <<>> /\ transaction = NoTransaction
BY DEF TypedInv, PagesInv

\* The stroke that is executed is the first of the queue.
LEMMA AtWork ==
    ASSUME TypedInv, transaction # NoTransaction
    PROVE  /\ transaction \in Transactions /\ transaction.device \in Devices
           /\ strokes # <<>> /\ strokes \in Seq(Strokes) /\ paints(Head(strokes))
           /\ isQueue(strokes, 0, transaction, mementos)
<1>1. strokes \in Seq(Strokes) /\ transaction \in Transactions
  BY TypedParts
<1>2. PICK q : isQueue(strokes, q, transaction, mementos)
  BY TypedParts
<1>3. q = 0 /\ strokes # <<>> /\ jobsFirst(strokes, 0)
  BY <1>2 DEF isQueue
<1>4. Len(strokes) \in Nat /\ Len(strokes) > 0 /\ Head(strokes) = strokes[1]
  BY <1>1, <1>3
<1>5. paints(strokes[1])
  <2>1. 1 \in 1 .. Len(strokes) /\ 1 > 0
    BY <1>4
  <2>2. QED
    BY <1>3, <2>1 DEF jobsFirst
<1>6. QED
  BY <1>1, <1>2, <1>3, <1>4, <1>5, TransactionFields

\* The first job of a stroke takes a memento.
LEMMA StrokeIsInitialised ==
    ASSUME TypedInv, initStrokeCallback
    PROVE  (Shapes /\ QueueInv /\ PagesInv)'
<1>1. /\ devices \in [Devices -> Managers] /\ strokes \in Seq(Strokes) /\ mementos \in Nat
  BY TypedParts
<1>2. PICK q : isQueue(strokes, q, transaction, mementos)
  BY TypedParts
<1>3. PICK d : d = Head(strokes).device
  OBVIOUS
<1>4. PICK g, t, n : g = getMemento(devices[d], n) /\ t = opened(d, n) /\ n = mementos + 1
  OBVIOUS
<1>5. /\ strokes # <<>> /\ paints(Head(strokes)) /\ transaction = NoTransaction
      /\ devices' = [devices EXCEPT ![d] = g] /\ transaction' = t /\ mementos' = n
      /\ UNCHANGED <<stack, strokes, gui, events, document, images, files>>
  BY <1>3, <1>4 DEF initStrokeCallback
<1>6. Len(strokes) \in Nat /\ Len(strokes) > 0 /\ Head(strokes) = strokes[1] /\ strokes[1] \in Strokes
  BY <1>1, <1>5
<1>7. d \in Devices
  BY <1>3, <1>5, <1>6 DEF paints, Strokes, Jobs
<1>8. q = 0
  <2>1. /\ q \in 0 .. Len(strokes)
        /\ \A k \in 1 .. Len(strokes) : paints(strokes[k]) <=> k > q
    BY <1>2 DEF isQueue, jobsFirst
  <2>2. 1 \in 1 .. Len(strokes)
    BY <1>6
  <2>3. 1 > q
    BY <1>5, <1>6, <2>1, <2>2
  <2>4. QED
    BY <1>6, <2>1, <2>3
<1>9. mementos + Len(strokes) <= MaxTransactions
  <2>1. mementos + spoken(strokes, 0, NoTransaction) <= MaxTransactions
    BY <1>2, <1>5, <1>8 DEF isQueue
  <2>2. spoken(strokes, 0, NoTransaction) = Len(strokes)
    BY <1>6 DEF spoken
  <2>3. QED
    BY <2>1, <2>2
<1>10. n \in Nat /\ mementos + 1 <= MaxTransactions
  BY <1>1, <1>4, <1>6, <1>9, UndoAssumption
<1>11. t \in Transactions /\ t # NoTransaction /\ t.device = d
  <2>1. t = opened(d, mementos + 1)
    BY <1>4
  <2>2. QED
    BY <1>1, <1>7, <1>10, <2>1, OpenedTyped
<1>12. g \in Managers
  <2>1. PICK m : m = devices[d]
    OBVIOUS
  <2>2. m \in Managers
    BY <1>1, <1>7, <2>1
  <2>3. QED
    BY <1>4, <1>10, <2>1, <2>2, Opened
<1>13. devices' \in [Devices -> Managers]
  BY <1>1, <1>5, <1>12
<1>14. isQueue(strokes, 0, t, n)
  <2>1. jobsFirst(strokes, 0)
    BY <1>2, <1>8 DEF isQueue
  <2>2. n + spoken(strokes, 0, t) <= MaxTransactions
    BY <1>1, <1>4, <1>6, <1>9, <1>11, UndoAssumption DEF spoken
  <2>3. strokes[1].device = t.device
    BY <1>3, <1>6, <1>11
  <2>4. QED
    BY <1>5, <2>1, <2>2, <2>3 DEF isQueue
<1>15. gui # "macro"
  BY <1>5, WorkerIdle
<1>16. QED
  BY <1>1, <1>5, <1>10, <1>11, <1>13, <1>14, <1>15, Worked

\* The other jobs.
LEMMA StrokeIsDone ==
    ASSUME TypedInv, doStrokeCallback
    PROVE  (Shapes /\ QueueInv /\ PagesInv)'
<1>1. devices \in [Devices -> Managers] /\ strokes \in Seq(Strokes) /\ mementos \in Nat
  BY TypedParts
<1>2. transaction # NoTransaction
  BY DEF doStrokeCallback
<1>3. /\ transaction \in Transactions /\ transaction.device \in Devices
      /\ isQueue(strokes, 0, transaction, mementos)
  BY <1>2, AtWork
<1>4. PICK d, m : d = transaction.device /\ m = devices[d]
  OBVIOUS
<1>5. m \in Managers
  BY <1>1, <1>3, <1>4
<1>6. PICK c \in Changes(m) : devices' = [devices EXCEPT ![d] = c]
  BY <1>4 DEF doStrokeCallback
<1>7. c \in Managers
  BY <1>5, <1>6, ChangesTyped
<1>8. devices' \in [Devices -> Managers]
  BY <1>1, <1>6, <1>7
<1>9. UNCHANGED <<stack, strokes, transaction, gui, events, document, mementos, images, files>>
  BY DEF doStrokeCallback
<1>10. gui # "macro"
  BY <1>2, WorkerIdle
<1>11. QED
  BY <1>1, <1>3, <1>8, <1>9, <1>10, Worked

\* A worker that runs a queued undo or redo keeps types, queue and images.
LEMMA CommandIsRun ==
    ASSUME TypedInv, runCommand
    PROVE  (Shapes /\ QueueInv /\ PagesInv)'
<1>1. devices \in [Devices -> Managers] /\ strokes \in Seq(Strokes) /\ mementos \in Nat
      /\ transaction \in Transactions \cup {NoTransaction}
  BY TypedParts
<1>2. PICK q : isQueue(strokes, q, transaction, mementos)
  BY TypedParts
<1>3. PICK r, job : r = Tail(strokes) /\ job = Head(strokes)
  OBVIOUS
<1>4. /\ strokes # <<>> /\ ~paints(Head(strokes)) /\ strokes' = r
      /\ UNCHANGED <<stack, transaction, gui, events, document, mementos, images, files>>
      /\ devices' = IF job.kind = "undo" THEN undone(devices, job.transaction)
                    ELSE redone(devices, job.transaction)
  BY <1>3 DEF runCommand
<1>5. job \in Jobs
  <2>1. Head(strokes) \in Strokes
    BY <1>1, <1>4
  <2>2. QED
    BY <1>3, <1>4, <2>1 DEF Strokes, paints
<1>6. PICK kind, t : kind = job.kind /\ t = job.transaction
  OBVIOUS
<1>7. t \in Transactions /\ kind \in {"undo", "redo"}
  BY <1>5, <1>6 DEF Jobs
<1>8. devices' = carriedOut(kind, devices, t)
  BY <1>4, <1>6, <1>7 DEF carriedOut
<1>9. devices' \in [Devices -> Managers]
  <2>1. PICK managers, after : managers = devices /\ after = carriedOut(kind, managers, t)
    OBVIOUS
  <2>2. after \in [Devices -> Managers]
    BY <1>1, <1>7, <2>1, CarriedOut
  <2>3. QED
    BY <1>8, <2>1, <2>2
<1>10. r \in Seq(Strokes) /\ isQueue(r, q - 1, transaction, mementos)
  BY <1>1, <1>2, <1>3, <1>4, StrokeGoes
<1>11. gui # "macro"
  BY <1>4, WorkerIdle
<1>12. QED
  BY <1>1, <1>4, <1>9, <1>10, <1>11, Worked

\* The cancel job of a stroke, which rolls its transaction back, keeps them.
LEMMA StrokeIsCancelled ==
    ASSUME TypedInv, cancelStrokeCallback
    PROVE  (Shapes /\ QueueInv /\ PagesInv)'
<1>1. devices \in [Devices -> Managers] /\ strokes \in Seq(Strokes) /\ mementos \in Nat
  BY TypedParts
<1>2. transaction # NoTransaction
  BY DEF cancelStrokeCallback
<1>3. /\ transaction \in Transactions /\ transaction.device \in Devices
      /\ strokes # <<>> /\ paints(Head(strokes))
      /\ isQueue(strokes, 0, transaction, mementos)
  BY <1>2, AtWork
<1>4. PICK d, m, c, u, t, r, n :
        /\ d = transaction.device /\ m = devices[d] /\ c = commit(m) /\ n = transaction.memento
        /\ u = [devices EXCEPT ![d] = c] /\ t = ended(transaction, m) /\ r = Tail(strokes)
  OBVIOUS
<1>5. /\ d \in Devices /\ m \in Managers /\ c \in Managers /\ u \in [Devices -> Managers]
      /\ t \in Transactions
  <2>1. d \in Devices /\ m \in Managers
    BY <1>1, <1>3, <1>4
  <2>2. c \in Managers
    BY <1>4, <2>1, Committed
  <2>3. t \in Transactions
    BY <1>3, <1>4, <2>1, EndedTyped
  <2>4. QED
    BY <1>1, <1>4, <2>1, <2>2, <2>3
<1>6. PICK v : v = undone(u, t)
  OBVIOUS
<1>7. /\ devices' = [v EXCEPT ![d] = purgeHistory(v[d], n)]
      /\ transaction' = NoTransaction /\ strokes' = r
      /\ UNCHANGED <<stack, gui, events, document, mementos, images, files>>
  <2>1. u = [devices EXCEPT ![d] = commit(devices[d])]
    BY <1>4
  <2>2. QED
    BY <1>4, <1>6, <2>1 DEF cancelStrokeCallback
<1>8. v \in [Devices -> Managers]
  <2>1. v = carriedOut("undo", u, t)
    BY <1>6 DEF carriedOut
  <2>2. QED
    BY <1>5, <2>1, CarriedOut
<1>9. purgeHistory(v[d], n) \in Managers
  <2>1. PICK w, o, p : /\ w = v[d] /\ p = purgeHistory(w, n)
                       /\ o = IF w.m_currentMemento = n THEN commit(w) ELSE w
    OBVIOUS
  <2>2. w \in Managers
    BY <1>5, <1>8, <2>1
  <2>3. p \in Managers
    BY <2>1, <2>2, Purged
  <2>4. QED
    BY <2>1, <2>3
<1>10. devices' \in [Devices -> Managers]
  BY <1>7, <1>8, <1>9
<1>11. r \in Seq(Strokes) /\ isQueue(r, 0, NoTransaction, mementos)
  BY <1>1, <1>3, <1>4, StrokeGoes
<1>12. gui # "macro"
  BY <1>2, WorkerIdle
<1>13. QED
  BY <1>1, <1>7, <1>10, <1>11, <1>12, Worked

\* After a push there is again an image for each index.
LEMMA PushedShapes ==
    ASSUME NEW managers, NEW command, NEW e, NEW oldest,
           StackInv, Shapes, hasPushed(managers, command, e, oldest)
    PROVE  /\ stack'.m_command_list \in Seq(Commands) /\ stack'.m_index \in Nat
           /\ images' \in Seq(Images) /\ Len(images') = count(stack') + 1
           /\ devices' \in [Devices -> Managers]
<1>1. /\ isPushed(stack, command, e, stack', oldest)
      /\ isGrown(Images, images, stack.m_index + 1, image', e, images')
      /\ devices' \in [Devices -> Managers]
  BY DEF hasPushed
<1>2. PICK s, t, pages : s = stack /\ t = stack' /\ pages = images'
  OBVIOUS
<1>3. s.m_index \in Nat
  <2>1. WellKept(s) /\ s.m_command_list \in Seq(Commands)
    BY <1>2 DEF StackInv, Shapes
  <2>2. QED
    BY <2>1, StackFields
<1>4. /\ t.m_command_list \in Seq(Commands) /\ Len(t.m_command_list) = s.m_index + 1 - e
      /\ t.m_index = s.m_index + 1 - e /\ e \in 0 .. s.m_index
  BY <1>1, <1>2 DEF isPushed, isGrown
<1>5. pages \in Seq(Images) /\ Len(pages) = (s.m_index + 1) + 1 - e
  BY <1>1, <1>2 DEF isGrown
<1>6. t.m_index \in Nat /\ Len(pages) = Len(t.m_command_list) + 1
  BY <1>3, <1>4, <1>5
<1>7. QED
  BY <1>1, <1>2, <1>4, <1>5, <1>6 DEF count

\* A finished stroke leaves a command.
LEMMA StrokeIsFinished ==
    ASSUME TypedInv, finishStrokeCallback
    PROVE  (Shapes /\ QueueInv /\ PagesInv)'
<1>1. /\ devices \in [Devices -> Managers] /\ strokes \in Seq(Strokes) /\ mementos \in Nat
      /\ StackInv /\ Shapes /\ PagesInv
  BY TypedParts DEF TypedInv
<1>2. transaction # NoTransaction
  BY DEF finishStrokeCallback
<1>3. /\ transaction \in Transactions /\ transaction.device \in Devices
      /\ strokes # <<>> /\ paints(Head(strokes))
      /\ isQueue(strokes, 0, transaction, mementos)
  BY <1>2, AtWork
<1>4. PICK d, m, c, u, t, parts, command, r :
        /\ d = transaction.device /\ m = devices[d] /\ c = commit(m)
        /\ u = [devices EXCEPT ![d] = c] /\ t = ended(transaction, m) /\ r = Tail(strokes)
        /\ parts = <<t>> /\ command = [saved |-> TRUE, parts |-> parts]
  OBVIOUS
<1>5. u \in [Devices -> Managers] /\ t \in Transactions /\ command \in Commands
  <2>1. d \in Devices /\ m \in Managers
    BY <1>1, <1>3, <1>4
  <2>2. c \in Managers
    BY <1>4, <2>1, Committed
  <2>3. t \in Transactions
    BY <1>3, <1>4, <2>1, EndedTyped
  <2>4. parts \in Seq(Transactions)
    BY <1>4, <2>3
  <2>5. QED
    BY <1>1, <1>4, <2>1, <2>2, <2>3, <2>4 DEF Commands
<1>6. /\ push(u, command)
      /\ events' = Append(events, stack'.m_index)
      /\ transaction' = NoTransaction /\ strokes' = r /\ gui # "macro"
      /\ UNCHANGED <<gui, document, mementos, files>>
  <2>1. u = [devices EXCEPT ![d] = commit(devices[d])]
    BY <1>4
  <2>2. QED
    BY <1>4, <2>1 DEF finishStrokeCallback
<1>7. ~stack.m_macro /\ Len(images) = count(stack) + 1
  BY <1>1, <1>6 DEF StackInv, PagesInv
<1>8. PICK e, oldest : hasPushed(u, command, e, oldest)
  BY <1>1, <1>5, <1>6, <1>7, Pushing
<1>9. /\ stack'.m_command_list \in Seq(Commands) /\ stack'.m_index \in Nat
      /\ images' \in Seq(Images) /\ Len(images') = count(stack') + 1
      /\ devices' \in [Devices -> Managers]
  BY <1>1, <1>8, PushedShapes
<1>10. r \in Seq(Strokes) /\ isQueue(r, 0, NoTransaction, mementos)
  BY <1>1, <1>3, <1>4, StrokeGoes
<1>11. events' \in Seq(Nat)
  <2>1. PICK x : x = stack'.m_index
    OBVIOUS
  <2>2. x \in Nat /\ events \in Seq(Nat) /\ events' = Append(events, x)
    BY <1>1, <1>6, <1>9, <2>1 DEF Shapes
  <2>3. QED
    BY <2>2
<1>12. Shapes'
  BY <1>1, <1>6, <1>9, <1>10, <1>11 DEF Shapes, files
<1>13. QueueInv'
  BY <1>6, <1>10 DEF QueueInv, isQueue, jobsFirst
<1>14. PagesInv'
  BY <1>6, <1>9 DEF PagesInv
<1>15. QED
  BY <1>12, <1>13, <1>14

\* The queue is empty under the lock, and mementos are left.
LEMMA UnderLock ==
    ASSUME TypedInv, underLock
    PROVE  /\ strokes = <<>> /\ transaction = NoTransaction /\ gui # "macro" /\ ~stack.m_macro
           /\ Len(images) = count(stack) + 1 /\ mementos <= MaxTransactions
<1>1. strokes = <<>> /\ gui # "macro"
  BY DEF underLock
<1>2. ~stack.m_macro /\ Len(images) = count(stack) + 1
  BY <1>1 DEF TypedInv, StackInv, PagesInv
<1>3. PICK q : isQueue(strokes, q, transaction, mementos)
  BY TypedParts
<1>4. transaction = NoTransaction
  BY <1>1, <1>3 DEF isQueue
<1>5. mementos <= MaxTransactions
  <2>1. q = 0 /\ spoken(strokes, q, transaction) = 0
    <3>1. q \in 0 .. Len(strokes) /\ Len(strokes) = 0
      BY <1>1, <1>3 DEF isQueue, jobsFirst
    <3>2. q \in 0 .. 0
      BY <3>1
    <3>3. q = 0
      BY <3>2
    <3>4. Len(strokes) - q = 0 - 0
      BY <3>1, <3>3
    <3>5. 0 - 0 = 0
      OBVIOUS
    <3>6. QED
      BY <1>4, <3>3, <3>4, <3>5 DEF spoken
  <2>2. mementos + 0 <= MaxTransactions
    BY <1>3, <2>1 DEF isQueue
  <2>3. mementos \in Nat
    BY TypedParts
  <2>4. QED
    BY <2>2, <2>3
<1>6. QED
  BY <1>1, <1>2, <1>4, <1>5

\* An empty queue and nobody executed.
LEMMA EmptyQueue ==
    ASSUME NEW taken \in Nat, taken <= MaxTransactions
    PROVE  isQueue(<<>>, 0, NoTransaction, taken)
<1>1. Len(<<>>) = 0
  BY NothingTyped
<1>2. jobsFirst(<<>>, 0)
  BY <1>1 DEF jobsFirst
<1>3. spoken(<<>>, 0, NoTransaction) = 0
  BY <1>1 DEF spoken
<1>4. QED
  BY <1>2, <1>3 DEF isQueue

\* A transaction of the GUI thread: opened, filled and committed at once.
LEMMA LegacyTransaction ==
    ASSUME devices \in [Devices -> Managers], NEW d \in Devices, NEW n \in Nat,
           n + 1 <= MaxTransactions,
           NEW c \in Changes(getMemento(devices[d], n + 1)),
           NEW t, t = ended(opened(d, n + 1), c),
           NEW after, after = [devices EXCEPT ![d] = commit(c)]
    PROVE  c \in Managers /\ t \in Transactions /\ after \in [Devices -> Managers]
<1>1. PICK m, k, g, o, x : /\ m = devices[d] /\ k = n + 1 /\ g = getMemento(m, k)
                           /\ o = opened(d, n + 1) /\ x = commit(c)
  OBVIOUS
<1>2. m \in Managers /\ k \in Nat
  BY <1>1
<1>3. g \in Managers
  BY <1>1, <1>2, Opened
<1>4. c \in Changes(g)
  BY <1>1
<1>5. c \in Managers
  BY <1>3, <1>4, ChangesTyped
<1>6. o \in Transactions
  BY <1>1, OpenedTyped
<1>7. t \in Transactions
  BY <1>1, <1>5, <1>6, EndedTyped
<1>8. x \in Managers
  BY <1>1, <1>5, Committed
<1>9. after \in [Devices -> Managers]
  BY <1>1, <1>8
<1>10. QED
  BY <1>5, <1>7, <1>9

\* A command of the legacy adapter, carried out at once, keeps them.
LEMMA LegacyIsCommitted ==
    ASSUME TypedInv, NEW d \in Devices, commitLegacy(d)
    PROVE  (Shapes /\ QueueInv /\ PagesInv)'
<1>1. /\ devices \in [Devices -> Managers] /\ mementos \in Nat /\ document \in Documents
      /\ StackInv /\ Shapes /\ PagesInv
  BY TypedParts DEF TypedInv, Shapes
<1>2. /\ underLock /\ mementos < MaxTransactions /\ mementos' = mementos + 1 /\ gui' = "idle"
      /\ UNCHANGED <<strokes, transaction, events, files>>
      /\ document' = slotUndoStackIndexChanged(document, stack', stack'.m_index)
  BY DEF commitLegacy
<1>3. PICK c \in Changes(getMemento(devices[d], mementos + 1)) :
        LET t == ended(opened(d, mementos + 1), c)
        IN  push([devices EXCEPT ![d] = commit(c)], [saved |-> FALSE, parts |-> <<t>>])
  BY DEF commitLegacy
<1>4. PICK t, u, parts, command :
        /\ t = ended(opened(d, mementos + 1), c) /\ u = [devices EXCEPT ![d] = commit(c)]
        /\ parts = <<t>> /\ command = [saved |-> FALSE, parts |-> parts]
  OBVIOUS
<1>5. push(u, command)
  BY <1>3, <1>4
<1>6. mementos + 1 <= MaxTransactions
  BY <1>1, <1>2, UndoAssumption
<1>7. u \in [Devices -> Managers] /\ command \in Commands
  <2>1. t \in Transactions /\ u \in [Devices -> Managers]
    BY <1>1, <1>4, <1>6, LegacyTransaction
  <2>2. parts \in Seq(Transactions)
    BY <1>4, <2>1
  <2>3. QED
    BY <1>4, <2>1, <2>2 DEF Commands
<1>8. /\ strokes = <<>> /\ transaction = NoTransaction /\ ~stack.m_macro
      /\ Len(images) = count(stack) + 1
  BY <1>2, UnderLock
<1>9. PICK e, oldest : hasPushed(u, command, e, oldest)
  BY <1>1, <1>5, <1>7, <1>8, Pushing
<1>10. /\ stack'.m_command_list \in Seq(Commands)
       /\ images' \in Seq(Images) /\ Len(images') = count(stack') + 1
       /\ devices' \in [Devices -> Managers]
  BY <1>1, <1>9, PushedShapes
<1>11. document' \in Documents
  BY <1>1, <1>2, DocumentTyped
<1>12. Shapes'
  BY <1>1, <1>2, <1>10, <1>11 DEF Shapes, files
<1>13. QueueInv'
  <2>1. mementos + 1 \in Nat
    BY <1>1
  <2>2. isQueue(<<>>, 0, NoTransaction, mementos + 1)
    BY <1>6, <2>1, EmptyQueue
  <2>3. strokes' = <<>> /\ transaction' = NoTransaction
    BY <1>2, <1>8
  <2>4. isQueue(strokes', 0, transaction', mementos')
    BY <1>2, <2>2, <2>3
  <2>5. QED
    BY <2>4 DEF QueueInv, isQueue, jobsFirst
<1>14. PagesInv'
  BY <1>2, <1>10 DEF PagesInv
<1>15. QED
  BY <1>12, <1>13, <1>14

\* A list in reverse order.
LEMMA TurnedRound ==
    ASSUME NEW T, NEW list \in Seq(T), NEW r, r = Reverse(list)
    PROVE  r \in Seq(T)
BY Reversed

\* The commands on the way to an index.
LEMMA WayTyped ==
    ASSUME WellKept(stack), stack.m_command_list \in Seq(Commands), NEW idx \in 0 .. count(stack)
    PROVE  wayTo(idx) \in Seq(Commands)
<1>1. PICK list, i, n : list = stack.m_command_list /\ i = stack.m_index /\ n = Len(list)
  OBVIOUS
<1>2. list \in Seq(Commands) /\ i \in 0 .. n /\ n \in Nat /\ i \in Nat /\ idx \in 0 .. n
  <2>1. PICK s : s = stack
    OBVIOUS
  <2>2. WellKept(s) /\ s.m_command_list \in Seq(Commands)
    BY <2>1
  <2>3. s.m_index \in 0 .. count(s) /\ count(s) = Len(s.m_command_list)
    BY <2>2, StackFields
  <2>4. QED
    BY <1>1, <2>1, <2>3
<1>3. PICK a, b : a = idx + 1 /\ b = i + 1
  OBVIOUS
<1>4. PICK undoing, redoing : undoing = SubSeq(list, a, i) /\ redoing = SubSeq(list, b, idx)
  OBVIOUS
<1>5. CASE idx < i
  <2>1. a \in 1 .. (Len(list) + 1) /\ i \in (a - 1) .. Len(list)
    BY <1>1, <1>2, <1>3, <1>5
  <2>2. undoing \in Seq(Commands)
    BY <1>2, <1>4, <2>1, CutOut
  <2>3. PICK r : r = Reverse(undoing)
    OBVIOUS
  <2>4. r \in Seq(Commands)
    BY <2>2, <2>3, TurnedRound
  <2>5. wayTo(idx) = r
    BY <1>1, <1>3, <1>4, <1>5, <2>3 DEF wayTo
  <2>6. QED
    BY <2>4, <2>5
<1>6. CASE ~(idx < i)
  <2>1. b \in 1 .. (Len(list) + 1) /\ idx \in (b - 1) .. Len(list)
    BY <1>1, <1>2, <1>3, <1>6
  <2>2. redoing \in Seq(Commands)
    BY <1>2, <1>4, <2>1, CutOut
  <2>3. wayTo(idx) = redoing
    BY <1>1, <1>3, <1>4, <1>6 DEF wayTo
  <2>4. QED
    BY <2>2, <2>3
<1>7. QED
  BY <1>5, <1>6

\* A queue of jobs.
LEMMA JobsOnly ==
    ASSUME NEW queue \in Seq(Jobs), NEW taken \in Nat, taken <= MaxTransactions
    PROVE  queue \in Seq(Strokes) /\ isQueue(queue, Len(queue), NoTransaction, taken)
<1>1. Jobs \subseteq Strokes
  BY DEF Strokes
<1>2. queue \in Seq(Strokes) /\ Len(queue) \in Nat
  BY <1>1
<1>3. ASSUME NEW k \in 1 .. Len(queue) PROVE ~paints(queue[k]) /\ ~(k > Len(queue))
  <2>1. queue[k] \in Jobs /\ ~(k > Len(queue))
    BY <1>2
  <2>2. QED
    BY <2>1 DEF paints, Jobs
<1>4. jobsFirst(queue, Len(queue))
  BY <1>2, <1>3 DEF jobsFirst
<1>5. PICK n : n = Len(queue)
  OBVIOUS
<1>6. spoken(queue, n, NoTransaction) = 0
  <2>1. Len(queue) - n = 0
    BY <1>2, <1>5
  <2>2. QED
    BY <2>1 DEF spoken
<1>7. QED
  BY <1>2, <1>4, <1>5, <1>6 DEF isQueue

\* A move to another index.
LEMMA Moved ==
    ASSUME TypedInv, NEW idx \in 0 .. count(stack), underLock, moveTo(idx), gui' = "idle",
           UNCHANGED <<transaction, events, mementos, images, files>>
    PROVE  (Shapes /\ QueueInv /\ PagesInv)'
<1>1. /\ devices \in [Devices -> Managers] /\ mementos \in Nat /\ document \in Documents
      /\ WellKept(stack) /\ stack.m_command_list \in Seq(Commands)
      /\ StackInv /\ Shapes /\ PagesInv
  BY TypedParts DEF TypedInv, Shapes
<1>2. /\ strokes = <<>> /\ transaction = NoTransaction
      /\ Len(images) = count(stack) + 1 /\ mementos <= MaxTransactions
  BY UnderLock
<1>3. PICK kind, way, earlier, n, done :
        /\ kind = (IF idx < stack.m_index THEN "undo" ELSE "redo") /\ way = wayTo(idx)
        /\ earlier = [devices |-> devices, strokes |-> strokes] /\ n = Len(way)
        /\ done = executing(kind, earlier, way)[n]
  OBVIOUS
<1>4. /\ devices' = done.devices /\ strokes' = done.strokes
      /\ stack' = indexSet(stack, idx, FALSE)
      /\ document' = slotUndoStackIndexChanged(document, stack', idx)
  BY <1>3 DEF moveTo
<1>5. way \in Seq(Commands) /\ kind \in {"undo", "redo"}
  BY <1>1, <1>3, WayTyped
<1>6. earlier.strokes \in Seq(Jobs) /\ earlier \in Affairs
  <2>1. <<>> \in Seq(Jobs) /\ <<>> \in Seq(Strokes)
    OBVIOUS
  <2>2. QED
    BY <1>1, <1>2, <1>3, <2>1 DEF Affairs
<1>7. n \in 0 .. n /\ n = Len(way)
  BY <1>3, <1>5
<1>8. done \in Affairs
  <2>1. kind \in {"undo", "redo", "delete"}
    BY <1>5
  <2>2. QED
    BY <1>3, <1>5, <1>6, <1>7, <2>1, ExecutingTyped
<1>9. done.strokes \in Seq(Jobs)
  BY <1>3, <1>5, <1>6, <1>7, JobsQueued
<1>10. PICK queue : queue = strokes'
  OBVIOUS
<1>11. queue \in Seq(Strokes) /\ isQueue(queue, Len(queue), NoTransaction, mementos)
  <2>1. queue \in Seq(Jobs)
    BY <1>4, <1>9, <1>10
  <2>2. QED
    BY <1>1, <1>2, <2>1, JobsOnly
<1>12. stack'.m_command_list = stack.m_command_list /\ stack'.m_index = idx
  <2>1. PICK s, t, clean : s = stack /\ t = stack' /\ clean = FALSE
    OBVIOUS
  <2>2. s \in StacksOf(Commands)
    <3>1. WellKept(s) /\ s.m_command_list \in Seq(Commands)
      BY <1>1, <2>1
    <3>2. QED
      BY <3>1, StackFields
  <2>3. t = indexSet(s, idx, clean) /\ clean \in BOOLEAN
    BY <1>4, <2>1
  <2>4. t.m_command_list = s.m_command_list /\ t.m_index = idx
    BY <2>2, <2>3, IndexSetFields
  <2>5. QED
    BY <2>1, <2>4
<1>13. document' \in Documents
  BY <1>1, <1>4, DocumentTyped
<1>14. Shapes'
  BY <1>1, <1>4, <1>8, <1>10, <1>11, <1>12, <1>13 DEF Shapes, files, Affairs
<1>15. QueueInv'
  <2>1. isQueue(strokes', Len(queue), transaction', mementos')
    BY <1>2, <1>10, <1>11
  <2>2. QED
    BY <2>1 DEF QueueInv, isQueue, jobsFirst
<1>16. PagesInv'
  BY <1>2, <1>12 DEF PagesInv, count
<1>17. QED
  BY <1>14, <1>15, <1>16

\* Undo, redo and a jump of the history docker keep them.
LEMMA MoveSteps ==
    ASSUME TypedInv, undo \/ redo \/ \E idx \in 0 .. count(stack) : setIndex(idx)
    PROVE  (Shapes /\ QueueInv /\ PagesInv)'
<1>1. PICK i, n : i = stack.m_index /\ n = count(stack)
  OBVIOUS
<1>2. i \in 0 .. n /\ n \in Nat
  <2>1. PICK s : s = stack
    OBVIOUS
  <2>2. WellKept(s) /\ s.m_command_list \in Seq(Commands)
    BY <2>1, TypedParts
  <2>3. QED
    BY <1>1, <2>1, <2>2, StackFields
<1>3. CASE undo
  <2>1. /\ underLock /\ canUndo(stack) /\ moveTo(i - 1) /\ gui' = "idle"
        /\ UNCHANGED <<transaction, events, mementos, images, files>>
    BY <1>1, <1>3 DEF undo
  <2>2. i - 1 \in 0 .. count(stack)
    BY <1>1, <1>2, <2>1 DEF canUndo
  <2>3. QED
    BY <2>1, <2>2, Moved
<1>4. CASE redo
  <2>1. /\ underLock /\ canRedo(stack) /\ moveTo(i + 1) /\ gui' = "idle"
        /\ UNCHANGED <<transaction, events, mementos, images, files>>
    BY <1>1, <1>4 DEF redo
  <2>2. i + 1 \in 0 .. count(stack)
    BY <1>1, <1>2, <2>1 DEF canRedo
  <2>3. QED
    BY <2>1, <2>2, Moved
<1>5. CASE \E idx \in 0 .. count(stack) : setIndex(idx)
  <2>1. PICK idx \in 0 .. count(stack) : setIndex(idx)
    BY <1>5
  <2>2. /\ underLock /\ moveTo(idx) /\ gui' = "idle"
        /\ UNCHANGED <<transaction, events, mementos, images, files>>
    BY <2>1 DEF setIndex
  <2>3. QED
    BY <2>2, Moved
<1>6. QED
  BY <1>3, <1>4, <1>5

\* beginMacro() cuts off what can be redone.
LEMMA MacroIsBegun ==
    ASSUME TypedInv, beginMacro
    PROVE  (Shapes /\ QueueInv /\ PagesInv)'
<1>1. /\ devices \in [Devices -> Managers] /\ mementos \in Nat /\ document \in Documents
      /\ WellKept(stack) /\ stack.m_command_list \in Seq(Commands) /\ images \in Seq(Images)
      /\ StackInv /\ Shapes /\ PagesInv
  BY TypedParts DEF TypedInv, Shapes
<1>2. PICK command, tail : command = [saved |-> FALSE, parts |-> <<>>] /\ tail = redoTail(stack)
  OBVIOUS
<1>3. /\ underLock /\ stack' = macroBegun(stack, command) /\ devices' = deleted(devices, tail)
      /\ images' = SubSeq(images, 1, stack.m_index + 1) /\ gui' = "macro"
      /\ UNCHANGED <<strokes, transaction, events, document, mementos, files>>
  BY <1>2 DEF beginMacro
<1>4. /\ strokes = <<>> /\ transaction = NoTransaction /\ ~stack.m_macro
      /\ Len(images) = count(stack) + 1
  BY <1>3, UnderLock
<1>5. PICK s, t : s = stack /\ t = stack'
  OBVIOUS
<1>6. WellKept(s) /\ s.m_command_list \in Seq(Commands) /\ ~s.m_macro
  BY <1>1, <1>4, <1>5
<1>7. command \in Commands
  <2>1. <<>> \in Seq(Transactions)
    OBVIOUS
  <2>2. QED
    BY <1>2, <2>1 DEF Commands
<1>8. PICK longer : isLonger(s, command, longer) /\ t = [longer EXCEPT !.m_macro = TRUE]
  <2>1. t = macroBegun(s, command)
    BY <1>3, <1>5
  <2>2. QED
    BY <1>6, <1>7, <2>1, MacroBegunFields
<1>9. t.m_command_list \in Seq(Commands) /\ t.m_index = s.m_index
  <2>1. longer \in StacksOf(Commands) /\ longer.m_index = s.m_index
    BY <1>8 DEF isLonger
  <2>2. QED
    BY <1>8, <2>1 DEF StacksOf
<1>10. isTail(Commands, s.m_command_list, s.m_index, tail)
  <2>1. tail = redoTail(s)
    BY <1>2, <1>5
  <2>2. QED
    BY <1>6, <2>1, RedoTail
<1>11. devices' \in [Devices -> Managers]
  <2>1. tail \in Seq(Commands)
    BY <1>10 DEF isTail
  <2>2. deleted(devices, tail) \in [Devices -> Managers]
    BY <1>1, <2>1, DeletedTyped
  <2>3. QED
    BY <1>3, <2>2
<1>12. PICK list, n, r : list = images /\ n = s.m_index + 1 /\ r = images'
  OBVIOUS
<1>13. list \in Seq(Images) /\ n \in 0 .. Len(list) /\ r = SubSeq(list, 1, n)
  <2>1. s.m_index \in 0 .. count(s) /\ count(s) \in Nat /\ Len(list) = count(s) + 1
    BY <1>4, <1>5, <1>6, <1>12, StackFields
  <2>2. PICK i, k : i = s.m_index /\ k = count(s)
    OBVIOUS
  <2>3. i + 1 \in 0 .. (k + 1)
    BY <2>1, <2>2
  <2>4. QED
    BY <1>1, <1>3, <1>5, <1>12, <2>1, <2>2, <2>3
<1>14. isHead(Images, list, n, r)
  BY <1>13, CutHead
<1>15. images' \in Seq(Images) /\ Len(images') = stack'.m_index + 1
  BY <1>5, <1>9, <1>12, <1>14 DEF isHead
<1>16. Shapes'
  BY <1>1, <1>3, <1>5, <1>9, <1>11, <1>15 DEF Shapes, files
<1>17. QueueInv'
  BY <1>3 DEF TypedInv, QueueInv
<1>18. PagesInv'
  BY <1>3, <1>4, <1>15 DEF PagesInv
<1>19. QED
  BY <1>16, <1>17, <1>18

\* A transaction more in the macro.
LEMMA MacroGrows ==
    ASSUME TypedInv, NEW d \in Devices, commitInMacro(d)
    PROVE  (Shapes /\ QueueInv /\ PagesInv)'
<1>1. /\ devices \in [Devices -> Managers] /\ mementos \in Nat
      /\ WellKept(stack) /\ stack.m_command_list \in Seq(Commands)
      /\ StackInv /\ Shapes /\ PagesInv
  BY TypedParts DEF TypedInv, Shapes
<1>2. /\ gui = "macro" /\ mementos < MaxTransactions /\ mementos' = mementos + 1
      /\ UNCHANGED <<strokes, transaction, gui, events, document, images, files>>
  BY DEF commitInMacro
<1>3. PICK c \in Changes(getMemento(devices[d], mementos + 1)) :
        LET t == ended(opened(d, mementos + 1), c)
        IN  /\ devices' = [devices EXCEPT ![d] = commit(c)]
            /\ stack' = [stack EXCEPT !.m_command_list[count(stack)].parts = Append(@, t)]
  BY DEF commitInMacro
<1>4. PICK t, u : t = ended(opened(d, mementos + 1), c) /\ u = [devices EXCEPT ![d] = commit(c)]
  OBVIOUS
<1>5. /\ devices' = u
      /\ stack' = [stack EXCEPT !.m_command_list[count(stack)].parts = Append(@, t)]
  BY <1>3, <1>4
<1>6. mementos + 1 <= MaxTransactions /\ mementos + 1 \in Nat
  BY <1>1, <1>2, UndoAssumption
<1>7. t \in Transactions /\ u \in [Devices -> Managers]
  BY <1>1, <1>4, <1>6, LegacyTransaction
<1>8. strokes = <<>> /\ transaction = NoTransaction /\ stack.m_macro
      /\ Len(images) = stack.m_index + 1
  BY <1>1, <1>2 DEF StackInv, PagesInv
<1>9. PICK s, v : s = stack /\ v = stack'
  OBVIOUS
<1>10. isComposed(s, t, v)
  <2>1. WellKept(s) /\ s.m_command_list \in Seq(Commands) /\ s.m_macro
    BY <1>1, <1>8, <1>9
  <2>2. v = [s EXCEPT !.m_command_list[count(s)].parts = Append(@, t)]
    BY <1>5, <1>9
  <2>3. QED
    BY <1>7, <2>1, <2>2, ComposedFields
<1>11. v.m_command_list \in Seq(Commands) /\ v.m_index = s.m_index
  BY <1>10 DEF isComposed
<1>12. Shapes'
  BY <1>1, <1>2, <1>5, <1>6, <1>7, <1>9, <1>11 DEF Shapes, files
<1>13. QueueInv'
  <2>1. isQueue(<<>>, 0, NoTransaction, mementos + 1)
    BY <1>6, EmptyQueue
  <2>2. isQueue(strokes', 0, transaction', mementos')
    BY <1>2, <1>8, <2>1
  <2>3. QED
    BY <2>2 DEF QueueInv, isQueue, jobsFirst
<1>14. PagesInv'
  BY <1>2, <1>8, <1>9, <1>11 DEF PagesInv
<1>15. QED
  BY <1>12, <1>13, <1>14

\* endMacro() counts the macro, and the limit may take the oldest commands.
LEMMA MacroIsEnded ==
    ASSUME TypedInv, endMacro
    PROVE  (Shapes /\ QueueInv /\ PagesInv)'
<1>1. /\ devices \in [Devices -> Managers] /\ mementos \in Nat /\ document \in Documents
      /\ WellKept(stack) /\ stack.m_command_list \in Seq(Commands) /\ images \in Seq(Images)
      /\ StackInv /\ Shapes /\ PagesInv
  BY TypedParts DEF TypedInv, Shapes
<1>2. PICK longer : longer = [stack EXCEPT !.m_macro = FALSE]
  OBVIOUS
<1>3. PICK e : e = excess(longer)
  OBVIOUS
<1>4. PICK oldest : oldest = SubSeq(stack.m_command_list, 1, e)
  OBVIOUS
<1>5. /\ gui = "macro" /\ stack' = macroEnded(stack) /\ devices' = deleted(devices, oldest)
      /\ images' = SubSeq(Append(images, image), e + 1, Len(images) + 1)
      /\ document' = slotUndoStackIndexChanged(document, stack', stack'.m_index)
      /\ gui' = "idle"
      /\ UNCHANGED <<strokes, transaction, events, mementos, files>>
  BY <1>2, <1>3, <1>4 DEF endMacro
<1>6. strokes = <<>> /\ transaction = NoTransaction /\ stack.m_macro
      /\ Len(images) = stack.m_index + 1
  BY <1>1, <1>5 DEF StackInv, PagesInv
<1>7. PICK s, t : s = stack /\ t = stack'
  OBVIOUS
<1>8. WellKept(s) /\ s.m_command_list \in Seq(Commands) /\ s.m_macro
  BY <1>1, <1>6, <1>7
<1>9. isEnded(s, e, t, oldest)
  <2>1. longer = [s EXCEPT !.m_macro = FALSE] /\ t = macroEnded(s)
        /\ oldest = SubSeq(s.m_command_list, 1, e)
    BY <1>2, <1>4, <1>5, <1>7
  <2>2. QED
    BY <1>3, <1>8, <2>1, MacroEndedFields
<1>10. /\ s.m_index \in Nat /\ count(s) = s.m_index + 1 /\ count(s) = Len(s.m_command_list)
  BY <1>8, StackFields
<1>11. /\ t.m_command_list \in Seq(Commands) /\ e \in 0 .. s.m_index
       /\ Len(t.m_command_list) = Len(s.m_command_list) - e
  BY <1>9 DEF isEnded, isTail
<1>12. oldest \in Seq(Commands)
  BY <1>9 DEF isEnded, isHead
<1>13. devices' \in [Devices -> Managers]
  <2>1. deleted(devices, oldest) \in [Devices -> Managers]
    BY <1>1, <1>12, DeletedTyped
  <2>2. QED
    BY <1>5, <2>1
<1>14. image \in Images
  <2>1. imageOf(devices) \in Images
    BY <1>1, ImageTyped
  <2>2. QED
    BY <2>1 DEF image, imageOf
<1>15. PICK pages, n, x, more, f, last, r :
         /\ pages = images /\ n = Len(pages) /\ x = image /\ more = Append(pages, x)
         /\ f = e + 1 /\ last = n + 1 /\ r = SubSeq(more, f, last)
  OBVIOUS
<1>16. isGrown(Images, pages, n, x, e, r)
  <2>1. pages \in Seq(Images) /\ x \in Images
    BY <1>1, <1>14, <1>15
  <2>2. e \in 0 .. n
    <3>1. n = s.m_index + 1
      BY <1>6, <1>7, <1>15
    <3>2. QED
      BY <1>10, <1>11, <3>1
  <2>3. QED
    BY <1>15, <2>1, <2>2, GrownAndCut
<1>17. images' = r
  BY <1>5, <1>15
<1>18. images' \in Seq(Images) /\ Len(images') = count(stack') + 1
  <2>1. r \in Seq(Images) /\ Len(r) = n + 1 - e
    BY <1>16 DEF isGrown
  <2>2. n = s.m_index + 1
    BY <1>6, <1>7, <1>15
  <2>3. Len(r) = Len(t.m_command_list) + 1
    BY SMTT(30), <1>10, <1>11, <2>1, <2>2
  <2>4. QED
    BY <1>7, <1>17, <2>1, <2>3 DEF count
<1>19. document' \in Documents
  BY <1>1, <1>5, DocumentTyped
<1>20. Shapes'
  BY <1>1, <1>5, <1>7, <1>11, <1>13, <1>18, <1>19 DEF Shapes, files
<1>21. QueueInv'
  BY <1>5 DEF TypedInv, QueueInv
<1>22. PagesInv'
  BY <1>5, <1>18 DEF PagesInv
<1>23. QED
  BY <1>20, <1>21, <1>22

\* How it begins.
LEMMA TypedFromTheStart == Init => TypedInv
<1>1. SUFFICES ASSUME Init PROVE TypedInv
  OBVIOUS
<1>2. PICK contents \in [Positions -> Pixels], pixel \in DefaultPixels :
        /\ devices = [d \in Devices |-> Loaded(contents, pixel)]
        /\ stack = EmptyStack /\ strokes = <<>> /\ transaction = NoTransaction /\ gui = "idle"
        /\ events = <<>> /\ document = NewDocument /\ mementos = 0 /\ images = <<image>>
        /\ onDisk = image /\ autosaved = NoImage /\ uploading = NoImage
  BY <1>1 DEF Init
<1>3. Loaded(contents, pixel) \in Managers
  <2>1. PICK index, heads : /\ index = {p \in Positions : contents[p] # NoTile}
                            /\ heads = [p \in Positions |-> NoTile]
    OBVIOUS
  <2>2. contents \in Contents /\ index \in SUBSET Positions /\ heads \in Contents
    BY <2>1 DEF Contents
  <2>3. Loaded(contents, pixel) =
          [m_hashTable |-> contents, m_defaultPixel |-> pixel, m_index |-> index,
           m_headsHashTable |-> heads, m_revisions |-> <<>>, m_cancelledRevisions |-> <<>>,
           m_currentMemento |-> NoMemento]
    BY <2>1 DEF Loaded
  <2>4. QED
    BY <2>2, <2>3, NothingTyped DEF Managers
<1>4. devices \in [Devices -> Managers]
  BY <1>2, <1>3
<1>5. image \in Images
  <2>1. imageOf(devices) \in Images
    BY <1>4, ImageTyped
  <2>2. QED
    BY <2>1 DEF image, imageOf
<1>6. PICK x : x = image
  OBVIOUS
<1>7. images \in Seq(Images) /\ Len(images) = 1
  BY <1>2, <1>5, <1>6
<1>8. stack.m_command_list = <<>>
  BY <1>2 DEF EmptyStack
<1>9. document \in Documents
  BY <1>2 DEF NewDocument, Documents
<1>10. Shapes
  <2>1. <<>> \in Seq(Commands) /\ <<>> \in Seq(Strokes) /\ <<>> \in Seq(Nat)
    OBVIOUS
  <2>2. QED
    BY <1>2, <1>4, <1>5, <1>7, <1>8, <1>9, <2>1 DEF Shapes
<1>11. QueueInv
  <2>1. isQueue(<<>>, 0, NoTransaction, 0)
    BY EmptyQueue, UndoAssumption
  <2>2. isQueue(strokes, 0, transaction, mementos)
    BY <1>2, <2>1
  <2>3. QED
    BY <2>2 DEF QueueInv, isQueue, jobsFirst
<1>12. PagesInv
  BY <1>2, <1>7, <1>8, NothingTyped DEF PagesInv, count
<1>13. StackInv
  BY <1>1, InitEstablishes
<1>14. QED
  BY <1>10, <1>11, <1>12, <1>13 DEF TypedInv

\* Every step keeps the types, the bound on the transactions and the order of
\* the queue.
LEMMA NextTyped == TypedInv /\ Next => TypedInv'
<1>1. SUFFICES ASSUME TypedInv, Next PROVE TypedInv'
  OBVIOUS
<1>2. StackInv'
  BY <1>1, NextKeeps DEF TypedInv
<1>3. (Shapes /\ QueueInv /\ PagesInv)'
  <2>1. CASE startHandling \/ giveUp \/ deliver \/ save \/ failToSave \/ exportDocument
             \/ saveRemote \/ uploadFinished \/ slotAutoSave
    BY <1>1, <2>1, DocumentSteps
  <2>2. CASE \/ \E d \in Devices : startStroke(d)
             \/ \E i \in 1 .. Len(strokes) : closeStroke(i, "ended") \/ closeStroke(i, "cancelled")
             \/ dropStroke
    BY <1>1, <2>2, QueueSteps
  <2>3. CASE undo \/ redo \/ \E idx \in 0 .. count(stack) : setIndex(idx)
    BY <1>1, <2>3, MoveSteps
  <2>4. CASE \E d \in Devices : commitLegacy(d)
    BY <1>1, <2>4, LegacyIsCommitted
  <2>5. CASE \E d \in Devices : commitInMacro(d)
    BY <1>1, <2>5, MacroGrows
  <2>6. CASE beginMacro
    BY <1>1, <2>6, MacroIsBegun
  <2>7. CASE endMacro
    BY <1>1, <2>7, MacroIsEnded
  <2>8. CASE initStrokeCallback
    BY <1>1, <2>8, StrokeIsInitialised
  <2>9. CASE doStrokeCallback
    BY <1>1, <2>9, StrokeIsDone
  <2>10. CASE finishStrokeCallback
    BY <1>1, <2>10, StrokeIsFinished
  <2>11. CASE cancelStrokeCallback
    BY <1>1, <2>11, StrokeIsCancelled
  <2>12. CASE runCommand
    BY <1>1, <2>12, CommandIsRun
  <2>13. QED
    BY <1>1, <2>1, <2>2, <2>3, <2>4, <2>5, <2>6, <2>7, <2>8, <2>9, <2>10, <2>11, <2>12
    DEF Next, GUI, Worker
<1>4. QED
  BY <1>2, <1>3 DEF TypedInv

\* Nothing changes.
LEMMA TypedStutters == TypedInv /\ UNCHANGED vars => TypedInv'
<1>1. SUFFICES ASSUME TypedInv, UNCHANGED vars PROVE TypedInv'
  OBVIOUS
<1>2. /\ devices' = devices /\ stack' = stack /\ strokes' = strokes /\ transaction' = transaction
      /\ gui' = gui /\ events' = events /\ document' = document /\ mementos' = mementos
      /\ images' = images /\ onDisk' = onDisk /\ autosaved' = autosaved /\ uploading' = uploading
  BY <1>1 DEF vars
<1>3. StackInv'
  BY <1>1, <1>2 DEF TypedInv, StackInv
<1>4. Shapes'
  BY <1>1, <1>2 DEF TypedInv, Shapes
<1>5. QueueInv'
  BY <1>1, <1>2 DEF TypedInv, QueueInv
<1>6. PagesInv'
  BY <1>1, <1>2 DEF TypedInv, PagesInv
<1>7. QED
  BY <1>3, <1>4, <1>5, <1>6 DEF TypedInv

\* The stack, the types, the queue and the images are kept by every step.
LEMMA AlwaysTyped == Spec => []TypedInv
BY TypedFromTheStart, NextTyped, TypedStutters, PTL DEF Spec

\* Waiting strokes do not go beyond the bound.
LEMMA WithinBound ==
    ASSUME TypedInv
    PROVE  mementos \in 0 .. MaxTransactions
<1>1. PICK q : isQueue(strokes, q, transaction, mementos)
  BY TypedParts
<1>2. strokes \in Seq(Strokes) /\ mementos \in Nat /\ MaxTransactions \in Nat
  BY TypedParts, UndoAssumption
<1>3. PICK n : n = Len(strokes)
  OBVIOUS
<1>4. n \in Nat /\ q \in 0 .. n /\ mementos + spoken(strokes, q, transaction) <= MaxTransactions
  BY <1>1, <1>2, <1>3 DEF isQueue, jobsFirst
<1>5. spoken(strokes, q, transaction) \in Nat
  <2>1. CASE transaction = NoTransaction
    <3>1. n - q \in Nat
      BY <1>4
    <3>2. QED
      BY <1>3, <2>1, <3>1 DEF spoken
  <2>2. CASE transaction # NoTransaction
    <3>1. q = 0 /\ strokes # <<>>
      BY <1>1, <2>2 DEF isQueue
    <3>2. n > 0
      BY <1>2, <1>3, <3>1
    <3>3. n - q - 1 \in Nat
      BY <1>4, <3>1, <3>2
    <3>4. QED
      BY <1>3, <2>2, <3>3 DEF spoken
  <2>3. QED
    BY <2>1, <2>2
<1>6. QED
  BY <1>2, <1>4, <1>5

\* What is kept says that every variable has its type.
LEMMA TypedMeansTypeOK == TypedInv => TypeOK
<1>1. SUFFICES ASSUME TypedInv PROVE TypeOK
  OBVIOUS
<1>2. /\ Shapes /\ StackInv
  BY <1>1 DEF TypedInv
<1>3. /\ stack \in StacksOf(Commands) /\ stack.m_index \in 0 .. count(stack)
      /\ stack.m_clean_index <= count(stack)
  <2>1. PICK s : s = stack
    OBVIOUS
  <2>2. WellKept(s) /\ s.m_command_list \in Seq(Commands)
    BY <1>2, <2>1 DEF Shapes, StackInv
  <2>3. QED
    BY <2>1, <2>2, StackFields
<1>4. mementos \in 0 .. MaxTransactions
  BY <1>1, WithinBound
<1>5. ASSUME NEW i \in 1 .. Len(strokes)
      PROVE  strokes[i] \in
               [kind : {"paint"}, device : Devices, state : {"open", "ended", "cancelled"}]
               \cup [kind : {"undo", "redo"}, transaction : Transactions]
  <2>1. strokes[i] \in Strokes
    BY <1>2 DEF Shapes
  <2>2. QED
    BY <2>1 DEF Strokes, Jobs
<1>6. QED
  BY <1>2, <1>3, <1>4, <1>5 DEF Shapes, TypeOK

\* The types: whatever the threads do, and however the limit, macros, jumps and
\* saves follow each other, revisions are revisions of existing tiles, both
\* indices stay in the list of commands, every command in the queue belongs to a
\* transaction that was taken, and the strokes that wait never need more of them
\* than there are (KUndo2QStack, KisMementoManager, KisTransactionData).
THEOREM TypesKept == Spec => []TypeOK
BY AlwaysTyped, TypedMeansTypeOK, PTL

-----------------------------------------------------------------------------
(***************************************************************************)
(* The revisions of one device. Of each transaction in T the device has a  *)
(* revision: among the done ones up to the memento c, in the order of the  *)
(* mementos, among the cancelled ones from there on. World W[n] is what    *)
(* the image was when memento n was committed; up to memento `floor` the   *)
(* limit has taken the commands.                                           *)
(***************************************************************************)

\* The items take the tiles from one state to another.
carries(items, from, to) ==
    \A p \in Positions : IF p \in DOMAIN items
                         THEN items[p].before = from[p] /\ items[p].now = to[p]
                         ELSE from[p] = to[p]

\* A revision holds what a transaction did.
revises(r, t, W) ==
    /\ r.memento = t.memento
    /\ carries(r.items, W[t.memento - 1][t.device].tiles, W[t.memento][t.device].tiles)

rising(R) == \A k, l \in 1 .. Len(R) : k < l => R[k].memento < R[l].memento

behind(R, T, c, floor, W) ==
    /\ rising(R)
    /\ \A t \in T : t.memento <= c => \E k \in 1 .. Len(R) : revises(R[k], t, W)
    /\ \A k \in 1 .. Len(R) :
         R[k].memento <= floor \/ \E t \in T : t.memento <= c /\ R[k].memento = t.memento

ahead(C, T, c, W) ==
    /\ rising(C)
    /\ \A t \in T : t.memento > c => \E k \in 1 .. Len(C) : revises(C[k], t, W)
    /\ \A k \in 1 .. Len(C) :
         \/ \E t \in T : t.memento > c /\ C[k].memento = t.memento
         \/ \A t \in T : t.memento < C[k].memento

\* Transactions have mementos of their own, and the limit has not taken them.
singular(T, floor) ==
    /\ T \subseteq Transactions
    /\ \A s, t \in T : s.memento = t.memento => s = t
    /\ \A t \in T : floor < t.memento

\* The mementos of a list of revisions.
LEMMA Mementos ==
    ASSUME NEW R \in Seq(Revisions)
    PROVE  Len(R) \in Nat /\ \A k \in 1 .. Len(R) : R[k] \in Revisions /\ R[k].memento \in Nat
<1>1. Len(R) \in Nat /\ \A k \in 1 .. Len(R) : R[k] \in Revisions
  OBVIOUS
<1>2. \A r \in Revisions : r.memento \in Nat
  BY DEF Revisions
<1>3. QED
  BY <1>1, <1>2

\* The latest of the transactions done has the last revision.
LEMMA LastIsLatest ==
    ASSUME NEW R \in Seq(Revisions), NEW T, NEW c \in Nat, NEW floor \in Nat, NEW W,
           singular(T, floor), behind(R, T, c, floor, W),
           NEW t \in T, t.memento <= c, \A s \in T : s.memento <= c => s.memento <= t.memento
    PROVE  R # <<>> /\ Len(R) \in 1 .. Len(R) /\ revises(R[Len(R)], t, W)
<1>1. Len(R) \in Nat /\ \A k \in 1 .. Len(R) : R[k] \in Revisions /\ R[k].memento \in Nat
  BY Mementos
<1>2. /\ T \subseteq Transactions /\ \A s \in T : s.memento \in Nat /\ floor < s.memento
  BY TransactionFields DEF singular
<1>3. PICK k \in 1 .. Len(R) : revises(R[k], t, W)
  BY DEF behind
<1>4. PICK n : n = Len(R)
  OBVIOUS
<1>5. n \in 1 .. n /\ n \in Nat /\ k \in 1 .. n
  BY <1>1, <1>4
<1>6. R[n].memento <= t.memento
  <2>1. R[n].memento <= floor \/ \E s \in T : s.memento <= c /\ R[n].memento = s.memento
    BY <1>4, <1>5 DEF behind
  <2>2. R[n].memento \in Nat /\ t.memento \in Nat /\ floor < t.memento
    BY <1>1, <1>2, <1>4, <1>5
  <2>3. QED
    BY <2>1, <2>2
<1>7. k = n
  <2>1. SUFFICES ASSUME k < n PROVE FALSE
    BY <1>5
  <2>2. R[k].memento < R[n].memento
    BY <1>4, <1>5, <2>1 DEF behind, rising
  <2>3. R[k].memento = t.memento
    BY <1>3 DEF revises
  <2>4. R[k].memento \in Nat /\ R[n].memento \in Nat
    BY <1>1, <1>4, <1>5
  <2>5. QED
    BY <1>6, <2>2, <2>3, <2>4
<1>8. QED
  BY <1>3, <1>4, <1>5, <1>7

\* The first of the transactions undone has the first cancelled revision.
LEMMA FirstIsNext ==
    ASSUME NEW C \in Seq(Revisions), NEW T, NEW c \in Nat, NEW floor, NEW W,
           singular(T, floor), ahead(C, T, c, W),
           NEW t \in T, t.memento > c, \A s \in T : s.memento > c => t.memento <= s.memento
    PROVE  C # <<>> /\ 1 \in 1 .. Len(C) /\ revises(C[1], t, W)
<1>1. Len(C) \in Nat /\ \A k \in 1 .. Len(C) : C[k] \in Revisions /\ C[k].memento \in Nat
  BY Mementos
<1>2. /\ T \subseteq Transactions /\ \A s \in T : s.memento \in Nat
  BY TransactionFields DEF singular
<1>3. PICK k \in 1 .. Len(C) : revises(C[k], t, W)
  BY DEF ahead
<1>4. 1 \in 1 .. Len(C)
  BY <1>1, <1>3
<1>5. t.memento <= C[1].memento
  <2>1. \/ \E s \in T : s.memento > c /\ C[1].memento = s.memento
        \/ \A s \in T : s.memento < C[1].memento
    BY <1>4 DEF ahead
  <2>2. C[1].memento \in Nat /\ t.memento \in Nat
    BY <1>1, <1>2, <1>4
  <2>3. CASE \E s \in T : s.memento > c /\ C[1].memento = s.memento
    BY <2>3
  <2>4. CASE \A s \in T : s.memento < C[1].memento
    <3>1. t.memento < C[1].memento
      BY <2>4
    <3>2. QED
      BY <2>2, <3>1
  <2>5. QED
    BY <2>1, <2>3, <2>4
<1>6. k = 1
  <2>1. SUFFICES ASSUME 1 < k PROVE FALSE
    BY <1>1, <1>3
  <2>2. C[1].memento < C[k].memento
    BY <1>3, <1>4, <2>1 DEF ahead, rising
  <2>3. C[k].memento = t.memento
    BY <1>3 DEF revises
  <2>4. C[1].memento \in Nat /\ C[k].memento \in Nat
    BY <1>1, <1>3, <1>4
  <2>5. QED
    BY <1>5, <2>2, <2>3, <2>4
<1>7. QED
  BY <1>3, <1>4, <1>6

\* The last revision, taken away.
isFront(R, n, F) ==
    /\ F \in Seq(Revisions) /\ n \in Nat /\ n > 0 /\ Len(F) = n - 1
    /\ \A k \in 1 .. (n - 1) : F[k] = R[k]
    /\ \A k \in 1 .. n : R[k] \in Revisions /\ R[k].memento \in Nat

\* Front is a list without its last.
LEMMA WithoutLast ==
    ASSUME NEW R \in Seq(Revisions), R # <<>>, NEW n, n = Len(R), NEW F, F = Front(R)
    PROVE  isFront(R, n, F)
BY RevisionLists, Mementos DEF isFront

\* A revision put in front.
isJoined(C, r, n, G) ==
    /\ G \in Seq(Revisions) /\ n \in Nat /\ Len(G) = n + 1 /\ G[1] = r
    /\ \A k \in 1 .. n : G[k + 1] = C[k]
    /\ \A k \in 1 .. n : C[k] \in Revisions /\ C[k].memento \in Nat

\* A revision joined in front moves the others by one.
LEMMA WithFirst ==
    ASSUME NEW C \in Seq(Revisions), NEW r \in Revisions, NEW n, n = Len(C), NEW G, G = <<r>> \o C
    PROVE  isJoined(C, r, n, G)
BY RevisionLists, Mementos DEF isJoined

\* The first revision, taken away.
isBack(C, n, G) ==
    /\ G \in Seq(Revisions) /\ n \in Nat /\ n > 0 /\ Len(G) = n - 1
    /\ \A k \in 1 .. (n - 1) : G[k] = C[k + 1]
    /\ \A k \in 1 .. n : C[k] \in Revisions /\ C[k].memento \in Nat

\* Tail is a list without its first.
LEMMA WithoutFirst ==
    ASSUME NEW C \in Seq(Revisions), C # <<>>, NEW n, n = Len(C), NEW G, G = Tail(C)
    PROVE  isBack(C, n, G)
BY RevisionLists, Mementos DEF isBack

\* A revision put at the end.
isAppended(R, r, n, F) ==
    /\ F \in Seq(Revisions) /\ n \in Nat /\ Len(F) = n + 1 /\ F[n + 1] = r
    /\ \A k \in 1 .. n : F[k] = R[k]
    /\ \A k \in 1 .. n : R[k] \in Revisions /\ R[k].memento \in Nat

\* Append leaves the others where they are.
LEMMA WithLast ==
    ASSUME NEW R \in Seq(Revisions), NEW r \in Revisions, NEW n, n = Len(R), NEW F, F = Append(R, r)
    PROVE  isAppended(R, r, n, F)
BY RevisionLists, Mementos DEF isAppended

\* The memento before a transaction.
precedes(b, t) == b = t.memento - 1

\* Undoing the latest transaction moves the last revision over.
LEMMA UndoMoves ==
    ASSUME NEW R \in Seq(Revisions), NEW C \in Seq(Revisions), NEW T, NEW c \in Nat,
           NEW floor \in Nat, NEW W,
           singular(T, floor), behind(R, T, c, floor, W), ahead(C, T, c, W),
           NEW t \in T, t.memento <= c, \A s \in T : s.memento <= c => s.memento <= t.memento,
           NEW n, n = Len(R), NEW last, last = R[n], NEW F, isFront(R, n, F),
           NEW m, m = Len(C), NEW G, isJoined(C, last, m, G), NEW b, precedes(b, t)
    PROVE  behind(F, T, b, floor, W) /\ ahead(G, T, b, W)
<1>0. b = t.memento - 1
  BY DEF precedes
<1>1. n = Len(R)
  OBVIOUS
<1>2. R # <<>> /\ n \in 1 .. n /\ revises(last, t, W) /\ last \in Revisions
  <2>1. R # <<>> /\ Len(R) \in 1 .. Len(R) /\ revises(R[Len(R)], t, W)
    BY LastIsLatest
  <2>2. R[Len(R)] \in Revisions
    BY <2>1
  <2>3. QED
    BY <1>1, <2>1, <2>2
<1>3. /\ F \in Seq(Revisions) /\ n \in Nat /\ n > 0 /\ Len(F) = n - 1
      /\ \A k \in 1 .. (n - 1) : F[k] = R[k]
      /\ \A k \in 1 .. n : R[k] \in Revisions /\ R[k].memento \in Nat
  BY DEF isFront
<1>4. m = Len(C)
  OBVIOUS
<1>5. /\ G \in Seq(Revisions) /\ m \in Nat /\ Len(G) = m + 1 /\ G[1] = last
      /\ \A k \in 1 .. m : G[k + 1] = C[k]
      /\ \A k \in 1 .. m : C[k] \in Revisions /\ C[k].memento \in Nat
  BY DEF isJoined
<1>6. /\ T \subseteq Transactions /\ \A s \in T : s.memento \in Nat /\ floor < s.memento
      /\ \A s \in T : s.memento = t.memento => s = t
  BY TransactionFields DEF singular
<1>7. \A s \in T : s.memento <= b <=> s.memento <= c /\ s # t
  <2>1. ASSUME NEW s \in T, s.memento <= b PROVE s.memento <= c /\ s # t
    BY <1>0, <1>6, <2>1
  <2>2. ASSUME NEW s \in T, s.memento <= c, s # t PROVE s.memento <= b
    BY <1>0, <1>6, <2>2
  <2>3. QED
    BY <2>1, <2>2
<1>8. last.memento = t.memento /\ R[n] = last
  BY <1>1, <1>2 DEF revises
<1>9. behind(F, T, b, floor, W)
  <2>1. rising(F)
    BY <1>1, <1>3 DEF rising, behind
  <2>2. ASSUME NEW s \in T, s.memento <= b PROVE \E k \in 1 .. Len(F) : revises(F[k], s, W)
    <3>1. PICK k \in 1 .. n : revises(R[k], s, W)
      BY <1>1, <1>7, <2>2 DEF behind
    <3>2. k # n
      <4>1. R[k].memento = s.memento
        BY <3>1 DEF revises
      <4>2. s.memento # t.memento
        BY <1>6, <1>7, <2>2
      <4>3. QED
        BY <1>8, <4>1, <4>2
    <3>3. k \in 1 .. (n - 1)
      BY <1>3, <3>2
    <3>4. QED
      BY <1>3, <3>1, <3>3
  <2>3. ASSUME NEW k \in 1 .. Len(F)
        PROVE  F[k].memento <= floor \/ \E s \in T : s.memento <= b /\ F[k].memento = s.memento
    <3>1. k \in 1 .. (n - 1) /\ k \in 1 .. n /\ n \in 1 .. n /\ k < n
      BY <1>3
    <3>2. F[k] = R[k]
      BY <1>3, <3>1
    <3>3. R[k].memento <= floor \/ \E s \in T : s.memento <= c /\ R[k].memento = s.memento
      BY <1>1, <3>1 DEF behind
    <3>4. R[k].memento < R[n].memento
      BY <1>1, <3>1 DEF behind, rising
    <3>5. R[k].memento # t.memento
      BY <1>3, <1>6, <1>8, <3>1, <3>4
    <3>6. QED
      BY <1>7, <3>2, <3>3, <3>5
  <2>4. QED
    BY <2>1, <2>2, <2>3 DEF behind
<1>10. ahead(G, T, b, W)
  <2>1. ASSUME NEW k \in 1 .. m PROVE t.memento < C[k].memento
    <3>1. \/ \E s \in T : s.memento > c /\ C[k].memento = s.memento
          \/ \A s \in T : s.memento < C[k].memento
      BY <1>4 DEF ahead
    <3>2. CASE \E s \in T : s.memento > c /\ C[k].memento = s.memento
      BY <1>6, <3>2
    <3>3. QED
      BY <3>1, <3>2
  <2>2. rising(G)
    <3>1. ASSUME NEW k \in 1 .. (m + 1), NEW l \in 1 .. (m + 1), k < l
          PROVE  G[k].memento < G[l].memento
      <4>1. PICK j : j = l - 1
        OBVIOUS
      <4>2. j \in 1 .. m /\ l = j + 1
        BY <1>5, <3>1, <4>1
      <4>3. G[l] = C[j]
        BY <1>5, <4>2
      <4>4. CASE k = 1
        BY <1>5, <1>8, <2>1, <4>2, <4>3, <4>4
      <4>5. CASE k # 1
        <5>1. PICK i : i = k - 1
          OBVIOUS
        <5>2. i \in 1 .. m /\ k = i + 1 /\ i < j
          BY <1>5, <3>1, <4>2, <4>5, <5>1
        <5>3. G[k] = C[i]
          BY <1>5, <5>2
        <5>4. C[i].memento < C[j].memento
          BY <1>4, <4>2, <5>2 DEF ahead, rising
        <5>5. QED
          BY <4>3, <5>3, <5>4
      <4>6. QED
        BY <4>4, <4>5
    <3>2. QED
      BY <1>5, <3>1 DEF rising
  <2>3. ASSUME NEW s \in T, s.memento > b PROVE \E k \in 1 .. Len(G) : revises(G[k], s, W)
    <3>1. CASE s = t
      <4>1. 1 \in 1 .. Len(G)
        BY <1>5
      <4>2. QED
        BY <1>2, <1>5, <3>1, <4>1
    <3>2. CASE s # t
      <4>1. s.memento > c
        <5>1. ~(s.memento <= b)
          BY <1>0, <1>6, <2>3
        <5>2. ~(s.memento <= c)
          BY <1>7, <3>2, <5>1
        <5>3. QED
          BY <1>6, <5>2
      <4>2. PICK k \in 1 .. m : revises(C[k], s, W)
        BY <1>4, <4>1 DEF ahead
      <4>3. k + 1 \in 1 .. Len(G) /\ G[k + 1] = C[k]
        BY <1>5
      <4>4. QED
        BY <4>2, <4>3
    <3>3. QED
      BY <3>1, <3>2
  <2>4. ASSUME NEW k \in 1 .. Len(G)
        PROVE  \/ \E s \in T : s.memento > b /\ G[k].memento = s.memento
               \/ \A s \in T : s.memento < G[k].memento
    <3>1. CASE k = 1
      <4>1. t.memento > b
        BY <1>0, <1>6
      <4>2. QED
        BY <1>5, <1>8, <3>1, <4>1
    <3>2. CASE k # 1
      <4>1. PICK i : i = k - 1
        OBVIOUS
      <4>2. i \in 1 .. m /\ k = i + 1
        BY <1>5, <3>2, <4>1
      <4>3. G[k] = C[i]
        BY <1>5, <4>2
      <4>4. \/ \E s \in T : s.memento > c /\ C[i].memento = s.memento
            \/ \A s \in T : s.memento < C[i].memento
        BY <1>4, <4>2 DEF ahead
      <4>5. \A s \in T : s.memento > c => s.memento > b
        BY <1>0, <1>6
      <4>6. QED
        BY <4>3, <4>4, <4>5
    <3>3. QED
      BY <3>1, <3>2
  <2>5. QED
    BY <2>2, <2>3, <2>4 DEF ahead
<1>11. QED
  BY <1>9, <1>10

\* Redoing the next transaction moves the first cancelled revision back; the
\* revision is made again.
LEMMA RedoMoves ==
    ASSUME NEW R \in Seq(Revisions), NEW C \in Seq(Revisions), NEW T, NEW c \in Nat,
           NEW floor \in Nat, NEW W, floor <= c,
           singular(T, floor), behind(R, T, c, floor, W), ahead(C, T, c, W),
           NEW t \in T, t.memento > c, \A s \in T : s.memento > c => t.memento <= s.memento,
           NEW again \in Revisions, revises(again, t, W),
           NEW F, F = Append(R, again), NEW G, G = Tail(C), NEW b, b = t.memento
    PROVE  behind(F, T, b, floor, W) /\ ahead(G, T, b, W)
<1>1. PICK m : m = Len(C)
  OBVIOUS
<1>2. C # <<>> /\ 1 \in 1 .. m /\ revises(C[1], t, W)
  <2>1. C # <<>> /\ 1 \in 1 .. Len(C) /\ revises(C[1], t, W)
    BY FirstIsNext
  <2>2. QED
    BY <1>1, <2>1
<1>3. /\ G \in Seq(Revisions) /\ m \in Nat /\ m > 0 /\ Len(G) = m - 1
      /\ \A k \in 1 .. (m - 1) : G[k] = C[k + 1]
      /\ \A k \in 1 .. m : C[k] \in Revisions /\ C[k].memento \in Nat
  <2>1. isBack(C, m, G)
    BY <1>1, <1>2, WithoutFirst
  <2>2. QED
    BY <2>1 DEF isBack
<1>4. PICK n : n = Len(R)
  OBVIOUS
<1>5. /\ F \in Seq(Revisions) /\ n \in Nat /\ Len(F) = n + 1 /\ F[n + 1] = again
      /\ \A k \in 1 .. n : F[k] = R[k]
      /\ \A k \in 1 .. n : R[k] \in Revisions /\ R[k].memento \in Nat
  <2>1. isAppended(R, again, n, F)
    BY <1>4, WithLast
  <2>2. QED
    BY <2>1 DEF isAppended
<1>6. /\ T \subseteq Transactions /\ \A s \in T : s.memento \in Nat /\ floor < s.memento
      /\ \A s \in T : s.memento = t.memento => s = t
  BY TransactionFields DEF singular
<1>7. \A s \in T : s.memento > b <=> s.memento > c /\ s # t
  <2>1. ASSUME NEW s \in T, s.memento > b PROVE s.memento > c /\ s # t
    BY <1>6, <2>1
  <2>2. ASSUME NEW s \in T, s.memento > c, s # t PROVE s.memento > b
    <3>1. t.memento <= s.memento /\ t.memento # s.memento
      BY <1>6, <2>2
    <3>2. QED
      BY <1>6, <3>1
  <2>3. QED
    BY <2>1, <2>2
<1>8. C[1].memento = t.memento /\ again.memento = t.memento
  BY <1>2 DEF revises
<1>9. behind(F, T, b, floor, W)
  <2>1. ASSUME NEW k \in 1 .. n PROVE R[k].memento < t.memento
    <3>1. R[k].memento <= floor \/ \E s \in T : s.memento <= c /\ R[k].memento = s.memento
      BY <1>4 DEF behind
    <3>2. QED
      BY <1>5, <1>6, <3>1
  <2>2. rising(F)
    <3>1. ASSUME NEW k \in 1 .. (n + 1), NEW l \in 1 .. (n + 1), k < l
          PROVE  F[k].memento < F[l].memento
      <4>1. k \in 1 .. n
        BY <1>5, <3>1
      <4>2. CASE l = n + 1
        BY <1>5, <1>8, <2>1, <4>1, <4>2
      <4>3. CASE l # n + 1
        <5>1. l \in 1 .. n
          BY <1>5, <4>3
        <5>2. R[k].memento < R[l].memento
          BY <1>4, <3>1, <4>1, <5>1 DEF behind, rising
        <5>3. QED
          BY <1>5, <4>1, <5>1, <5>2
      <4>4. QED
        BY <4>2, <4>3
    <3>2. QED
      BY <1>5, <3>1 DEF rising
  <2>3. ASSUME NEW s \in T, s.memento <= b PROVE \E k \in 1 .. Len(F) : revises(F[k], s, W)
    <3>1. CASE s = t
      <4>1. n + 1 \in 1 .. Len(F)
        BY <1>5
      <4>2. QED
        BY <1>5, <3>1, <4>1
    <3>2. CASE s # t
      <4>1. s.memento <= c
        BY <1>6, <1>7, <2>3, <3>2
      <4>2. PICK k \in 1 .. n : revises(R[k], s, W)
        BY <1>4, <4>1 DEF behind
      <4>3. k \in 1 .. Len(F) /\ F[k] = R[k]
        BY <1>5
      <4>4. QED
        BY <4>2, <4>3
    <3>3. QED
      BY <3>1, <3>2
  <2>4. ASSUME NEW k \in 1 .. Len(F)
        PROVE  F[k].memento <= floor \/ \E s \in T : s.memento <= b /\ F[k].memento = s.memento
    <3>1. CASE k = n + 1
      <4>1. t.memento <= b
        BY <1>6
      <4>2. QED
        BY <1>5, <1>8, <3>1, <4>1
    <3>2. CASE k # n + 1
      <4>1. k \in 1 .. n
        BY <1>5, <3>2
      <4>2. R[k].memento <= floor \/ \E s \in T : s.memento <= c /\ R[k].memento = s.memento
        BY <1>4, <4>1 DEF behind
      <4>3. \A s \in T : s.memento <= c => s.memento <= b
        BY <1>6
      <4>4. QED
        BY <1>5, <4>1, <4>2, <4>3
    <3>3. QED
      BY <3>1, <3>2
  <2>5. QED
    BY <2>2, <2>3, <2>4 DEF behind
<1>10. ahead(G, T, b, W)
  <2>1. rising(G)
    <3>1. ASSUME NEW k \in 1 .. (m - 1), NEW l \in 1 .. (m - 1), k < l
          PROVE  G[k].memento < G[l].memento
      <4>1. k + 1 \in 1 .. m /\ l + 1 \in 1 .. m /\ k + 1 < l + 1
        BY <1>3, <3>1
      <4>2. C[k + 1].memento < C[l + 1].memento
        BY <1>1, <4>1 DEF ahead, rising
      <4>3. QED
        BY <1>3, <4>2
    <3>2. QED
      BY <1>3, <3>1 DEF rising
  <2>2. ASSUME NEW s \in T, s.memento > b PROVE \E k \in 1 .. Len(G) : revises(G[k], s, W)
    <3>1. s.memento > c /\ s # t
      BY <1>7, <2>2
    <3>2. PICK k \in 1 .. m : revises(C[k], s, W)
      BY <1>1, <3>1 DEF ahead
    <3>3. k # 1
      <4>1. C[k].memento = s.memento
        BY <3>2 DEF revises
      <4>2. s.memento # t.memento
        BY <1>6, <3>1
      <4>3. QED
        BY <1>8, <4>1, <4>2
    <3>4. PICK i : i = k - 1
      OBVIOUS
    <3>5. i \in 1 .. (m - 1) /\ k = i + 1
      BY <1>3, <3>3, <3>4
    <3>6. G[i] = C[k] /\ i \in 1 .. Len(G)
      BY <1>3, <3>5
    <3>7. QED
      BY <3>2, <3>6
  <2>3. ASSUME NEW k \in 1 .. Len(G)
        PROVE  \/ \E s \in T : s.memento > b /\ G[k].memento = s.memento
               \/ \A s \in T : s.memento < G[k].memento
    <3>1. PICK l : l = k + 1
      OBVIOUS
    <3>2. k \in 1 .. (m - 1) /\ l \in 1 .. m /\ 1 \in 1 .. m /\ 1 < l
      BY <1>3, <3>1
    <3>3. G[k] = C[l]
      BY <1>3, <3>1, <3>2
    <3>4. \/ \E s \in T : s.memento > c /\ C[l].memento = s.memento
          \/ \A s \in T : s.memento < C[l].memento
      BY <1>1, <3>2 DEF ahead
    <3>5. C[1].memento < C[l].memento
      BY <1>1, <3>2 DEF ahead, rising
    <3>6. C[l].memento # t.memento
      BY <1>3, <1>6, <1>8, <3>2, <3>5
    <3>7. QED
      BY <1>7, <3>3, <3>4, <3>6
  <2>4. QED
    BY <2>1, <2>2, <2>3 DEF ahead
<1>11. QED
  BY <1>9, <1>10

\* Nothing was done between two mementos: which of them is meant does not matter.
LEMMA SameSide ==
    ASSUME NEW R, NEW C, NEW T, NEW a \in Nat, NEW b \in Nat, NEW floor, NEW W,
           T \subseteq Transactions,
           \A t \in T : t.memento <= a <=> t.memento <= b,
           behind(R, T, a, floor, W), ahead(C, T, a, W)
    PROVE  behind(R, T, b, floor, W) /\ ahead(C, T, b, W)
<1>1. \A t \in T : t.memento > a <=> t.memento > b
  <2>1. \A t \in T : t.memento \in Nat
    BY TransactionFields
  <2>2. QED
    BY <2>1
<1>2. behind(R, T, b, floor, W)
  BY DEF behind
<1>3. ahead(C, T, b, W)
  BY <1>1 DEF ahead
<1>4. QED
  BY <1>2, <1>3

\* What is undone is forgotten.
LEMMA RedoForgotten ==
    ASSUME NEW C, NEW T, NEW c \in Nat, NEW W, NEW U, T \subseteq Transactions,
           U \subseteq T, \A t \in U : t.memento <= c, ahead(C, T, c, W)
    PROVE  ahead(C, U, c, W)
<1>1. \A t \in T : t.memento \in Nat
  BY TransactionFields
<1>2. ~\E t \in U : t.memento > c
  BY <1>1
<1>3. ASSUME NEW k \in 1 .. Len(C) PROVE \A t \in U : t.memento < C[k].memento
  <2>1. \/ \E t \in T : t.memento > c /\ C[k].memento = t.memento
        \/ \A t \in T : t.memento < C[k].memento
    BY DEF ahead
  <2>2. QED
    BY <1>1, <2>1
<1>4. rising(C)
  BY DEF ahead
<1>5. QED
  BY <1>2, <1>3, <1>4 DEF ahead

\* Forgetting what was undone does not disturb the revisions of what is done.
LEMMA DoneRemembered ==
    ASSUME NEW R, NEW T, NEW c \in Nat, NEW floor, NEW W, NEW U,
           U \subseteq T, \A t \in T : t.memento <= c => t \in U, behind(R, T, c, floor, W)
    PROVE  behind(R, U, c, floor, W)
<1>1. rising(R)
  BY DEF behind
<1>2. \A t \in U : t.memento <= c => \E k \in 1 .. Len(R) : revises(R[k], t, W)
  BY DEF behind
<1>3. \A k \in 1 .. Len(R) :
        R[k].memento <= floor \/ \E t \in U : t.memento <= c /\ R[k].memento = t.memento
  BY DEF behind
<1>4. QED
  BY <1>1, <1>2, <1>3 DEF behind

\* The limit moves up.
LEMMA FloorRaised ==
    ASSUME NEW R \in Seq(Revisions), NEW T, NEW c, NEW floor \in Nat, NEW W, NEW higher \in Nat,
           floor <= higher, behind(R, T, c, floor, W)
    PROVE  behind(R, T, c, higher, W)
<1>1. \A k \in 1 .. Len(R) : R[k].memento \in Nat
  BY Mementos
<1>2. ASSUME NEW k \in 1 .. Len(R)
      PROVE  R[k].memento <= higher \/ \E t \in T : t.memento <= c /\ R[k].memento = t.memento
  <2>1. R[k].memento <= floor \/ \E t \in T : t.memento <= c /\ R[k].memento = t.memento
    BY DEF behind
  <2>2. R[k].memento <= floor => R[k].memento <= higher
    BY <1>1
  <2>3. QED
    BY <2>1, <2>2
<1>3. rising(R) /\ \A t \in T : t.memento <= c => \E k \in 1 .. Len(R) : revises(R[k], t, W)
  BY DEF behind
<1>4. QED
  BY <1>2, <1>3 DEF behind

\* What purgeHistory() leaves of the revisions.
isPurged(R, old, P) ==
    \E n \in 1 .. Len(R) :
      /\ R[n].memento = old
      /\ Len(P) = Len(R) - n + 1
      /\ P[1] = resetRevisionHistory(R[n])
      /\ \A k \in 2 .. (Len(R) - n + 1) : P[k] = R[n + k - 1]

\* The oldest transaction is purged: its revision is the oldest one now, and
\* can no more be taken back.
LEMMA PurgeMoves ==
    ASSUME NEW R \in Seq(Revisions), NEW T, NEW c \in Nat, NEW floor \in Nat, NEW W,
           singular(T, floor), behind(R, T, c, floor, W),
           NEW t \in T, t.memento <= c, \A s \in T : t.memento <= s.memento,
           NEW old, old = t.memento, NEW P, isPurged(R, old, P), NEW U, U = T \ {t}
    PROVE  behind(P, U, c, old, W)
<1>1. Len(R) \in Nat /\ \A k \in 1 .. Len(R) : R[k] \in Revisions /\ R[k].memento \in Nat
  BY Mementos
<1>2. PICK n \in 1 .. Len(R) :
        /\ R[n].memento = old /\ Len(P) = Len(R) - n + 1 /\ P[1] = resetRevisionHistory(R[n])
        /\ \A k \in 2 .. (Len(R) - n + 1) : P[k] = R[n + k - 1]
  BY DEF isPurged
<1>3. PICK l, e : l = Len(R) /\ e = l - n + 1
  OBVIOUS
<1>4. /\ l \in Nat /\ n \in 1 .. l /\ e \in 1 .. l /\ Len(P) = e
      /\ \A k \in 2 .. e : P[k] = R[n + k - 1]
  BY <1>1, <1>2, <1>3
<1>5. P[1].memento = old
  <2>1. PICK r, s : r = R[n] /\ s = resetRevisionHistory(r)
    OBVIOUS
  <2>2. s.memento = r.memento
    BY <1>1, <2>1, Rooted
  <2>3. QED
    BY <1>2, <2>1, <2>2
<1>6. /\ T \subseteq Transactions /\ \A s \in T : s.memento \in Nat /\ floor < s.memento
      /\ \A s \in T : s.memento = t.memento => s = t
  BY TransactionFields DEF singular
<1>7. \A k \in 1 .. e : n + k - 1 \in 1 .. l /\ P[k].memento = R[n + k - 1].memento
  <2>1. ASSUME NEW k \in 1 .. e PROVE n + k - 1 \in 1 .. l
    BY <1>3, <1>4
  <2>2. ASSUME NEW k \in 1 .. e PROVE P[k].memento = R[n + k - 1].memento
    <3>1. CASE k = 1
      <4>1. n + k - 1 = n
        BY <1>4, <3>1
      <4>2. QED
        BY <1>2, <1>5, <3>1, <4>1
    <3>2. CASE k # 1
      <4>1. k \in 2 .. e
        BY <1>4, <3>2
      <4>2. QED
        BY <1>4, <4>1
    <3>3. QED
      BY <3>1, <3>2
  <2>3. QED
    BY <2>1, <2>2
<1>8. rising(P)
  <2>1. ASSUME NEW k \in 1 .. e, NEW j \in 1 .. e, k < j PROVE P[k].memento < P[j].memento
    <3>1. PICK x, y : x = n + k - 1 /\ y = n + j - 1
      OBVIOUS
    <3>2. x < y /\ x \in 1 .. l /\ y \in 1 .. l
      BY <1>4, <1>7, <2>1, <3>1
    <3>3. R[x].memento < R[y].memento
      BY <1>3, <3>2 DEF behind, rising
    <3>4. QED
      BY <1>7, <3>1, <3>3
  <2>2. QED
    BY <1>4, <2>1 DEF rising
<1>9. ASSUME NEW s \in U, s.memento <= c PROVE \E k \in 1 .. Len(P) : revises(P[k], s, W)
  <2>1. s \in T /\ s # t /\ t.memento < s.memento
    <3>1. s \in T /\ s # t /\ t.memento <= s.memento
      OBVIOUS
    <3>2. t.memento # s.memento /\ t.memento \in Nat /\ s.memento \in Nat
      BY <1>6, <3>1
    <3>3. QED
      BY <3>1, <3>2
  <2>2. PICK x \in 1 .. l : revises(R[x], s, W)
    BY <1>3, <1>9, <2>1 DEF behind
  <2>3. n < x
    <3>1. R[x].memento = s.memento
      BY <2>2 DEF revises
    <3>2. R[n].memento < R[x].memento
      BY <1>2, <2>1, <3>1
    <3>3. ~(x < n) /\ x # n
      <4>1. x < n => R[x].memento < R[n].memento
        BY <1>3, <1>4 DEF behind, rising
      <4>2. R[x].memento \in Nat /\ R[n].memento \in Nat
        BY <1>1, <1>3
      <4>3. QED
        BY <3>2, <4>1, <4>2
    <3>4. QED
      BY <1>4, <3>3
  <2>4. PICK k : k = x - n + 1
    OBVIOUS
  <2>5. k \in 2 .. e /\ n + k - 1 = x
    BY <1>3, <1>4, <2>3, <2>4
  <2>6. P[k] = R[x] /\ k \in 1 .. Len(P)
    BY <1>4, <2>5
  <2>7. QED
    BY <2>2, <2>6
<1>10. ASSUME NEW k \in 1 .. Len(P)
       PROVE  P[k].memento <= old \/ \E s \in U : s.memento <= c /\ P[k].memento = s.memento
  <2>1. PICK x : x = n + k - 1
    OBVIOUS
  <2>2. x \in 1 .. l /\ P[k].memento = R[x].memento
    BY <1>4, <1>7, <2>1
  <2>3. R[x].memento <= floor \/ \E s \in T : s.memento <= c /\ R[x].memento = s.memento
    BY <1>3, <2>2 DEF behind
  <2>4. CASE R[x].memento <= floor
    <3>1. R[x].memento \in Nat /\ old \in Nat /\ floor < old
      BY <1>1, <1>3, <1>6, <2>2
    <3>2. QED
      BY <2>2, <2>4, <3>1
  <2>5. CASE \E s \in T : s.memento <= c /\ R[x].memento = s.memento
    <3>1. PICK s \in T : s.memento <= c /\ R[x].memento = s.memento
      BY <2>5
    <3>2. CASE s = t
      BY <1>6, <2>2, <3>1, <3>2
    <3>3. CASE s # t
      BY <2>2, <3>1, <3>3
    <3>4. QED
      BY <3>2, <3>3
  <2>6. QED
    BY <2>3, <2>4, <2>5
<1>11. QED
  BY <1>8, <1>9, <1>10 DEF behind

\* Its cancelled revisions, if it has any, are left alone.
LEMMA PurgedIsBehind ==
    ASSUME NEW C, NEW T, NEW c \in Nat, NEW W, T \subseteq Transactions,
           NEW t \in T, t.memento <= c, NEW U, U = T \ {t}, ahead(C, T, c, W)
    PROVE  ahead(C, U, c, W)
<1>1. \A s \in T : s.memento \in Nat
  BY TransactionFields
<1>2. \A s \in T : s.memento > c => s \in U
  BY <1>1
<1>3. QED
  BY <1>2 DEF ahead

\* Worlds that agree up to a memento.
agree(V, W, c) == \A n \in 0 .. c : V[n] = W[n]

\* A revision tells the same in worlds that agree up to its memento.
LEMMA RevisesStill ==
    ASSUME NEW r, NEW t \in Transactions, NEW c \in Nat, t.memento <= c, NEW V, NEW W,
           agree(V, W, c), revises(r, t, W)
    PROVE  revises(r, t, V)
<1>1. t.memento \in 0 .. c /\ t.memento - 1 \in 0 .. c
  BY TransactionFields
<1>2. V[t.memento] = W[t.memento] /\ V[t.memento - 1] = W[t.memento - 1]
  BY <1>1 DEF agree
<1>3. QED
  BY <1>2 DEF revises

\* Time goes by on a device.
LEMMA TimeGoesBy ==
    ASSUME NEW R, NEW C, NEW T, NEW c \in Nat, NEW n \in Nat, c <= n, NEW floor, NEW V, NEW W,
           T \subseteq Transactions, \A t \in T : t.memento <= c, agree(V, W, c),
           behind(R, T, c, floor, W), ahead(C, T, c, W)
    PROVE  behind(R, T, n, floor, V) /\ ahead(C, T, n, V)
<1>1. \A t \in T : t.memento \in Nat /\ t.memento <= n /\ ~(t.memento > n) /\ ~(t.memento > c)
  BY TransactionFields
<1>2. \A t \in T : \A r : revises(r, t, W) => revises(r, t, V)
  BY RevisesStill
<1>3. behind(R, T, n, floor, V)
  <2>1. \A t \in T : \E k \in 1 .. Len(R) : revises(R[k], t, V)
    BY <1>2 DEF behind
  <2>2. QED
    BY <1>1, <2>1 DEF behind
<1>4. ahead(C, T, n, V)
  BY <1>1 DEF ahead
<1>5. QED
  BY <1>3, <1>4

\* A new transaction.
LEMMA RevisionAdded ==
    ASSUME NEW R \in Seq(Revisions), NEW T, NEW c \in Nat, NEW n \in Nat, c < n,
           NEW floor \in Nat, floor <= c, NEW V, NEW W,
           singular(T, floor), \A s \in T : s.memento <= c, agree(V, W, c),
           behind(R, T, c, floor, W),
           NEW t \in Transactions, t.memento = n, NEW r \in Revisions, revises(r, t, V),
           NEW F, F = Append(R, r), NEW U, U = T \cup {t}
    PROVE  behind(F, U, n, floor, V)
<1>1. PICK l : l = Len(R)
  OBVIOUS
<1>2. /\ F \in Seq(Revisions) /\ l \in Nat /\ Len(F) = l + 1 /\ F[l + 1] = r
      /\ \A k \in 1 .. l : F[k] = R[k]
      /\ \A k \in 1 .. l : R[k] \in Revisions /\ R[k].memento \in Nat
  <2>1. isAppended(R, r, l, F)
    BY <1>1, WithLast
  <2>2. QED
    BY <2>1 DEF isAppended
<1>3. T \subseteq Transactions /\ \A s \in T : s.memento \in Nat /\ s.memento <= c
  BY TransactionFields DEF singular
<1>4. r.memento = n
  BY DEF revises
<1>5. ASSUME NEW k \in 1 .. l PROVE R[k].memento <= c
  <2>1. R[k].memento <= floor \/ \E s \in T : s.memento <= c /\ R[k].memento = s.memento
    BY <1>1 DEF behind
  <2>2. QED
    BY <1>2, <1>3, <2>1
<1>6. rising(F)
  <2>1. ASSUME NEW k \in 1 .. (l + 1), NEW j \in 1 .. (l + 1), k < j
        PROVE  F[k].memento < F[j].memento
    <3>1. k \in 1 .. l
      BY <1>2, <2>1
    <3>2. CASE j = l + 1
      <4>1. R[k].memento \in Nat /\ R[k].memento <= c
        BY <1>2, <1>5, <3>1
      <4>2. QED
        BY <1>2, <1>4, <3>1, <3>2, <4>1
    <3>3. CASE j # l + 1
      <4>1. j \in 1 .. l
        BY <1>2, <3>3
      <4>2. R[k].memento < R[j].memento
        BY <1>1, <2>1, <3>1, <4>1 DEF behind, rising
      <4>3. QED
        BY <1>2, <3>1, <4>1, <4>2
    <3>4. QED
      BY <3>2, <3>3
  <2>2. QED
    BY <1>2, <2>1 DEF rising
<1>7. ASSUME NEW s \in U, s.memento <= n PROVE \E k \in 1 .. Len(F) : revises(F[k], s, V)
  <2>1. CASE s = t
    <3>1. l + 1 \in 1 .. Len(F)
      BY <1>2
    <3>2. QED
      BY <1>2, <2>1, <3>1
  <2>2. CASE s # t
    <3>1. s \in T /\ s \in Transactions /\ s.memento <= c
      BY <1>3, <2>2
    <3>2. PICK k \in 1 .. l : revises(R[k], s, W)
      BY <1>1, <3>1 DEF behind
    <3>3. revises(R[k], s, V)
      BY <3>1, <3>2, RevisesStill
    <3>4. k \in 1 .. Len(F) /\ F[k] = R[k]
      BY <1>2
    <3>5. QED
      BY <3>3, <3>4
  <2>3. QED
    BY <2>1, <2>2
<1>8. ASSUME NEW k \in 1 .. Len(F)
      PROVE  F[k].memento <= floor \/ \E s \in U : s.memento <= n /\ F[k].memento = s.memento
  <2>1. CASE k = l + 1
    BY <1>2, <1>4, <2>1
  <2>2. CASE k # l + 1
    <3>1. k \in 1 .. l
      BY <1>2, <2>2
    <3>2. R[k].memento <= floor \/ \E s \in T : s.memento <= c /\ R[k].memento = s.memento
      BY <1>1, <3>1 DEF behind
    <3>3. \A s \in T : s.memento <= n
      BY <1>3
    <3>4. QED
      BY <1>2, <3>1, <3>2, <3>3
  <2>3. QED
    BY <2>1, <2>2
<1>9. QED
  BY <1>6, <1>7, <1>8 DEF behind

\* Nothing is cancelled.
LEMMA NothingAhead ==
    ASSUME NEW T, NEW c, NEW W, \A t \in T : ~(t.memento > c)
    PROVE  ahead(<<>>, T, c, W)
<1>1. \A k : k \notin 1 .. Len(<<>>)
  BY NothingTyped
<1>2. QED
  BY <1>1 DEF ahead, rising

-----------------------------------------------------------------------------
(***************************************************************************)
(* One device between the transactions.                                    *)
(***************************************************************************)

\* What is not in the index is as the heads of the history say; only a device
\* that has no history yet has something in its index.
calm(m, w) ==
    /\ m.m_currentMemento = NoMemento
    /\ m.m_hashTable = w.tiles /\ m.m_defaultPixel = w.defaultPixel
    /\ \A p \in Positions \ m.m_index : m.m_headsHashTable[p] = m.m_hashTable[p]
    /\ m.m_index # {} => m.m_revisions = <<>> /\ m.m_cancelledRevisions = <<>>

kept(m, T, c, floor, W, w) ==
    /\ behind(m.m_revisions, T, c, floor, W)
    /\ ahead(m.m_cancelledRevisions, T, c, W)
    /\ calm(m, w)

rests(m, T, c, floor, W, w) == m \in Managers /\ kept(m, T, c, floor, W, w)

\* Items that take the tiles from one state to another also take them back.
LEMMA CarriedThereAndBack ==
    ASSUME NEW from \in Contents, NEW to \in Contents, NEW items \in ItemLists,
           carries(items, from, to)
    PROVE  /\ replaced(to, items, "now", "before") = from
           /\ replaced(from, items, "before", "now") = to
           /\ headsWith(to, items, "before") = from
<1>1. from \in [Positions -> Tiles] /\ to \in [Positions -> Tiles]
  BY DEF Contents, Tiles
<1>2. \A p \in Positions : /\ p \in DOMAIN items => items[p].before = from[p] /\ items[p].now = to[p]
                           /\ p \notin DOMAIN items => from[p] = to[p]
  BY DEF carries
<1>3. from = [p \in Positions |-> from[p]] /\ to = [p \in Positions |-> to[p]]
  BY <1>1
<1>4. replaced(to, items, "now", "before") = from
  <2>1. ASSUME NEW p \in Positions
        PROVE  (IF p \notin DOMAIN items THEN to[p]
                ELSE IF items[p]["before"] # NoTile THEN items[p]["before"]
                ELSE IF items[p]["now"] # NoTile THEN NoTile
                ELSE to[p]) = from[p]
    BY <1>2
  <2>2. QED
    BY <1>3, <2>1 DEF replaced
<1>5. replaced(from, items, "before", "now") = to
  <2>1. ASSUME NEW p \in Positions
        PROVE  (IF p \notin DOMAIN items THEN from[p]
                ELSE IF items[p]["now"] # NoTile THEN items[p]["now"]
                ELSE IF items[p]["before"] # NoTile THEN NoTile
                ELSE from[p]) = to[p]
    BY <1>2
  <2>2. QED
    BY <1>3, <2>1 DEF replaced
<1>6. headsWith(to, items, "before") = from
  <2>1. ASSUME NEW p \in Positions
        PROVE  (IF p \in DOMAIN items THEN items[p]["before"] ELSE to[p]) = from[p]
    BY <1>2
  <2>2. QED
    BY <1>3, <2>1 DEF headsWith
<1>7. QED
  BY <1>4, <1>5, <1>6

\* A device with a history has nothing in its index.
LEMMA CalmIsCommitted ==
    ASSUME NEW m \in Managers, NEW w, calm(m, w),
           m.m_revisions # <<>> \/ m.m_cancelledRevisions # <<>>
    PROVE  commit(m) = m /\ m.m_index = {} /\ m.m_headsHashTable = m.m_hashTable
<1>1. m.m_index = {} /\ m.m_currentMemento = NoMemento
  BY DEF calm
<1>2. commit(m) = m
  BY <1>1, Committed
<1>3. m.m_headsHashTable = m.m_hashTable
  <2>1. m.m_hashTable \in [Positions -> Tiles] /\ m.m_headsHashTable \in [Positions -> Tiles]
    BY ManagerFields
  <2>2. \A p \in Positions : m.m_headsHashTable[p] = m.m_hashTable[p]
    BY <1>1 DEF calm
  <2>3. QED
    BY <2>1, <2>2
<1>4. QED
  BY <1>1, <1>2, <1>3

\* Undoing the latest transaction on a device: no other revision is taken back.
LEMMA UndoneDevice ==
    ASSUME NEW m \in Managers, NEW T, NEW c \in Nat, NEW floor \in Nat, NEW W, NEW d, NEW w,
           singular(T, floor), kept(m, T, c, floor, W, w),
           NEW t \in T, t.device = d, t.memento <= c,
           \A s \in T : s.memento <= c => s.memento <= t.memento,
           NEW b, b = t.memento - 1, NEW v, v = W[b][d], w = W[t.memento][d],
           w.tiles \in Contents, v.tiles \in Contents, v.defaultPixel = t.oldDefaultPixel,
           NEW r, r = setDefaultPixel(rollback(m), t.oldDefaultPixel)
    PROVE  rests(r, T, b, floor, W, v)
<1>1. PICK R, C : R = m.m_revisions /\ C = m.m_cancelledRevisions
  OBVIOUS
<1>2. /\ R \in Seq(Revisions) /\ C \in Seq(Revisions)
      /\ behind(R, T, c, floor, W) /\ ahead(C, T, c, W) /\ calm(m, w)
  BY <1>1, ManagerFields DEF kept
<1>3. PICK last, n : n = Len(R) /\ last = R[n]
  OBVIOUS
<1>4. R # <<>> /\ n \in 1 .. n /\ revises(last, t, W) /\ last \in Revisions
  <2>1. R # <<>> /\ Len(R) \in 1 .. Len(R) /\ revises(R[Len(R)], t, W)
    BY <1>2, LastIsLatest
  <2>2. QED
    BY <1>2, <1>3, <2>1
<1>5. commit(m) = m /\ m.m_index = {} /\ m.m_headsHashTable = m.m_hashTable
  BY <1>1, <1>2, <1>4, CalmIsCommitted
<1>6. PICK back : back = rollback(m)
  OBVIOUS
<1>7. PICK F, G : F = Front(R) /\ G = <<last>> \o C
  OBVIOUS
<1>8. /\ back \in Managers
      /\ back.m_hashTable = replaced(m.m_hashTable, last.items, "now", "before")
      /\ back.m_headsHashTable = headsWith(m.m_headsHashTable, last.items, "before")
      /\ back.m_revisions = F /\ back.m_cancelledRevisions = G
      /\ back.m_currentMemento = NoMemento /\ back.m_index = {}
  <2>1. PICK k : k = commit(m)
    OBVIOUS
  <2>2. k = m
    BY <1>5, <2>1
  <2>3. back \in Managers
    BY <1>6, <2>1, RolledBack
  <2>4. k.m_revisions # <<>>
    BY <1>1, <1>4, <2>2
  <2>5. LET changeList == k.m_revisions[Len(k.m_revisions)] IN
        /\ back.m_hashTable = replaced(k.m_hashTable, changeList.items, "now", "before")
        /\ back.m_headsHashTable = headsWith(k.m_headsHashTable, changeList.items, "before")
        /\ back.m_revisions = Front(k.m_revisions)
        /\ back.m_cancelledRevisions = <<changeList>> \o k.m_cancelledRevisions
        /\ back.m_currentMemento = NoMemento
        /\ back.m_index = {} /\ back.m_defaultPixel = k.m_defaultPixel
    BY <1>6, <2>1, <2>4, RolledBack
  <2>6. k.m_revisions[Len(k.m_revisions)] = last
    BY <1>1, <1>3, <2>2
  <2>7. QED
    BY <1>1, <1>7, <2>2, <2>3, <2>5, <2>6
<1>9. last.items \in ItemLists /\ carries(last.items, v.tiles, w.tiles)
  BY <1>4 DEF Revisions, revises
<1>10. m.m_hashTable = w.tiles
  BY <1>2 DEF calm
<1>11. back.m_hashTable = v.tiles /\ back.m_headsHashTable = v.tiles
  BY <1>5, <1>8, <1>9, <1>10, CarriedThereAndBack
<1>12. behind(F, T, b, floor, W) /\ ahead(G, T, b, W)
  <2>1. precedes(b, t)
    BY DEF precedes
  <2>2. isFront(R, n, F)
    BY <1>2, <1>3, <1>4, <1>7, WithoutLast
  <2>3. PICK m1 : m1 = Len(C)
    OBVIOUS
  <2>4. isJoined(C, last, m1, G)
    BY <1>2, <1>4, <1>7, <2>3, WithFirst
  <2>5. QED
    BY <1>2, <1>3, <2>1, <2>2, <2>3, <2>4, UndoMoves
<1>13. /\ r \in Managers /\ r.m_defaultPixel = v.defaultPixel
       /\ r.m_hashTable = back.m_hashTable /\ r.m_headsHashTable = back.m_headsHashTable
       /\ r.m_index = {} /\ r.m_currentMemento = NoMemento
       /\ r.m_revisions = F /\ r.m_cancelledRevisions = G
  <2>1. t.oldDefaultPixel \in DefaultPixels
    BY TransactionFields DEF singular
  <2>2. r = setDefaultPixel(back, t.oldDefaultPixel)
    BY <1>6
  <2>3. QED
    BY <1>8, <2>1, <2>2, PixelSet
<1>14. calm(r, v)
  BY <1>11, <1>13 DEF calm
<1>15. QED
  BY <1>12, <1>13, <1>14 DEF kept, rests

\* Redoing the next one: the revision is made again under its memento.
LEMMA RedoneDevice ==
    ASSUME NEW m \in Managers, NEW T, NEW c \in Nat, NEW floor \in Nat, floor <= c, NEW W, NEW d,
           NEW w, singular(T, floor), kept(m, T, c, floor, W, w),
           NEW t \in T, t.device = d, t.memento > c,
           \A s \in T : s.memento > c => t.memento <= s.memento,
           NEW b, b = t.memento, NEW v, v = W[b][d], w = W[t.memento - 1][d],
           w.tiles \in Contents, v.tiles \in Contents, v.defaultPixel = t.newDefaultPixel,
           NEW r, r = setDefaultPixel(rollforward(m), t.newDefaultPixel)
    PROVE  rests(r, T, b, floor, W, v)
<1>1. PICK R, C : R = m.m_revisions /\ C = m.m_cancelledRevisions
  OBVIOUS
<1>2. /\ R \in Seq(Revisions) /\ C \in Seq(Revisions)
      /\ behind(R, T, c, floor, W) /\ ahead(C, T, c, W) /\ calm(m, w)
  BY <1>1, ManagerFields DEF kept
<1>3. PICK next : next = C[1]
  OBVIOUS
<1>4. C # <<>> /\ 1 \in 1 .. Len(C) /\ revises(next, t, W) /\ next \in Revisions
  <2>1. C # <<>> /\ 1 \in 1 .. Len(C) /\ revises(C[1], t, W)
    BY <1>2, FirstIsNext
  <2>2. QED
    BY <1>2, <1>3, <2>1
<1>5. commit(m) = m /\ m.m_index = {} /\ m.m_headsHashTable = m.m_hashTable
  BY <1>1, <1>2, <1>4, CalmIsCommitted
<1>6. PICK forth : forth = rollforward(m)
  OBVIOUS
<1>7. PICK n \in Managers :
        /\ forth = commit(n)
        /\ n.m_hashTable = replaced(m.m_hashTable, next.items, "before", "now")
        /\ n.m_index = DOMAIN next.items
        /\ n.m_cancelledRevisions = Tail(C) /\ n.m_currentMemento = next.memento
        /\ n.m_headsHashTable = m.m_headsHashTable /\ n.m_revisions = R
  <2>1. PICK k : k = commit(m)
    OBVIOUS
  <2>2. k = m
    BY <1>5, <2>1
  <2>3. k.m_cancelledRevisions # <<>>
    BY <1>1, <1>4, <2>2
  <2>4. LET changeList == k.m_cancelledRevisions[1] IN
        \E n \in Managers :
          /\ forth = commit(n)
          /\ n.m_hashTable = replaced(k.m_hashTable, changeList.items, "before", "now")
          /\ n.m_index = DOMAIN changeList.items
          /\ n.m_cancelledRevisions = Tail(k.m_cancelledRevisions)
          /\ n.m_currentMemento = changeList.memento
          /\ n.m_headsHashTable = k.m_headsHashTable
          /\ n.m_revisions = k.m_revisions /\ n.m_defaultPixel = k.m_defaultPixel
    BY <1>6, <2>1, <2>3, RolledForward
  <2>5. k.m_cancelledRevisions[1] = next
    BY <1>1, <1>3, <2>2
  <2>6. QED
    BY <1>1, <2>2, <2>4, <2>5
<1>8. next.items \in ItemLists /\ carries(next.items, w.tiles, v.tiles) /\ next.memento = t.memento
  BY <1>4 DEF Revisions, revises
<1>9. m.m_hashTable = w.tiles /\ m.m_headsHashTable = w.tiles
  BY <1>2, <1>5 DEF calm
<1>10. n.m_hashTable = v.tiles
  BY <1>7, <1>8, <1>9, CarriedThereAndBack
<1>11. t.memento \in Nat /\ n.m_currentMemento # NoMemento /\ T \subseteq Transactions
  <2>1. t.memento \in 1 .. MaxTransactions /\ T \subseteq Transactions
    BY TransactionFields DEF singular
  <2>2. QED
    BY <1>7, <1>8, <2>1 DEF NoMemento
<1>12. PICK again, F, G : again = revisionOf(n) /\ F = Append(R, again) /\ G = Tail(C)
  OBVIOUS
<1>13. /\ forth \in Managers /\ forth.m_revisions = F /\ forth.m_cancelledRevisions = G
       /\ forth.m_headsHashTable = headsAfter(n)
       /\ forth.m_index = {} /\ forth.m_currentMemento = NoMemento
       /\ forth.m_hashTable = v.tiles
  BY <1>7, <1>10, <1>11, <1>12, Committed
<1>14. \A p \in Positions : p \notin DOMAIN next.items => w.tiles[p] = v.tiles[p]
  BY <1>8 DEF carries
<1>15. headsAfter(n) = v.tiles
  <2>1. v.tiles = [p \in Positions |-> v.tiles[p]]
    BY DEF Contents
  <2>2. \A p \in Positions :
          (IF p \in n.m_index THEN n.m_hashTable[p] ELSE n.m_headsHashTable[p]) = v.tiles[p]
    BY <1>7, <1>9, <1>10, <1>14
  <2>3. QED
    BY <2>1, <2>2 DEF headsAfter
<1>16. again \in Revisions
  BY <1>12, RevisionTyped
<1>17. revises(again, t, W)
  <2>1. again.memento = t.memento
    BY <1>7, <1>8, <1>12 DEF revisionOf
  <2>2. PICK items : items = again.items
    OBVIOUS
  <2>3. items = [p \in DOMAIN next.items |-> [now |-> v.tiles[p], before |-> w.tiles[p]]]
    BY <1>7, <1>9, <1>10, <1>12, <2>2 DEF revisionOf
  <2>4. carries(items, w.tiles, v.tiles)
    BY <1>14, <2>3 DEF carries
  <2>5. QED
    BY <2>1, <2>2, <2>4 DEF revises
<1>18. behind(F, T, b, floor, W) /\ ahead(G, T, b, W)
  BY <1>2, <1>12, <1>16, <1>17, RedoMoves
<1>19. /\ r \in Managers /\ r.m_defaultPixel = v.defaultPixel
       /\ r.m_hashTable = forth.m_hashTable /\ r.m_headsHashTable = forth.m_headsHashTable
       /\ r.m_index = {} /\ r.m_currentMemento = NoMemento
       /\ r.m_revisions = F /\ r.m_cancelledRevisions = G
  <2>1. t.newDefaultPixel \in DefaultPixels
    BY <1>11, TransactionFields
  <2>2. r = setDefaultPixel(forth, t.newDefaultPixel)
    BY <1>6
  <2>3. QED
    BY <1>13, <2>1, <2>2, PixelSet
<1>20. calm(r, v)
  BY <1>13, <1>15, <1>19 DEF calm
<1>21. QED
  BY <1>18, <1>19, <1>20 DEF kept, rests

\* Purging a transaction that the device does not know changes nothing.
LEMMA PurgedNothing ==
    ASSUME NEW m \in Managers, NEW old, m.m_currentMemento # old,
           \A k \in 1 .. Len(m.m_revisions) : m.m_revisions[k].memento # old
    PROVE  purgeHistory(m, old) = m
<1>1. PICK c, r : c = (IF m.m_currentMemento = old THEN commit(m) ELSE m)
                  /\ r = purgeHistory(m, old)
  OBVIOUS
<1>2. c = m
  BY <1>1
<1>3. (\A k \in 1 .. Len(c.m_revisions) : c.m_revisions[k].memento # old) => r = c
  BY <1>1, Purged
<1>4. QED
  BY <1>1, <1>2, <1>3

\* Purging the oldest transaction of the device.
LEMMA PurgedDevice ==
    ASSUME NEW m \in Managers, NEW T, NEW c \in Nat, NEW floor \in Nat, NEW W, NEW w,
           singular(T, floor), kept(m, T, c, floor, W, w),
           NEW t \in T, t.memento <= c, \A s \in T : t.memento <= s.memento,
           NEW old, old = t.memento, NEW U, U = T \ {t}, NEW r, r = purgeHistory(m, old)
    PROVE  rests(r, U, c, old, W, w)
<1>1. PICK R, C : R = m.m_revisions /\ C = m.m_cancelledRevisions
  OBVIOUS
<1>2. /\ R \in Seq(Revisions) /\ C \in Seq(Revisions)
      /\ behind(R, T, c, floor, W) /\ ahead(C, T, c, W) /\ calm(m, w)
  BY <1>1, ManagerFields DEF kept
<1>3. T \subseteq Transactions /\ old \in Nat /\ old # NoMemento
  <2>1. T \subseteq Transactions /\ t.memento \in 1 .. MaxTransactions
    BY TransactionFields DEF singular
  <2>2. QED
    BY <2>1 DEF NoMemento
<1>4. PICK x \in 1 .. Len(R) : R[x].memento = old
  BY <1>2 DEF behind, revises
<1>5. PICK k : k = IF m.m_currentMemento = old THEN commit(m) ELSE m
  OBVIOUS
<1>6. k = m
  BY <1>2, <1>3, <1>5 DEF calm
<1>7. /\ r \in Managers
      /\ \E n \in 1 .. Len(k.m_revisions) :
           /\ k.m_revisions[n].memento = old
           /\ \A i \in 1 .. Len(k.m_revisions) : k.m_revisions[i].memento = old => n <= i
           /\ Len(r.m_revisions) = Len(k.m_revisions) - n + 1
           /\ r.m_revisions[1] = resetRevisionHistory(k.m_revisions[n])
           /\ \A i \in 2 .. (Len(k.m_revisions) - n + 1) :
                 r.m_revisions[i] = k.m_revisions[n + i - 1]
           /\ r.m_hashTable = k.m_hashTable /\ r.m_headsHashTable = k.m_headsHashTable
           /\ r.m_cancelledRevisions = k.m_cancelledRevisions
           /\ r.m_currentMemento = k.m_currentMemento
           /\ r.m_index = k.m_index /\ r.m_defaultPixel = k.m_defaultPixel
  <2>1. \E i \in 1 .. Len(k.m_revisions) : k.m_revisions[i].memento = old
    BY <1>1, <1>4, <1>6
  <2>2. purgedTo(old, k, r)
    BY <1>5, Purged
  <2>3. QED
    BY <2>1, <2>2 DEF purgedTo
<1>8. PICK P : P = r.m_revisions
  OBVIOUS
<1>9. /\ isPurged(R, old, P)
      /\ r.m_hashTable = m.m_hashTable /\ r.m_headsHashTable = m.m_headsHashTable
      /\ r.m_cancelledRevisions = C /\ r.m_currentMemento = m.m_currentMemento
      /\ r.m_index = m.m_index /\ r.m_defaultPixel = m.m_defaultPixel
  BY <1>1, <1>6, <1>7, <1>8 DEF isPurged
<1>10. behind(P, U, c, old, W)
  BY <1>2, <1>9, PurgeMoves
<1>11. ahead(C, U, c, W)
  BY <1>2, <1>3, PurgedIsBehind
<1>12. calm(r, w)
  <2>1. m.m_index = {}
    <3>1. R # <<>>
      BY <1>4, NothingTyped
    <3>2. QED
      BY <1>1, <1>2, <3>1 DEF calm
  <2>2. QED
    BY <1>2, <1>9, <2>1 DEF calm
<1>13. QED
  BY <1>7, <1>8, <1>9, <1>10, <1>11, <1>12 DEF kept, rests

-----------------------------------------------------------------------------
(***************************************************************************)
(* All devices. The transactions tell how the image became what it is: each *)
(* changed one device, and nothing changed between them.                   *)
(***************************************************************************)
ours(S, d) == {t \in S : t.device = d}

atRest(managers, D, S, c, floor, W) ==
    /\ managers \in [Devices -> Managers] /\ D \subseteq Devices
    /\ c \in Nat /\ floor \in Nat /\ floor <= c
    /\ \A d \in D : kept(managers[d], ours(S, d), c, floor, W, W[c][d])

tells(t, W) ==
    /\ W[t.memento - 1][t.device].defaultPixel = t.oldDefaultPixel
    /\ W[t.memento][t.device].defaultPixel = t.newDefaultPixel
    /\ \A d \in Devices : d # t.device => W[t.memento][d] = W[t.memento - 1][d]

story(S, floor, top, W) ==
    /\ W \in [Nat -> Images] /\ floor \in Nat /\ top \in Nat
    /\ singular(S, floor) /\ \A t \in S : t.memento <= top
    /\ \A n \in (floor + 1) .. top : (\A t \in S : t.memento # n) => W[n] = W[n - 1]
    /\ \A t \in S : tells(t, W)

\* Nothing changed between two mementos without a transaction.
LEMMA Meanwhile ==
    ASSUME NEW S, NEW floor, NEW top, NEW W, story(S, floor, top, W),
           NEW a \in Nat, NEW b \in Nat, floor <= a, a <= b, b <= top,
           \A t \in S : t.memento <= a \/ t.memento > b
    PROVE  W[a] = W[b]
<1>1. floor \in Nat /\ top \in Nat /\ S \subseteq Transactions
      /\ \A n \in (floor + 1) .. top : (\A t \in S : t.memento # n) => W[n] = W[n - 1]
  BY DEF story, singular
<1>2. \A t \in S : t.memento \in Nat
  BY <1>1, TransactionFields
<1>3. PICK N : N = b - a
  OBVIOUS
<1>4. N \in Nat /\ a + N = b
  BY <1>3
<1> DEFINE T == {n \in 0 .. N : W[a + n] = W[a]}
<1>5. 0 \in T
  BY <1>4
<1>6. ASSUME NEW n \in 1 .. N, n - 1 \in T PROVE n \in T
  <2>1. W[a + (n - 1)] = W[a]
    BY <1>6
  <2>2. PICK k : k = a + n
    OBVIOUS
  <2>3. k \in (floor + 1) .. top /\ k - 1 = a + (n - 1) /\ a < k /\ k <= b /\ k \in Nat
    BY <1>1, <1>4, <2>2
  <2>4. \A t \in S : t.memento # k
    BY <1>2, <2>3
  <2>5. W[k] = W[k - 1]
    BY <1>1, <2>3, <2>4
  <2>6. QED
    BY <1>4, <2>1, <2>2, <2>3, <2>5
<1> HIDE DEF T
<1>7. \A n \in 0 .. N : n \in T
  BY <1>4, <1>5, <1>6, StepByStep
<1>8. N \in T
  BY <1>4, <1>7
<1>9. QED
  BY <1>4, <1>8 DEF T

\* The transactions on one device.
LEMMA OursAlone ==
    ASSUME NEW S, NEW floor, singular(S, floor), NEW d
    PROVE  /\ singular(ours(S, d), floor) /\ ours(S, d) \subseteq Transactions
           /\ \A t \in ours(S, d) : t \in S /\ t.device = d
BY DEF singular, ours

\* Which memento is meant, of those without a transaction between them, does
\* not matter.
LEMMA SameRest ==
    ASSUME NEW managers, NEW D, NEW S, NEW floor, NEW top, NEW W, story(S, floor, top, W),
           NEW a \in Nat, NEW b \in Nat, floor <= a, floor <= b, a <= top, b <= top,
           \A t \in S : t.memento <= a <=> t.memento <= b,
           atRest(managers, D, S, a, floor, W)
    PROVE  atRest(managers, D, S, b, floor, W)
<1>1. singular(S, floor) /\ S \subseteq Transactions
  BY DEF story, singular
<1>2. \A t \in S : t.memento \in Nat
  BY <1>1, TransactionFields
<1>3. W[a] = W[b]
  <2>1. CASE a <= b
    <3>1. \A t \in S : t.memento <= a \/ t.memento > b
      BY <1>2
    <3>2. QED
      BY <2>1, <3>1, Meanwhile
  <2>2. CASE ~(a <= b)
    <3>1. b <= a /\ \A t \in S : t.memento <= b \/ t.memento > a
      BY <1>2, <2>2
    <3>2. QED
      BY <3>1, Meanwhile
  <2>3. QED
    BY <2>1, <2>2
<1>4. ASSUME NEW d \in D PROVE kept(managers[d], ours(S, d), b, floor, W, W[b][d])
  <2>1. PICK m, T, w : m = managers[d] /\ T = ours(S, d) /\ w = W[a][d]
    OBVIOUS
  <2>2. kept(m, T, a, floor, W, w)
    BY <2>1 DEF atRest
  <2>3. T \subseteq Transactions /\ \A t \in T : t.memento <= a <=> t.memento <= b
    BY <1>1, <2>1, OursAlone
  <2>4. PICK R, C : R = m.m_revisions /\ C = m.m_cancelledRevisions
    OBVIOUS
  <2>5. behind(R, T, a, floor, W) /\ ahead(C, T, a, W) /\ calm(m, w)
    BY <2>2, <2>4 DEF kept
  <2>6. behind(R, T, b, floor, W) /\ ahead(C, T, b, W)
    BY <2>3, <2>5, SameSide
  <2>7. kept(m, T, b, floor, W, w)
    BY <2>4, <2>5, <2>6 DEF kept
  <2>8. QED
    BY <1>3, <2>1, <2>7
<1>5. QED
  BY <1>4 DEF atRest
===============================================================================
