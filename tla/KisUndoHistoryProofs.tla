-------------------------- MODULE KisUndoHistoryProofs --------------------------
(***************************************************************************)
(* The history of the image. Worlds W[0], W[1], ... are what the image was *)
(* after each memento; the commands of the stack are marked with the last  *)
(* memento each of them contains. The devices stand at a place in the list *)
(* of commands: each has revisions of what was done on it up to there, in  *)
(* order, and cancelled revisions of what comes after it (at). The jobs in *)
(* the queue lead from that place to the index of the stack; a stroke in   *)
(* progress and a macro in the making are one world ahead (situated). All  *)
(* this is HistoryInv, which every step keeps as long as commands of two   *)
(* kinds are not jumped over at once and no stroke is cancelled while its  *)
(* device has something to redo (historyMeantFor).                         *)
(*                                                                         *)
(* From it follow, when nothing waits: the image is the one of the index,  *)
(* and counting transactions from an end of the list leads to the revision *)
(* of each. With what the document was told of the indices, and which      *)
(* images are where (DocumentInv): the document that is not modified is in *)
(* the file, and other work will be autosaved.                             *)
(***************************************************************************)
EXTENDS KisUndoProofs

-------------------------------------------------------------------------------
(***************************************************************************)
(* Transactions, on all devices.                                           *)
(***************************************************************************)

\* The transaction that is undone next, and the one that is redone next.
isLatest(t, S, c) ==
    t \in S /\ t.memento <= c /\ \A s \in S : s.memento <= c => s.memento <= t.memento
isNext(t, S, c) ==
    t \in S /\ t.memento > c /\ \A s \in S : s.memento > c => t.memento <= s.memento

\* What the transactions tell about the image before and after each of them.
LEMMA WorldsOf ==
    ASSUME NEW S, NEW floor, NEW top, NEW W, story(S, floor, top, W), NEW t \in S, NEW b, precedes(b, t)
    PROVE  /\ b \in Nat /\ floor <= b /\ b < t.memento /\ t.memento <= top /\ t.memento \in Nat
           /\ t \in Transactions /\ t.device \in Devices
           /\ W[b] \in Images /\ W[t.memento] \in Images
           /\ W[b][t.device].defaultPixel = t.oldDefaultPixel
           /\ W[t.memento][t.device].defaultPixel = t.newDefaultPixel
           /\ \A d \in Devices : d # t.device => W[t.memento][d] = W[b][d]
<1>1. /\ t \in Transactions /\ floor < t.memento /\ t.memento <= top /\ floor \in Nat /\ tells(t, W)
      /\ W \in [Nat -> Images]
  BY DEF story, singular
<1>2. t.memento \in Nat /\ t.device \in Devices
  BY <1>1, TransactionFields
<1>3. b = t.memento - 1
  BY DEF precedes
<1>4. b \in Nat /\ floor <= b /\ b < t.memento
  BY <1>1, <1>2, <1>3
<1>5. QED
  BY <1>1, <1>2, <1>3, <1>4 DEF tells

\* The image of one device.
LEMMA WorldTyped ==
    ASSUME NEW w \in Images, NEW d \in Devices
    PROVE  w[d].tiles \in Contents /\ w[d].defaultPixel \in DefaultPixels
  BY DEF Images

\* A device that did not take part.
LEMMA Bystander ==
    ASSUME NEW m, NEW T, NEW floor, NEW W, NEW w, T \subseteq Transactions, NEW a \in Nat, NEW b \in Nat,
           kept(m, T, a, floor, W, w), \A t \in T : t.memento <= a <=> t.memento <= b
    PROVE  kept(m, T, b, floor, W, w)
<1>1. PICK R, C : R = m.m_revisions /\ C = m.m_cancelledRevisions
  OBVIOUS
<1>2. behind(R, T, a, floor, W) /\ ahead(C, T, a, W) /\ calm(m, w)
  BY <1>1 DEF kept
<1>3. behind(R, T, b, floor, W) /\ ahead(C, T, b, W)
  BY <1>2, SameSide
<1>4. QED
  BY <1>1, <1>2, <1>3 DEF kept

\* One transaction of the image is undone.
LEMMA UndoTransaction ==
    ASSUME NEW managers, NEW D, NEW S, NEW floor, NEW top, NEW W, story(S, floor, top, W),
           NEW c \in Nat, c <= top, atRest(managers, D, S, c, floor, W),
           NEW t, isLatest(t, S, c), t.device \in D, NEW b, precedes(b, t),
           NEW after, after = carriedOut("undo", managers, t)
    PROVE  atRest(after, D, S, b, floor, W)
<1>1. /\ t \in S /\ t.memento <= c /\ \A s \in S : s.memento <= c => s.memento <= t.memento
  BY DEF isLatest
<1>2. /\ b \in Nat /\ floor <= b /\ b < t.memento /\ t.memento <= top /\ t.memento \in Nat
      /\ t \in Transactions /\ t.device \in Devices
      /\ W[b] \in Images /\ W[t.memento] \in Images
      /\ W[b][t.device].defaultPixel = t.oldDefaultPixel
      /\ \A d \in Devices : d # t.device => W[t.memento][d] = W[b][d]
  BY <1>1, WorldsOf
<1>3. managers \in [Devices -> Managers] /\ D \subseteq Devices /\ floor \in Nat /\ floor <= c
      /\ \A d \in D : kept(managers[d], ours(S, d), c, floor, W, W[c][d])
  BY DEF atRest
<1>4. singular(S, floor) /\ S \subseteq Transactions
  BY DEF story, singular
<1>5. \A s \in S : s.memento \in Nat
  BY <1>4, TransactionFields
<1>6. W[t.memento] = W[c]
  <2>1. PICK a : a = t.memento
    OBVIOUS
  <2>2. a \in Nat /\ floor <= a /\ a <= c /\ \A s \in S : s.memento <= a \/ s.memento > c
    BY <1>1, <1>2, <1>3, <1>5, <2>1
  <2>3. W[a] = W[c]
    BY <2>2, Meanwhile
  <2>4. QED
    BY <2>1, <2>3
<1>7. /\ after \in [Devices -> Managers]
      /\ \A d \in Devices : d # t.device => after[d] = managers[d]
      /\ after[t.device] = setDefaultPixel(rollback(managers[t.device]), t.oldDefaultPixel)
  BY <1>2, <1>3, CarriedOut
<1>8. ASSUME NEW d \in D, d = t.device PROVE kept(after[d], ours(S, d), b, floor, W, W[b][d])
  <2>1. PICK m, T, w, v, r : m = managers[d] /\ T = ours(S, d) /\ w = W[c][d] /\ v = W[b][d]
                             /\ r = after[d]
    OBVIOUS
  <2>2. m \in Managers /\ kept(m, T, c, floor, W, w) /\ singular(T, floor)
    BY <1>3, <1>4, <2>1, OursAlone
  <2>3. t \in T /\ t.device = d /\ \A s \in T : s.memento <= c => s.memento <= t.memento
    BY <1>1, <1>8, <2>1 DEF ours
  <2>4. w.tiles \in Contents /\ v.tiles \in Contents /\ v.defaultPixel = t.oldDefaultPixel
        /\ w = W[t.memento][d]
    BY <1>2, <1>3, <1>6, <1>8, <2>1, WorldTyped
  <2>5. r = setDefaultPixel(rollback(m), t.oldDefaultPixel)
    BY <1>7, <1>8, <2>1
  <2>6. b = t.memento - 1
    BY DEF precedes
  <2>7. kept(r, T, b, floor, W, v)
    BY <1>1, <1>3, <2>1, <2>2, <2>3, <2>4, <2>5, <2>6, UndoneDevice DEF rests
  <2>8. QED
    BY <2>1, <2>7
<1>9. ASSUME NEW d \in D, d # t.device PROVE kept(after[d], ours(S, d), b, floor, W, W[b][d])
  <2>1. PICK m, T, w : m = managers[d] /\ T = ours(S, d) /\ w = W[c][d]
    OBVIOUS
  <2>2. kept(m, T, c, floor, W, w) /\ T \subseteq Transactions
    BY <1>3, <1>4, <2>1, OursAlone
  <2>3. \A s \in T : s.memento <= c <=> s.memento <= b
    <3>1. SUFFICES ASSUME NEW s \in T PROVE s.memento <= c <=> s.memento <= b
      OBVIOUS
    <3>2. s \in S /\ s.device = d /\ s.memento \in Nat
      BY <1>4, <1>5, <2>1, OursAlone
    <3>3. s.memento # t.memento
      BY <1>1, <1>4, <1>9, <3>2 DEF singular
    <3>4. b = t.memento - 1
      BY DEF precedes
    <3>5. QED
      BY <1>1, <1>2, <3>2, <3>3, <3>4
  <2>4. kept(m, T, b, floor, W, w)
    BY <1>2, <2>2, <2>3, Bystander
  <2>5. w = W[b][d] /\ after[d] = m
    BY <1>2, <1>3, <1>6, <1>7, <1>9, <2>1
  <2>6. QED
    BY <2>1, <2>4, <2>5
<1>10. QED
  BY <1>2, <1>3, <1>7, <1>8, <1>9 DEF atRest

\* One transaction of the image is redone.
LEMMA RedoTransaction ==
    ASSUME NEW managers, NEW D, NEW S, NEW floor, NEW top, NEW W, story(S, floor, top, W),
           NEW c \in Nat, c <= top, atRest(managers, D, S, c, floor, W),
           NEW t, isNext(t, S, c), t.device \in D, NEW n, n = t.memento,
           NEW after, after = carriedOut("redo", managers, t)
    PROVE  atRest(after, D, S, n, floor, W)
<1>1. /\ t \in S /\ t.memento > c /\ \A s \in S : s.memento > c => t.memento <= s.memento
  BY DEF isNext
<1>2. PICK b : precedes(b, t)
  BY DEF precedes
<1>3. /\ b \in Nat /\ floor <= b /\ b < n /\ n <= top /\ n \in Nat
      /\ t \in Transactions /\ t.device \in Devices
      /\ W[b] \in Images /\ W[n] \in Images
      /\ W[n][t.device].defaultPixel = t.newDefaultPixel
      /\ \A d \in Devices : d # t.device => W[n][d] = W[b][d]
  BY <1>1, <1>2, WorldsOf
<1>4. managers \in [Devices -> Managers] /\ D \subseteq Devices /\ floor \in Nat /\ floor <= c
      /\ \A d \in D : kept(managers[d], ours(S, d), c, floor, W, W[c][d])
  BY DEF atRest
<1>5. singular(S, floor) /\ S \subseteq Transactions
  BY DEF story, singular
<1>6. \A s \in S : s.memento \in Nat
  BY <1>5, TransactionFields
<1>7. b = n - 1
  BY <1>2 DEF precedes
<1>8. W[b] = W[c]
  <2>1. c <= b /\ b <= top
    BY <1>1, <1>3, <1>7, story(S, floor, top, W) DEF story
  <2>2. \A s \in S : s.memento <= c \/ s.memento > b
    BY <1>1, <1>3, <1>6, <1>7
  <2>3. QED
    BY <1>3, <1>4, <2>1, <2>2, Meanwhile
<1>9. /\ after \in [Devices -> Managers]
      /\ \A d \in Devices : d # t.device => after[d] = managers[d]
      /\ after[t.device] = setDefaultPixel(rollforward(managers[t.device]), t.newDefaultPixel)
  <2>1. PICK kind : kind = "redo"
    OBVIOUS
  <2>2. after = carriedOut(kind, managers, t) /\ t \in Transactions
        /\ managers \in [Devices -> Managers]
    BY <1>3, <1>4, <2>1
  <2>3. QED
    BY <2>1, <2>2, CarriedOut
<1>10. ASSUME NEW d \in D, d = t.device PROVE kept(after[d], ours(S, d), n, floor, W, W[n][d])
  <2>1. PICK m, T, w, v, r : m = managers[d] /\ T = ours(S, d) /\ w = W[c][d] /\ v = W[n][d]
                             /\ r = after[d]
    OBVIOUS
  <2>2. m \in Managers /\ kept(m, T, c, floor, W, w) /\ singular(T, floor)
    BY <1>4, <1>5, <2>1, OursAlone
  <2>3. t \in T /\ t.device = d /\ \A s \in T : s.memento > c => t.memento <= s.memento
    BY <1>1, <1>10, <2>1 DEF ours
  <2>4. w.tiles \in Contents /\ v.tiles \in Contents /\ v.defaultPixel = t.newDefaultPixel
        /\ w = W[t.memento - 1][d]
    BY <1>3, <1>7, <1>8, <1>10, <2>1, WorldTyped
  <2>5. r = setDefaultPixel(rollforward(m), t.newDefaultPixel)
    BY <1>9, <1>10, <2>1
  <2>6. kept(r, T, n, floor, W, v)
    BY <1>1, <1>4, <2>1, <2>2, <2>3, <2>4, <2>5, RedoneDevice DEF rests
  <2>7. QED
    BY <2>1, <2>6
<1>11. ASSUME NEW d \in D, d # t.device PROVE kept(after[d], ours(S, d), n, floor, W, W[n][d])
  <2>1. PICK m, T, w : m = managers[d] /\ T = ours(S, d) /\ w = W[c][d]
    OBVIOUS
  <2>2. kept(m, T, c, floor, W, w) /\ T \subseteq Transactions
    BY <1>4, <1>5, <2>1, OursAlone
  <2>3. \A s \in T : s.memento <= c <=> s.memento <= n
    <3>1. SUFFICES ASSUME NEW s \in T PROVE s.memento <= c <=> s.memento <= n
      OBVIOUS
    <3>2. s \in S /\ s.device = d /\ s.memento \in Nat
      BY <1>5, <1>6, <2>1, OursAlone
    <3>3. s.memento # t.memento
      BY <1>1, <1>5, <1>11, <3>2 DEF singular
    <3>4. QED
      BY <1>1, <1>3, <3>2, <3>3
  <2>4. kept(m, T, n, floor, W, w)
    BY <1>3, <2>2, <2>3, Bystander
  <2>5. w = W[n][d] /\ after[d] = m
    BY <1>3, <1>4, <1>8, <1>9, <1>11, <2>1
  <2>6. QED
    BY <2>1, <2>4, <2>5
<1>12. floor <= n
  BY <1>1, <1>3, <1>4
<1>13. QED
  BY <1>3, <1>4, <1>9, <1>10, <1>11, <1>12 DEF atRest

\* The transactions of a command: all that were committed between two mementos.
written(ts, S, lo, hi) ==
    /\ ts \in Seq(Transactions)
    /\ \A k \in 1 .. Len(ts) : ts[k] \in S /\ lo < ts[k].memento /\ ts[k].memento <= hi
    /\ \A k, l \in 1 .. Len(ts) : k < l => ts[k].memento < ts[l].memento
    /\ \A s \in S : lo < s.memento /\ s.memento <= hi => \E k \in 1 .. Len(ts) : s = ts[k]

\* The image is where it was after j transactions of the command.
within(managers, S, ts, j, lo, floor, top, W) ==
    \E c \in Nat :
        /\ floor <= c /\ c <= top /\ atRest(managers, Devices, S, c, floor, W)
        /\ \A s \in S : s.memento <= c <=> (s.memento <= lo \/ \E k \in 1 .. j : s = ts[k])

\* Where a command begins and where it ends.
LEMMA WithinEnds ==
    ASSUME NEW managers, NEW S, NEW ts, NEW lo \in Nat, NEW hi \in Nat, NEW floor, NEW top, NEW W,
           story(S, floor, top, W), written(ts, S, lo, hi), floor <= lo, lo <= hi, hi <= top
    PROVE  /\ atRest(managers, Devices, S, lo, floor, W) <=> within(managers, S, ts, 0, lo, floor, top, W)
           /\ atRest(managers, Devices, S, hi, floor, W) <=>
                within(managers, S, ts, Len(ts), lo, floor, top, W)
<1>1. /\ floor \in Nat /\ top \in Nat /\ S \subseteq Transactions
  BY DEF story, singular
<1>2. \A s \in S : s.memento \in Nat
  BY <1>1, TransactionFields
<1>3. \A s \in S : s.memento <= lo <=> (s.memento <= lo \/ \E k \in 1 .. 0 : s = ts[k])
  OBVIOUS
<1>4. \A s \in S : s.memento <= hi <=> (s.memento <= lo \/ \E k \in 1 .. Len(ts) : s = ts[k])
  BY <1>2 DEF written
<1>5. atRest(managers, Devices, S, lo, floor, W) => within(managers, S, ts, 0, lo, floor, top, W)
  <2>1. lo <= top
    BY <1>1
  <2>2. QED
    BY <1>3, <2>1 DEF within
<1>6. atRest(managers, Devices, S, hi, floor, W) => within(managers, S, ts, Len(ts), lo, floor, top, W)
  <2>1. floor <= hi
    BY <1>1
  <2>2. QED
    BY <1>4, <2>1 DEF within
<1>7. ASSUME within(managers, S, ts, 0, lo, floor, top, W) PROVE atRest(managers, Devices, S, lo, floor, W)
  <2>1. PICK c \in Nat :
            /\ floor <= c /\ c <= top /\ atRest(managers, Devices, S, c, floor, W)
            /\ \A s \in S : s.memento <= c <=> (s.memento <= lo \/ \E k \in 1 .. 0 : s = ts[k])
    BY <1>7 DEF within
  <2>2. lo <= top /\ \A s \in S : s.memento <= c <=> s.memento <= lo
    BY <1>1, <2>1
  <2>3. QED
    BY <2>1, <2>2, SameRest
<1>8. ASSUME within(managers, S, ts, Len(ts), lo, floor, top, W)
      PROVE  atRest(managers, Devices, S, hi, floor, W)
  <2>1. PICK c \in Nat :
            /\ floor <= c /\ c <= top /\ atRest(managers, Devices, S, c, floor, W)
            /\ \A s \in S : s.memento <= c <=> (s.memento <= lo \/ \E k \in 1 .. Len(ts) : s = ts[k])
    BY <1>8 DEF within
  <2>2. floor <= hi /\ \A s \in S : s.memento <= c <=> s.memento <= hi
    BY <1>1, <1>4, <2>1
  <2>3. QED
    BY <2>1, <2>2, SameRest
<1>9. QED
  BY <1>5, <1>6, <1>7, <1>8

\* One transaction back.
LEMMA StepBack ==
    ASSUME NEW managers, NEW S, NEW ts, NEW lo \in Nat, NEW hi \in Nat, NEW floor, NEW top, NEW W,
           story(S, floor, top, W), written(ts, S, lo, hi),
           NEW j \in 1 .. Len(ts), within(managers, S, ts, j, lo, floor, top, W),
           NEW t, t = ts[j], NEW after, after = carriedOut("undo", managers, t), NEW i, i = j - 1
    PROVE  within(after, S, ts, i, lo, floor, top, W)
<1>1. /\ floor \in Nat /\ top \in Nat /\ S \subseteq Transactions
  BY DEF story, singular
<1>2. \A s \in S : s.memento \in Nat /\ s.device \in Devices
  BY <1>1, TransactionFields
<1>3. PICK c \in Nat :
          /\ floor <= c /\ c <= top /\ atRest(managers, Devices, S, c, floor, W)
          /\ \A s \in S : s.memento <= c <=> (s.memento <= lo \/ \E k \in 1 .. j : s = ts[k])
  BY DEF within
<1>4. Len(ts) \in Nat /\ j \in Nat /\ j <= Len(ts) /\ \A k \in 1 .. j : k \in 1 .. Len(ts)
  BY DEF written
<1>5. \A k \in 1 .. j : ts[k] \in S /\ lo < ts[k].memento /\ (k < j => ts[k].memento < t.memento)
  BY <1>4 DEF written
<1>6. t \in S /\ j \in 1 .. j
  BY <1>4, <1>5
<1>7. t.memento <= c /\ t.memento \in Nat /\ lo < t.memento
  BY <1>2, <1>3, <1>5, <1>6
<1>8. ASSUME NEW s \in S, s.memento <= c PROVE s.memento <= t.memento
  <2>1. CASE s.memento <= lo
    BY <1>2, <1>7, <2>1
  <2>2. CASE \E k \in 1 .. j : s = ts[k]
    <3>1. PICK k \in 1 .. j : s = ts[k]
      BY <2>2
    <3>2. k = j \/ k < j
      BY <1>4
    <3>3. QED
      BY <1>2, <1>5, <1>7, <3>1, <3>2
  <2>3. QED
    BY <1>3, <1>8, <2>1, <2>2
<1>9. isLatest(t, S, c)
  BY <1>6, <1>7, <1>8 DEF isLatest
<1>10. PICK b : precedes(b, t)
  BY DEF precedes
<1>11. b \in Nat /\ floor <= b /\ b < t.memento /\ t.memento <= top
  BY <1>6, <1>10, WorldsOf
<1>12. atRest(after, Devices, S, b, floor, W)
  BY <1>2, <1>3, <1>6, <1>9, <1>10, UndoTransaction
<1>13. b = t.memento - 1
  BY <1>10 DEF precedes
<1>14. ASSUME NEW s \in S
       PROVE  s.memento <= b <=> (s.memento <= lo \/ \E k \in 1 .. i : s = ts[k])
  <2>1. ASSUME s.memento <= b PROVE s.memento <= lo \/ \E k \in 1 .. i : s = ts[k]
    <3>1. s.memento <= c /\ s.memento < t.memento
      BY <1>2, <1>7, <1>11, <1>13, <2>1
    <3>2. CASE \E k \in 1 .. j : s = ts[k]
      <4>1. PICK k \in 1 .. j : s = ts[k]
        BY <3>2
      <4>2. k # j
        BY <1>2, <3>1, <4>1
      <4>3. k \in 1 .. i
        BY <1>4, <4>1, <4>2
      <4>4. QED
        BY <4>1, <4>3
    <3>3. QED
      BY <1>3, <3>1, <3>2
  <2>2. ASSUME s.memento <= lo PROVE s.memento <= b
    BY <1>2, <1>7, <1>11, <1>13, <2>2
  <2>3. ASSUME NEW k \in 1 .. i, s = ts[k] PROVE s.memento <= b
    <3>1. k \in 1 .. j /\ k < j
      BY <1>4
    <3>2. s.memento < t.memento
      BY <1>5, <2>3, <3>1
    <3>3. QED
      BY <1>2, <1>7, <1>11, <1>13, <3>2
  <2>4. QED
    BY <2>1, <2>2, <2>3
<1>15. b <= top
  BY <1>1, <1>3, <1>7, <1>11
<1>16. QED
  BY <1>11, <1>12, <1>14, <1>15 DEF within

\* One transaction forth.
LEMMA StepForth ==
    ASSUME NEW managers, NEW S, NEW ts, NEW lo \in Nat, NEW hi \in Nat, NEW floor, NEW top, NEW W,
           story(S, floor, top, W), written(ts, S, lo, hi),
           NEW j \in 1 .. Len(ts), NEW i, i = j - 1, within(managers, S, ts, i, lo, floor, top, W),
           NEW t, t = ts[j], NEW after, after = carriedOut("redo", managers, t)
    PROVE  within(after, S, ts, j, lo, floor, top, W)
<1>1. /\ floor \in Nat /\ top \in Nat /\ S \subseteq Transactions
      /\ \A s, r \in S : s.memento = r.memento => s = r
  BY DEF story, singular
<1>2. \A s \in S : s.memento \in Nat /\ s.device \in Devices
  BY <1>1, TransactionFields
<1>3. PICK c \in Nat :
          /\ floor <= c /\ c <= top /\ atRest(managers, Devices, S, c, floor, W)
          /\ \A s \in S : s.memento <= c <=> (s.memento <= lo \/ \E k \in 1 .. i : s = ts[k])
  BY DEF within
<1>4. Len(ts) \in Nat /\ j \in Nat /\ j <= Len(ts) /\ \A k \in 1 .. j : k \in 1 .. Len(ts)
  BY DEF written
<1>5. \A k \in 1 .. Len(ts) :
          /\ ts[k] \in S /\ lo < ts[k].memento /\ (k < j => ts[k].memento < t.memento)
          /\ ts[k].memento <= hi /\ (j < k => t.memento < ts[k].memento)
  BY <1>4 DEF written
<1>6. t \in S /\ j \in 1 .. Len(ts) /\ j \in 1 .. j
  BY <1>4, <1>5
<1>7. t.memento \in Nat /\ lo < t.memento /\ t.memento <= hi
  BY <1>2, <1>5, <1>6
<1>8. t.memento > c
  <2>1. ~(t.memento <= c)
    <3>1. SUFFICES ASSUME NEW k \in 1 .. i, t = ts[k] PROVE FALSE
      BY <1>3, <1>6, <1>7
    <3>2. k \in 1 .. j /\ k < j
      BY <1>4
    <3>3. ts[k].memento < t.memento
      BY <1>4, <1>5, <3>2
    <3>4. QED
      BY <1>7, <3>1, <3>3
  <2>2. QED
    BY <1>7, <2>1
<1>9. ASSUME NEW s \in S, s.memento > c PROVE t.memento <= s.memento
  <2>1. ~(s.memento <= lo) /\ ~\E k \in 1 .. i : s = ts[k]
    BY <1>2, <1>3, <1>9
  <2>2. CASE s.memento <= hi
    <3>1. PICK k \in 1 .. Len(ts) : s = ts[k]
      BY <1>2, <2>1, <2>2 DEF written
    <3>2. k = j \/ j < k
      BY <1>4, <2>1, <3>1
    <3>3. QED
      BY <1>2, <1>5, <1>7, <3>1, <3>2
  <2>3. CASE ~(s.memento <= hi)
    BY <1>2, <1>7, <2>3
  <2>4. QED
    BY <2>2, <2>3
<1>10. isNext(t, S, c)
  BY <1>6, <1>8, <1>9 DEF isNext
<1>11. PICK n : n = t.memento
  OBVIOUS
<1>12. atRest(after, Devices, S, n, floor, W)
  BY <1>2, <1>3, <1>6, <1>10, <1>11, RedoTransaction
<1>13. n \in Nat /\ floor <= n /\ n <= top
  <2>1. t.memento <= top /\ floor < t.memento
    BY <1>6 DEF story, singular
  <2>2. QED
    BY <1>1, <1>7, <1>11, <2>1
<1>14. ASSUME NEW s \in S
       PROVE  s.memento <= n <=> (s.memento <= lo \/ \E k \in 1 .. j : s = ts[k])
  <2>1. ASSUME s.memento <= n PROVE s.memento <= lo \/ \E k \in 1 .. j : s = ts[k]
    <3>1. CASE s.memento > c
      <4>1. t.memento <= s.memento
        BY <1>9, <3>1
      <4>2. s.memento = t.memento
        BY <1>2, <1>7, <1>11, <2>1, <4>1
      <4>3. s = ts[j]
        BY <1>1, <1>6, <4>2
      <4>4. QED
        BY <1>6, <4>3
    <3>2. CASE s.memento <= c
      <4>1. \A k \in 1 .. i : k \in 1 .. j
        BY <1>4
      <4>2. QED
        BY <1>3, <3>2, <4>1
    <3>3. QED
      BY <1>2, <3>1, <3>2
  <2>2. ASSUME s.memento <= lo PROVE s.memento <= n
    BY <1>2, <1>7, <1>11, <2>2
  <2>3. ASSUME NEW k \in 1 .. j, s = ts[k] PROVE s.memento <= n
    <3>1. k \in 1 .. Len(ts) /\ (k = j \/ k < j)
      BY <1>4
    <3>2. QED
      BY <1>2, <1>5, <1>7, <1>11, <2>3, <3>1
  <2>4. QED
    BY <2>1, <2>2, <2>3
<1>15. QED
  BY <1>12, <1>13, <1>14 DEF within

\* A command is undone: its transactions are, from the last to the first.
LEMMA CommandUndone ==
    ASSUME NEW managers, NEW S, NEW ts, NEW lo \in Nat, NEW hi \in Nat, NEW floor, NEW top, NEW W,
           story(S, floor, top, W), written(ts, S, lo, hi), floor <= lo, lo <= hi, hi <= top,
           atRest(managers, Devices, S, hi, floor, W), NEW order, order = Reverse(ts),
           NEW after, after = carrying("undo", managers, order)[Len(order)]
    PROVE  atRest(after, Devices, S, lo, floor, W)
<1>1. PICK kind : kind = "undo"
  OBVIOUS
<1>2. PICK all : all = carrying(kind, managers, order)
  OBVIOUS
<1>3. PICK N : N = Len(ts)
  OBVIOUS
<1>4. ts \in Seq(Transactions)
  BY DEF written
<1>5. N \in Nat /\ Len(order) = N /\ \A n \in 1 .. N : order[n] = ts[N + 1 - n]
  BY <1>3, <1>4, Reversed
<1>6. all[0] = managers /\ \A n \in 1 .. N : all[n] = carriedOut(kind, all[n - 1], order[n])
  BY <1>2, <1>5, Carrying
<1> DEFINE T == {n \in 0 .. N : within(all[n], S, ts, N - n, lo, floor, top, W)}
<1>7. 0 \in T
  <2>1. within(managers, S, ts, N, lo, floor, top, W)
    BY <1>3, WithinEnds
  <2>2. N - 0 = N /\ 0 \in 0 .. N
    BY <1>5
  <2>3. QED
    BY <1>6, <2>1, <2>2
<1>8. ASSUME NEW n \in 1 .. N, n - 1 \in T PROVE n \in T
  <2>1. PICK j, i, earlier, after1, t : j = N + 1 - n /\ i = N - n /\ earlier = all[n - 1] /\ after1 = all[n]
                                 /\ t = ts[j]
    OBVIOUS
  <2>2. j \in 1 .. Len(ts) /\ i = j - 1 /\ N - (n - 1) = j
    BY <1>3, <1>5, <2>1
  <2>3. within(earlier, S, ts, j, lo, floor, top, W)
    BY <1>8, <2>1, <2>2
  <2>4. after1 = carriedOut("undo", earlier, t)
    BY <1>1, <1>5, <1>6, <2>1
  <2>5. within(after1, S, ts, i, lo, floor, top, W)
    BY <2>1, <2>2, <2>3, <2>4, StepBack
  <2>6. QED
    BY <2>1, <2>5
<1> HIDE DEF T
<1>9. \A n \in 0 .. N : n \in T
  BY <1>5, <1>7, <1>8, StepByStep
<1>10. N \in T
  BY <1>5, <1>9
<1>11. within(all[N], S, ts, 0, lo, floor, top, W)
  <2>1. N - N = 0
    BY <1>5
  <2>2. QED
    BY <1>10, <2>1 DEF T
<1>12. after = all[N]
  BY <1>1, <1>2, <1>5
<1>13. within(after, S, ts, 0, lo, floor, top, W)
  BY <1>11, <1>12
<1>14. QED
  BY <1>13, WithinEnds

\* A command is redone: its transactions are, from the first to the last.
LEMMA CommandRedone ==
    ASSUME NEW managers, NEW S, NEW ts, NEW lo \in Nat, NEW hi \in Nat, NEW floor, NEW top, NEW W,
           story(S, floor, top, W), written(ts, S, lo, hi), floor <= lo, lo <= hi, hi <= top,
           atRest(managers, Devices, S, lo, floor, W),
           NEW after, after = carrying("redo", managers, ts)[Len(ts)]
    PROVE  atRest(after, Devices, S, hi, floor, W)
<1>1. PICK kind : kind = "redo"
  OBVIOUS
<1>2. PICK all : all = carrying(kind, managers, ts)
  OBVIOUS
<1>3. PICK N : N = Len(ts)
  OBVIOUS
<1>4. ts \in Seq(Transactions)
  BY DEF written
<1>5. N \in Nat
  BY <1>3, <1>4
<1>6. all[0] = managers /\ \A n \in 1 .. N : all[n] = carriedOut(kind, all[n - 1], ts[n])
  BY <1>2, <1>3, <1>5, Carrying
<1> DEFINE T == {n \in 0 .. N : within(all[n], S, ts, n, lo, floor, top, W)}
<1>7. 0 \in T
  <2>1. within(managers, S, ts, 0, lo, floor, top, W)
    BY WithinEnds
  <2>2. 0 \in 0 .. N
    BY <1>5
  <2>3. QED
    BY <1>6, <2>1, <2>2
<1>8. ASSUME NEW n \in 1 .. N, n - 1 \in T PROVE n \in T
  <2>1. PICK i, earlier, after1, t : i = n - 1 /\ earlier = all[n - 1] /\ after1 = all[n] /\ t = ts[n]
    OBVIOUS
  <2>2. n \in 1 .. Len(ts)
    BY <1>3
  <2>3. within(earlier, S, ts, i, lo, floor, top, W)
    BY <1>8, <2>1
  <2>4. after1 = carriedOut("redo", earlier, t)
    BY <1>1, <1>6, <2>1
  <2>5. within(after1, S, ts, n, lo, floor, top, W)
    BY <2>1, <2>2, <2>3, <2>4, StepForth
  <2>6. QED
    BY <2>1, <2>5
<1> HIDE DEF T
<1>9. \A n \in 0 .. N : n \in T
  BY <1>5, <1>7, <1>8, StepByStep
<1>10. N \in T
  BY <1>5, <1>9
<1>11. within(all[N], S, ts, N, lo, floor, top, W)
  BY <1>10 DEF T
<1>12. after = all[N]
  BY <1>1, <1>2, <1>3
<1>13. within(after, S, ts, N, lo, floor, top, W)
  BY <1>11, <1>12
<1>14. QED
  BY <1>3, <1>13, WithinEnds

\* What a story tells of the transactions still there when the oldest is gone.
LEMMA StoryWithout ==
    ASSUME NEW S, NEW floor, NEW top, NEW W, story(S, floor, top, W), NEW t \in S,
           \A s \in S : t.memento <= s.memento, NEW old, old = t.memento, NEW U, U = S \ {t}
    PROVE  story(U, old, top, W) /\ floor <= old /\ old \in Nat
<1>1. /\ floor \in Nat /\ top \in Nat /\ S \subseteq Transactions /\ W \in [Nat -> Images]
      /\ \A s, r \in S : s.memento = r.memento => s = r
      /\ \A s \in S : floor < s.memento /\ s.memento <= top /\ tells(s, W)
      /\ \A n \in (floor + 1) .. top : (\A s \in S : s.memento # n) => W[n] = W[n - 1]
  BY DEF story, singular
<1>2. \A s \in S : s.memento \in Nat
  BY <1>1, TransactionFields
<1>3. old \in Nat /\ floor <= old
  BY <1>1, <1>2
<1>4. \A s \in U : old < s.memento
  <2>1. SUFFICES ASSUME NEW s \in U PROVE old < s.memento
    OBVIOUS
  <2>2. s \in S /\ s # t /\ old <= s.memento
    OBVIOUS
  <2>3. s.memento # old
    BY <1>1, <2>2
  <2>4. QED
    BY <1>2, <1>3, <2>2, <2>3
<1>5. singular(U, old)
  BY <1>1, <1>4 DEF singular
<1>6. ASSUME NEW n \in (old + 1) .. top, \A s \in U : s.memento # n PROVE W[n] = W[n - 1]
  <2>1. n \in (floor + 1) .. top /\ n # old
    BY <1>1, <1>3
  <2>2. \A s \in S : s.memento # n
    BY <1>6, <2>1
  <2>3. QED
    BY <1>1, <2>1, <2>2
<1>7. QED
  BY <1>1, <1>3, <1>5, <1>6 DEF story

\* A transaction that can no more be undone leaves the floor where it is, or
\* lets it rise.
LEMMA FloorIsRaised ==
    ASSUME NEW managers, NEW D, NEW S, NEW floor, NEW top, NEW W, story(S, floor, top, W),
           NEW c \in Nat, atRest(managers, D, S, c, floor, W),
           NEW higher \in Nat, floor <= higher, higher <= c, \A s \in S : higher < s.memento
    PROVE  story(S, higher, top, W) /\ atRest(managers, D, S, c, higher, W)
<1>1. /\ floor \in Nat /\ top \in Nat /\ S \subseteq Transactions /\ W \in [Nat -> Images]
      /\ \A n \in (floor + 1) .. top : (\A s \in S : s.memento # n) => W[n] = W[n - 1]
  BY DEF story, singular
<1>2. singular(S, higher)
  BY DEF story, singular
<1>3. \A n \in (higher + 1) .. top : n \in (floor + 1) .. top
  BY <1>1
<1>4. story(S, higher, top, W)
  BY <1>1, <1>2, <1>3 DEF story
<1>5. /\ managers \in [Devices -> Managers] /\ D \subseteq Devices
      /\ \A d \in D : kept(managers[d], ours(S, d), c, floor, W, W[c][d])
  BY DEF atRest
<1>6. ASSUME NEW d \in D PROVE kept(managers[d], ours(S, d), c, higher, W, W[c][d])
  <2>1. PICK m, T, w, R : m = managers[d] /\ T = ours(S, d) /\ w = W[c][d] /\ R = m.m_revisions
    OBVIOUS
  <2>2. R \in Seq(Revisions)
    BY <1>5, <2>1, ManagerFields
  <2>3. behind(R, T, c, floor, W) /\ ahead(m.m_cancelledRevisions, T, c, W) /\ calm(m, w)
    BY <1>5, <2>1 DEF kept
  <2>4. behind(R, T, c, higher, W)
    BY <1>1, <2>2, <2>3, FloorRaised
  <2>5. QED
    BY <2>1, <2>3, <2>4 DEF kept
<1>7. QED
  BY <1>4, <1>5, <1>6 DEF atRest

\* The transactions tell all, and no device is in the midst of one.
stands(managers, S, c, floor, top, W) ==
    story(S, floor, top, W) /\ atRest(managers, Devices, S, c, floor, W)

isOldest(t, S, c) == t \in S /\ t.memento <= c /\ \A s \in S : t.memento <= s.memento

\* The oldest transaction of the image is deleted.
LEMMA PurgeTransaction ==
    ASSUME NEW managers, NEW S, NEW floor, NEW top, NEW W, NEW c \in Nat,
           stands(managers, S, c, floor, top, W), NEW t, isOldest(t, S, c),
           NEW old, old = t.memento, NEW U, U = S \ {t},
           NEW after, after = carriedOut("delete", managers, t)
    PROVE  stands(after, U, c, old, top, W)
<1>0. /\ t \in S /\ t.memento <= c /\ \A s \in S : t.memento <= s.memento
      /\ story(S, floor, top, W) /\ atRest(managers, Devices, S, c, floor, W)
  BY DEF stands, isOldest
<1>1. story(U, old, top, W) /\ floor <= old /\ old \in Nat
  BY <1>0, StoryWithout
<1>2. managers \in [Devices -> Managers] /\ floor \in Nat
      /\ \A d \in Devices : kept(managers[d], ours(S, d), c, floor, W, W[c][d])
  BY <1>0 DEF atRest
<1>3. singular(S, floor) /\ S \subseteq Transactions
  BY <1>0 DEF story, singular
<1>4. t \in Transactions /\ t.device \in Devices
  BY <1>0, <1>3, TransactionFields
<1>5. /\ after \in [Devices -> Managers]
      /\ \A d \in Devices : d # t.device => after[d] = managers[d]
      /\ after[t.device] = purgeHistory(managers[t.device], t.memento)
  <2>1. after = [managers EXCEPT ![t.device] = purgeHistory(@, t.memento)]
    BY DEF carriedOut, purged
  <2>2. PICK m, mark, r : m = managers[t.device] /\ mark = t.memento /\ r = purgeHistory(m, mark)
    OBVIOUS
  <2>3. m \in Managers
    BY <1>2, <1>4, <2>2
  <2>4. r \in Managers
    BY <2>2, <2>3, Purged
  <2>5. after = [managers EXCEPT ![t.device] = r]
    BY <2>1, <2>2
  <2>6. QED
    BY <1>2, <1>4, <2>2, <2>4, <2>5
<1>6. ASSUME NEW d \in Devices, d = t.device PROVE kept(after[d], ours(U, d), c, old, W, W[c][d])
  <2>1. PICK m, T, w, r, V : m = managers[d] /\ T = ours(S, d) /\ w = W[c][d] /\ r = after[d]
                             /\ V = ours(U, d)
    OBVIOUS
  <2>2. m \in Managers /\ kept(m, T, c, floor, W, w) /\ singular(T, floor)
    BY <1>2, <1>3, <2>1, OursAlone
  <2>3. t \in T /\ \A s \in T : t.memento <= s.memento
    BY <1>0, <1>6, <2>1 DEF ours
  <2>4. V = T \ {t}
    BY <2>1 DEF ours
  <2>5. r = purgeHistory(m, old)
    BY <1>5, <1>6, <2>1
  <2>6. kept(r, V, c, old, W, w)
    BY <1>0, <1>2, <2>2, <2>3, <2>4, <2>5, PurgedDevice DEF rests
  <2>7. QED
    BY <2>1, <2>6
<1>7. ASSUME NEW d \in Devices, d # t.device PROVE kept(after[d], ours(U, d), c, old, W, W[c][d])
  <2>1. PICK m, T, w, R : m = managers[d] /\ T = ours(S, d) /\ w = W[c][d] /\ R = m.m_revisions
    OBVIOUS
  <2>2. R \in Seq(Revisions)
    BY <1>2, <2>1, ManagerFields
  <2>3. behind(R, T, c, floor, W) /\ ahead(m.m_cancelledRevisions, T, c, W) /\ calm(m, w)
    BY <1>2, <2>1 DEF kept
  <2>4. behind(R, T, c, old, W)
    BY <1>1, <1>2, <2>2, <2>3, FloorRaised
  <2>5. after[d] = m /\ ours(U, d) = T
    BY <1>5, <1>7, <2>1 DEF ours
  <2>6. QED
    BY <2>1, <2>3, <2>4, <2>5 DEF kept
<1>8. old <= c
  BY <1>0
<1>9. QED
  BY <1>1, <1>5, <1>6, <1>7, <1>8 DEF atRest, stands

\* What is left when j transactions of a command are deleted.
leaving(managers, S, ts, j, hi, c, top, W) ==
    \E f \in Nat :
        f <= hi /\ stands(managers, {s \in S : \A k \in 1 .. j : s # ts[k]}, c, f, top, W)

\* One more.
LEMMA StepAway ==
    ASSUME NEW managers, NEW S, NEW ts, NEW lo \in Nat, NEW hi \in Nat, NEW top, NEW W,
           story(S, lo, top, W), written(ts, S, lo, hi), NEW c \in Nat, hi <= c,
           NEW j \in 1 .. Len(ts), NEW i, i = j - 1, leaving(managers, S, ts, i, hi, c, top, W),
           NEW t, t = ts[j], NEW after, after = carriedOut("delete", managers, t)
    PROVE  leaving(after, S, ts, j, hi, c, top, W)
<1>1. PICK U : U = {s \in S : \A k \in 1 .. i : s # ts[k]}
  OBVIOUS
<1>2. PICK V : V = {s \in S : \A k \in 1 .. j : s # ts[k]}
  OBVIOUS
<1>3. PICK f \in Nat : f <= hi /\ stands(managers, U, c, f, top, W)
  BY <1>1 DEF leaving
<1>4. /\ S \subseteq Transactions /\ \A s \in S : lo < s.memento
  BY DEF story, singular
<1>5. \A s \in S : s.memento \in Nat
  BY <1>4, TransactionFields
<1>6. /\ Len(ts) \in Nat /\ j \in Nat /\ j <= Len(ts)
      /\ \A k \in 1 .. Len(ts) :
          /\ ts[k] \in S /\ ts[k].memento <= hi /\ (k < j => ts[k].memento < t.memento)
          /\ (j < k => t.memento < ts[k].memento)
      /\ \A s \in S : lo < s.memento /\ s.memento <= hi => \E k \in 1 .. Len(ts) : s = ts[k]
  BY DEF written
<1>7. t \in S /\ t.memento <= hi /\ t.memento \in Nat
  BY <1>5, <1>6
<1>8. t \in U
  <2>1. SUFFICES ASSUME NEW k \in 1 .. i, t = ts[k] PROVE FALSE
    BY <1>1, <1>7
  <2>2. k \in 1 .. Len(ts) /\ k < j
    BY <1>6
  <2>3. t.memento < t.memento
    BY <1>6, <2>1, <2>2
  <2>4. QED
    BY <1>7, <2>3
<1>9. ASSUME NEW s \in U PROVE t.memento <= s.memento
  <2>1. s \in S /\ (\A k \in 1 .. i : s # ts[k]) /\ s.memento \in Nat /\ lo < s.memento
    BY <1>1, <1>4, <1>5
  <2>2. CASE s.memento <= hi
    <3>1. PICK k \in 1 .. Len(ts) : s = ts[k]
      BY <1>6, <2>1, <2>2
    <3>2. k = j \/ j < k
      BY <1>6, <2>1, <3>1
    <3>3. QED
      BY <1>6, <1>7, <2>1, <3>1, <3>2
  <2>3. CASE ~(s.memento <= hi)
    BY <1>7, <2>1, <2>3
  <2>4. QED
    BY <2>2, <2>3
<1>10. V = U \ {t}
  <2>1. \A s \in S : (\A k \in 1 .. j : s # ts[k]) <=> (\A k \in 1 .. i : s # ts[k]) /\ s # t
    <3>1. \A k \in 1 .. j : k \in 1 .. i \/ k = j
      BY <1>6
    <3>2. j \in 1 .. j /\ \A k \in 1 .. i : k \in 1 .. j
      BY <1>6
    <3>3. QED
      BY <3>1, <3>2
  <2>2. QED
    BY <1>1, <1>2, <2>1
<1>11. PICK old : old = t.memento
  OBVIOUS
<1>12. isOldest(t, U, c)
  BY <1>7, <1>8, <1>9 DEF isOldest
<1>13. stands(after, V, c, old, top, W)
  BY <1>3, <1>10, <1>11, <1>12, PurgeTransaction
<1>14. old \in Nat /\ old <= hi
  BY <1>7, <1>11
<1>15. QED
  BY <1>2, <1>13, <1>14 DEF leaving

\* The oldest command is deleted.
LEMMA CommandDeleted ==
    ASSUME NEW managers, NEW S, NEW ts, NEW lo \in Nat, NEW hi \in Nat, NEW top, NEW W,
           written(ts, S, lo, hi), lo <= hi, NEW c \in Nat, hi <= c,
           stands(managers, S, c, lo, top, W),
           NEW after, after = carrying("delete", managers, ts)[Len(ts)],
           NEW U, U = {s \in S : hi < s.memento}
    PROVE  stands(after, U, c, hi, top, W)
<1>0. story(S, lo, top, W)
  BY DEF stands
<1>1. PICK kind : kind = "delete"
  OBVIOUS
<1>2. PICK all : all = carrying(kind, managers, ts)
  OBVIOUS
<1>3. PICK N : N = Len(ts)
  OBVIOUS
<1>4. N \in Nat
  BY <1>3 DEF written
<1>5. all[0] = managers /\ \A n \in 1 .. N : all[n] = carriedOut(kind, all[n - 1], ts[n])
  BY <1>2, <1>3, <1>4, Carrying
<1> DEFINE T == {n \in 0 .. N : leaving(all[n], S, ts, n, hi, c, top, W)}
<1>6. 0 \in T
  <2>1. {s \in S : \A k \in 1 .. 0 : s # ts[k]} = S
    OBVIOUS
  <2>2. leaving(managers, S, ts, 0, hi, c, top, W)
    BY <2>1, lo <= hi DEF leaving
  <2>3. 0 \in 0 .. N
    BY <1>4
  <2>4. QED
    BY <1>5, <2>2, <2>3
<1>7. ASSUME NEW n \in 1 .. N, n - 1 \in T PROVE n \in T
  <2>1. PICK i, earlier, after1, t : i = n - 1 /\ earlier = all[n - 1] /\ after1 = all[n] /\ t = ts[n]
    OBVIOUS
  <2>2. n \in 1 .. Len(ts)
    BY <1>3
  <2>3. leaving(earlier, S, ts, i, hi, c, top, W)
    BY <1>7, <2>1
  <2>4. after1 = carriedOut("delete", earlier, t)
    BY <1>1, <1>5, <2>1
  <2>5. leaving(after1, S, ts, n, hi, c, top, W)
    BY <1>0, <2>1, <2>2, <2>3, <2>4, StepAway
  <2>6. QED
    BY <2>1, <2>5
<1> HIDE DEF T
<1>8. \A n \in 0 .. N : n \in T
  BY <1>4, <1>6, <1>7, StepByStep
<1>9. N \in T
  BY <1>4, <1>8
<1>10. leaving(after, S, ts, N, hi, c, top, W)
  <2>1. after = all[N]
    BY <1>1, <1>2, <1>3
  <2>2. QED
    BY <1>9, <2>1 DEF T
<1>11. {s \in S : \A k \in 1 .. N : s # ts[k]} = U
  <2>1. S \subseteq Transactions /\ \A s \in S : lo < s.memento
    BY <1>0 DEF story, singular
  <2>2. \A s \in S : s.memento \in Nat
    BY <2>1, TransactionFields
  <2>3. \A s \in S : (\A k \in 1 .. N : s # ts[k]) <=> hi < s.memento
    <3>1. SUFFICES ASSUME NEW s \in S PROVE (\A k \in 1 .. N : s # ts[k]) <=> hi < s.memento
      OBVIOUS
    <3>2. s.memento <= hi => \E k \in 1 .. N : s = ts[k]
      BY <1>3, <2>1 DEF written
    <3>3. \A k \in 1 .. N : s = ts[k] => s.memento <= hi
      BY <1>3 DEF written
    <3>4. QED
      BY <2>2, <3>2, <3>3
  <2>4. QED
    BY <2>3
<1>12. PICK f \in Nat : f <= hi /\ stands(after, U, c, f, top, W)
  BY <1>10, <1>11 DEF leaving
<1>13. \A s \in U : hi < s.memento
  OBVIOUS
<1>14. story(U, f, top, W) /\ atRest(after, Devices, U, c, f, W)
  BY <1>12 DEF stands
<1>15. QED
  BY <1>12, <1>13, <1>14, FloorIsRaised DEF stands

-----------------------------------------------------------------------------
(***************************************************************************)
(* The commands of the stack. Command i was complete with memento mark[i]. *)
(***************************************************************************)
inOrder(ts, lo, hi) ==
    /\ \A k \in 1 .. Len(ts) : lo < ts[k].memento /\ ts[k].memento <= hi
    /\ \A k, l \in 1 .. Len(ts) : k < l => ts[k].memento < ts[l].memento

marked(list, mark) ==
    /\ list \in Seq(Commands) /\ mark \in [Nat -> Nat]
    /\ \A i \in 1 .. Len(list) :
          /\ mark[i - 1] <= mark[i] /\ inOrder(list[i].parts, mark[i - 1], mark[i])
          /\ list[i].saved => Len(list[i].parts) = 1

\* The parts of marked, by themselves.
LEMMA MarkedFields ==
    ASSUME NEW list, NEW mark, marked(list, mark)
    PROVE  /\ list \in Seq(Commands) /\ mark \in [Nat -> Nat] /\ Len(list) \in Nat
           /\ \A i \in 1 .. Len(list) : mark[i - 1] <= mark[i]
           /\ \A i \in 1 .. Len(list) : inOrder(list[i].parts, mark[i - 1], mark[i])
           /\ \A i \in 1 .. Len(list) : list[i].saved => Len(list[i].parts) = 1
<1>1. list \in Seq(Commands) /\ mark \in [Nat -> Nat]
  BY Zenon DEF marked
<1>2. /\ \A i \in 1 .. Len(list) : mark[i - 1] <= mark[i]
      /\ \A i \in 1 .. Len(list) : inOrder(list[i].parts, mark[i - 1], mark[i])
      /\ \A i \in 1 .. Len(list) : list[i].saved => Len(list[i].parts) = 1
  BY Zenon DEF marked
<1>3. Len(list) \in Nat
  BY <1>1
<1>4. QED
  BY <1>1, <1>2, <1>3

\* A later command was complete later.
LEMMA MarksRise ==
    ASSUME NEW list, NEW mark, marked(list, mark), NEW i \in 0 .. Len(list), NEW j \in i .. Len(list)
    PROVE  mark[i] <= mark[j]
<1>1. /\ Len(list) \in Nat /\ mark \in [Nat -> Nat]
      /\ \A k \in 1 .. Len(list) : mark[k - 1] <= mark[k]
  BY MarkedFields
<1>2. PICK N : N = j - i
  OBVIOUS
<1>3. N \in Nat /\ i + N = j /\ i \in Nat /\ j <= Len(list)
  BY <1>1, <1>2
<1> DEFINE T == {n \in 0 .. N : mark[i] <= mark[i + n]}
<1>4. 0 \in T
  BY <1>1, <1>3
<1>5. ASSUME NEW n \in 1 .. N, n - 1 \in T PROVE n \in T
  <2>1. PICK k, l : k = i + n /\ l = i + (n - 1)
    OBVIOUS
  <2>2. k \in 1 .. Len(list) /\ l = k - 1 /\ k \in Nat /\ l \in Nat
    BY <1>1, <1>3, <2>1
  <2>3. mark[i] <= mark[l] /\ mark[l] <= mark[k]
    BY <1>1, <1>5, <2>1, <2>2
  <2>4. mark[i] \in Nat /\ mark[l] \in Nat /\ mark[k] \in Nat
    BY <1>1, <1>3, <2>2
  <2>5. mark[i] <= mark[k]
    BY <2>3, <2>4
  <2>6. QED
    BY <2>1, <2>5
<1> HIDE DEF T
<1>6. \A n \in 0 .. N : n \in T
  BY <1>3, <1>4, <1>5, StepByStep
<1>7. N \in T
  BY <1>3, <1>6
<1>8. QED
  BY <1>3, <1>7 DEF T

\* The transactions of a list of commands.
spells(list, S) ==
    /\ \A t : t \in S <=>
         \E i \in 1 .. Len(list) : \E k \in 1 .. Len(list[i].parts) : t = list[i].parts[k]
    /\ S \subseteq Transactions
    /\ \A i \in 1 .. Len(list) : list[i] \in Commands /\ list[i].parts \in Seq(Transactions)

\* transactionsIn(list) holds the parts of the commands and nothing else.
LEMMA TransactionsIn ==
    ASSUME NEW list \in Seq(Commands), NEW S, S = transactionsIn(list)
    PROVE  spells(list, S)
<1>1. DOMAIN list = 1 .. Len(list)
  OBVIOUS
<1>2. \A i \in 1 .. Len(list) :
          /\ list[i] \in Commands /\ list[i].parts \in Seq(Transactions)
          /\ DOMAIN list[i].parts = 1 .. Len(list[i].parts)
          /\ \A k \in 1 .. Len(list[i].parts) : list[i].parts[k] \in Transactions
  <2>1. SUFFICES ASSUME NEW i \in 1 .. Len(list)
                 PROVE  /\ list[i] \in Commands /\ list[i].parts \in Seq(Transactions)
                        /\ DOMAIN list[i].parts = 1 .. Len(list[i].parts)
                        /\ \A k \in 1 .. Len(list[i].parts) : list[i].parts[k] \in Transactions
    OBVIOUS
  <2>2. PICK command : command = list[i]
    OBVIOUS
  <2>3. command \in Commands
    BY <2>2
  <2>4. QED
    BY <2>2, <2>3, CommandFields
<1>3. \A t : t \in S <=>
          \E i \in 1 .. Len(list) : \E k \in 1 .. Len(list[i].parts) : t = list[i].parts[k]
  BY <1>1, <1>2 DEF transactionsIn, ToSet
<1>4. S \subseteq Transactions
  BY <1>2, <1>3
<1>5. QED
  BY <1>2, <1>3, <1>4 DEF spells

\* A command has all the transactions between its marks.
LEMMA CommandWritten ==
    ASSUME NEW list, NEW mark, marked(list, mark), NEW i \in 1 .. Len(list), NEW S, S = transactionsIn(list),
           NEW ts, ts = list[i].parts, NEW lo, lo = mark[i - 1], NEW hi, hi = mark[i]
    PROVE  written(ts, S, lo, hi) /\ lo \in Nat /\ hi \in Nat /\ lo <= hi
<1>1. /\ list \in Seq(Commands) /\ mark \in [Nat -> Nat] /\ Len(list) \in Nat
      /\ \A k \in 1 .. Len(list) : mark[k - 1] <= mark[k]
      /\ \A k \in 1 .. Len(list) : inOrder(list[k].parts, mark[k - 1], mark[k])
  BY MarkedFields
<1>2. /\ \A t : t \in S <=>
            \E k \in 1 .. Len(list) : \E l \in 1 .. Len(list[k].parts) : t = list[k].parts[l]
      /\ S \subseteq Transactions
      /\ \A k \in 1 .. Len(list) : list[k] \in Commands /\ list[k].parts \in Seq(Transactions)
  <2>1. spells(list, S)
    BY <1>1, TransactionsIn
  <2>2. QED
    BY <2>1 DEF spells
<1>3. i - 1 \in Nat /\ i \in Nat /\ i <= Len(list)
  BY <1>1
<1>4. lo \in Nat /\ hi \in Nat /\ lo <= hi /\ inOrder(ts, lo, hi) /\ ts \in Seq(Transactions)
  BY <1>1, <1>2, <1>3
<1>5. \A k \in 1 .. Len(ts) : ts[k] \in S
  BY <1>2
<1>6. ASSUME NEW s \in S, lo < s.memento, s.memento <= hi PROVE \E k \in 1 .. Len(ts) : s = ts[k]
  <2>1. PICK j \in 1 .. Len(list) : \E l \in 1 .. Len(list[j].parts) : s = list[j].parts[l]
    BY <1>2
  <2>2. PICK a, b : a = mark[j - 1] /\ b = mark[j]
    OBVIOUS
  <2>3. s.memento \in Nat /\ a < s.memento /\ s.memento <= b /\ a \in Nat /\ b \in Nat
    <3>1. s.memento \in Nat
      BY <1>2, TransactionFields
    <3>2. j - 1 \in Nat /\ j \in Nat
      BY <1>1
    <3>3. QED
      BY <1>1, <2>1, <2>2, <3>1, <3>2 DEF inOrder
  <2>4. ~(j < i)
    <3>1. SUFFICES ASSUME j < i PROVE FALSE
      OBVIOUS
    <3>2. PICK p : p = i - 1
      OBVIOUS
    <3>3. j \in 0 .. Len(list) /\ p \in j .. Len(list)
      BY <1>1, <1>3, <3>1, <3>2
    <3>4. mark[j] <= mark[p]
      BY <3>3, MarksRise
    <3>5. b <= lo
      BY <2>2, <3>2, <3>4
    <3>6. QED
      BY <1>4, <1>6, <2>3, <3>5
  <2>5. ~(i < j)
    <3>1. SUFFICES ASSUME i < j PROVE FALSE
      OBVIOUS
    <3>2. PICK p : p = j - 1
      OBVIOUS
    <3>3. i \in 0 .. Len(list) /\ p \in i .. Len(list)
      BY <1>1, <1>3, <3>1, <3>2
    <3>4. mark[i] <= mark[p]
      BY <3>3, MarksRise
    <3>5. hi <= a
      BY <2>2, <3>2, <3>4
    <3>6. QED
      BY <1>4, <1>6, <2>3, <3>5
  <2>6. j = i
    BY <1>3, <2>4, <2>5
  <2>7. QED
    BY <2>1, <2>6
<1>7. written(ts, S, lo, hi)
  BY <1>4, <1>5, <1>6 DEF written, inOrder
<1>8. QED
  BY <1>4, <1>7

\* The devices are where the first i commands of the list took them.
at(managers, list, mark, i, W) ==
    /\ marked(list, mark) /\ i \in 0 .. Len(list)
    /\ stands(managers, transactionsIn(list), mark[i], mark[0], mark[Len(list)], W)

\* One command back, and one forth.
LEMMA BackOne ==
    ASSUME NEW managers, NEW list, NEW mark, NEW i \in 1 .. Len(list), NEW W,
           at(managers, list, mark, i, W), NEW command, command = list[i],
           NEW order, order = Reverse(command.parts),
           NEW after, after = carrying("undo", managers, order)[Len(order)], NEW h, h = i - 1
    PROVE  at(after, list, mark, h, W)
<1>1. PICK S, ts, lo, hi, floor, top :
          /\ S = transactionsIn(list) /\ ts = command.parts /\ lo = mark[h] /\ hi = mark[i]
          /\ floor = mark[0] /\ top = mark[Len(list)]
  OBVIOUS
<1>2. marked(list, mark) /\ story(S, floor, top, W) /\ atRest(managers, Devices, S, hi, floor, W)
  BY <1>1 DEF at, stands
<1>3. written(ts, S, lo, hi) /\ lo \in Nat /\ hi \in Nat /\ lo <= hi
  BY <1>1, <1>2, CommandWritten
<1>4. h \in 0 .. Len(list) /\ Len(list) \in i .. Len(list) /\ h \in 0 .. Len(list)
      /\ 0 \in 0 .. Len(list) /\ i \in 0 .. Len(list)
  <2>1. Len(list) \in Nat
    BY <1>2, MarkedFields
  <2>2. QED
    BY <2>1
<1>5. floor <= lo /\ hi <= top
  BY <1>1, <1>2, <1>4, MarksRise
<1>6. atRest(after, Devices, S, lo, floor, W)
  BY <1>1, <1>2, <1>3, <1>5, CommandUndone
<1>7. QED
  BY <1>1, <1>2, <1>4, <1>6 DEF at, stands

\* Redoing a command leads from the mark before it to its own.
LEMMA ForthOne ==
    ASSUME NEW managers, NEW list, NEW mark, NEW i \in 1 .. Len(list), NEW W, NEW h, h = i - 1,
           at(managers, list, mark, h, W), NEW command, command = list[i],
           NEW after, after = carrying("redo", managers, command.parts)[Len(command.parts)]
    PROVE  at(after, list, mark, i, W)
<1>1. PICK S, ts, lo, hi, floor, top :
          /\ S = transactionsIn(list) /\ ts = command.parts /\ lo = mark[h] /\ hi = mark[i]
          /\ floor = mark[0] /\ top = mark[Len(list)]
  OBVIOUS
<1>2. marked(list, mark) /\ story(S, floor, top, W) /\ atRest(managers, Devices, S, lo, floor, W)
  BY <1>1 DEF at, stands
<1>3. written(ts, S, lo, hi) /\ lo \in Nat /\ hi \in Nat /\ lo <= hi
  BY <1>1, <1>2, CommandWritten
<1>4. h \in 0 .. Len(list) /\ Len(list) \in i .. Len(list) /\ h \in 0 .. Len(list)
      /\ 0 \in 0 .. Len(list) /\ i \in 0 .. Len(list)
  <2>1. Len(list) \in Nat
    BY <1>2, MarkedFields
  <2>2. QED
    BY <2>1
<1>5. floor <= lo /\ hi <= top
  BY <1>1, <1>2, <1>4, MarksRise
<1>6. atRest(after, Devices, S, hi, floor, W)
  BY <1>1, <1>2, <1>3, <1>5, CommandRedone
<1>7. QED
  BY <1>1, <1>2, <1>4, <1>6 DEF at, stands

\* A command that is carried out at once.
doneAtOnce(kind, done, order, after) ==
    after.strokes = done.strokes /\ after.devices = carrying(kind, done.devices, order)[Len(order)]

\* A command that is not saved leaves the queue alone.
LEMMA AtOnce ==
    ASSUME NEW kind, NEW done \in Affairs, NEW command, ~(command.saved /\ kind # "delete"),
           NEW order, order = orderOf(kind, command.parts),
           NEW after, after = executed(kind, done, command)
    PROVE  doneAtOnce(kind, done, order, after)
<1>1. PICK value : value = carrying(kind, done.devices, order)[Len(order)]
  OBVIOUS
<1>2. after = [done EXCEPT !.devices = value]
  BY <1>1 DEF executed, orderOf
<1>3. QED
  BY <1>1, <1>2 DEF doneAtOnce, Affairs

\* A saved command with its one transaction.
putOff(kind, done, t, after) ==
    after.devices = done.devices /\ after.strokes = Append(done.strokes, Job(kind, t))

\* A saved command leaves the devices alone and appends one job.
LEMMA PutOff ==
    ASSUME NEW kind \in {"undo", "redo"}, NEW done \in Affairs, NEW command, command.saved,
           NEW t, command.parts = <<t>>, NEW after, after = executed(kind, done, command)
    PROVE  putOff(kind, done, t, after)
<1>1. PICK jobs : jobs = [i \in DOMAIN command.parts |-> Job(kind, command.parts[i])]
  OBVIOUS
<1>2. after = [done EXCEPT !.strokes = @ \o jobs]
  BY <1>1 DEF executed
<1>3. PICK job : job = Job(kind, t)
  OBVIOUS
<1>4. jobs = <<job>>
  BY <1>1, <1>3
<1>5. PICK q : q = done.strokes
  OBVIOUS
<1>6. q \in Seq(Strokes)
  BY <1>5 DEF Affairs
<1>7. q \o jobs = Append(q, job)
  BY <1>4, <1>6
<1>8. after.strokes = Append(q, job) /\ after.devices = done.devices
  BY <1>2, <1>5, <1>7 DEF Affairs
<1>9. QED
  BY <1>3, <1>5, <1>8 DEF putOff

\* The commands on the way, from the last or from the first.
isWayBack(list, i, j, way) ==
    /\ way \in Seq(Commands) /\ Len(way) = j - i /\ i \in Nat /\ j \in Nat
    /\ \A n \in 1 .. (j - i) : way[n] = list[j + 1 - n]
isWayForth(list, i, j, way) ==
    /\ way \in Seq(Commands) /\ Len(way) = j - i /\ i \in Nat /\ j \in Nat
    /\ \A n \in 1 .. (j - i) : way[n] = list[i + n]

\* Commands that are carried out at once, and where they lead.
reaches(done, after, list, mark, i, W) ==
    after.strokes = done.strokes /\ at(after.devices, list, mark, i, W)

\* Undoing the commands between two places leads from the one to the other.
LEMMA CommandsUndone ==
    ASSUME NEW done \in Affairs, NEW list, NEW mark, NEW W, NEW j \in 0 .. Len(list), NEW i \in 0 .. j,
           at(done.devices, list, mark, j, W), NEW way, isWayBack(list, i, j, way),
           \A n \in 1 .. Len(way) : ~way[n].saved,
           NEW after, after = executing("undo", done, way)[Len(way)]
    PROVE  reaches(done, after, list, mark, i, W)
<1>1. PICK kind : kind = "undo"
  OBVIOUS
<1>2. PICK all : all = executing(kind, done, way)
  OBVIOUS
<1>3. PICK N : N = j - i
  OBVIOUS
<1>4. marked(list, mark)
  BY DEF at
<1>5. Len(list) \in Nat
  BY <1>4, MarkedFields
<1>6. /\ N \in Nat /\ way \in Seq(Commands) /\ Len(way) = N /\ i = j - N /\ j \in Nat
      /\ \A n \in 1 .. N : way[n] = list[j + 1 - n]
  BY <1>3, <1>5 DEF isWayBack
<1>7. all[0] = done /\ \A n \in 1 .. N : all[n] = executed(kind, all[n - 1], way[n])
  <2>1. Len(way) \in Nat /\ Len(way) = N
    BY <1>6
  <2>2. QED
    BY <1>2, <2>1, Executing
<1>8. \A n \in 0 .. N : all[n] \in Affairs
  BY <1>1, <1>2, <1>6, ExecutingTyped
<1> DEFINE T == {n \in 0 .. N : reaches(done, all[n], list, mark, j - n, W)}
<1>9. 0 \in T
  BY <1>6, <1>7 DEF reaches
<1>10. ASSUME NEW n \in 1 .. N, n - 1 \in T PROVE n \in T
  <2>1. PICK k, h, l, earlier, next, command :
            /\ k = j + 1 - n /\ h = j - n /\ l = n - 1 /\ earlier = all[l] /\ next = all[n]
            /\ command = way[n]
    OBVIOUS
  <2>2. k \in 1 .. Len(list) /\ h = k - 1 /\ l \in 0 .. N /\ j - l = k /\ n \in 0 .. N
    BY <1>3, <1>5, <1>6, <2>1
  <2>3. reaches(done, earlier, list, mark, k, W)
    BY <1>10, <2>1, <2>2
  <2>4. earlier \in Affairs /\ command \in Commands /\ ~command.saved /\ command = list[k]
    BY <1>6, <1>8, <2>1, <2>2
  <2>5. next = executed(kind, earlier, command)
    BY <1>7, <2>1
  <2>6. PICK order, devs, parts : order = orderOf(kind, command.parts) /\ devs = next.devices
                                  /\ parts = command.parts
    OBVIOUS
  <2>7. next.strokes = earlier.strokes /\ devs = carrying(kind, earlier.devices, order)[Len(order)]
    <3>1. doneAtOnce(kind, earlier, order, next)
      BY <2>4, <2>5, <2>6, AtOnce
    <3>2. QED
      BY <2>6, <3>1 DEF doneAtOnce
  <2>8. order = Reverse(command.parts)
    BY <1>1, <2>6 DEF orderOf
  <2>9. PICK managers : managers = earlier.devices
    OBVIOUS
  <2>10. at(managers, list, mark, k, W) /\ earlier.strokes = done.strokes
    BY <2>3, <2>9 DEF reaches
  <2>11. devs = carrying("undo", managers, order)[Len(order)]
    BY <1>1, <2>7, <2>9
  <2>12. at(devs, list, mark, h, W)
    BY <2>2, <2>4, <2>8, <2>10, <2>11, BackOne
  <2>13. reaches(done, next, list, mark, h, W)
    BY <2>6, <2>7, <2>10, <2>12 DEF reaches
  <2>14. QED
    BY <2>1, <2>2, <2>13
<1> HIDE DEF T
<1>11. \A n \in 0 .. N : n \in T
  BY <1>6, <1>9, <1>10, StepByStep
<1>12. N \in T
  BY <1>6, <1>11
<1>13. after = all[N]
  BY <1>1, <1>2, <1>6
<1>14. QED
  BY <1>6, <1>12, <1>13 DEF T

\* And so does redoing them.
LEMMA CommandsRedone ==
    ASSUME NEW done \in Affairs, NEW list, NEW mark, NEW W, NEW j \in 0 .. Len(list), NEW i \in 0 .. j,
           at(done.devices, list, mark, i, W), NEW way, isWayForth(list, i, j, way),
           \A n \in 1 .. Len(way) : ~way[n].saved,
           NEW after, after = executing("redo", done, way)[Len(way)]
    PROVE  reaches(done, after, list, mark, j, W)
<1>1. PICK kind : kind = "redo"
  OBVIOUS
<1>2. PICK all : all = executing(kind, done, way)
  OBVIOUS
<1>3. PICK N : N = j - i
  OBVIOUS
<1>4. marked(list, mark)
  BY DEF at
<1>5. Len(list) \in Nat
  BY <1>4, MarkedFields
<1>6. /\ N \in Nat /\ way \in Seq(Commands) /\ Len(way) = N /\ j = i + N /\ i \in Nat
      /\ \A n \in 1 .. N : way[n] = list[i + n]
  BY <1>3, <1>5 DEF isWayForth
<1>7. all[0] = done /\ \A n \in 1 .. N : all[n] = executed(kind, all[n - 1], way[n])
  <2>1. Len(way) \in Nat /\ Len(way) = N
    BY <1>6
  <2>2. QED
    BY <1>2, <2>1, Executing
<1>8. \A n \in 0 .. N : all[n] \in Affairs
  BY <1>1, <1>2, <1>6, ExecutingTyped
<1> DEFINE T == {n \in 0 .. N : reaches(done, all[n], list, mark, i + n, W)}
<1>9. 0 \in T
  BY <1>6, <1>7 DEF reaches
<1>10. ASSUME NEW n \in 1 .. N, n - 1 \in T PROVE n \in T
  <2>1. PICK k, h, l, earlier, next, command :
            /\ k = i + n /\ h = k - 1 /\ l = n - 1 /\ earlier = all[l] /\ next = all[n]
            /\ command = way[n]
    OBVIOUS
  <2>2. k \in 1 .. Len(list) /\ i + l = h /\ l \in 0 .. N /\ n \in 0 .. N
    BY <1>3, <1>5, <1>6, <2>1
  <2>3. reaches(done, earlier, list, mark, h, W)
    BY <1>10, <2>1, <2>2
  <2>4. earlier \in Affairs /\ command \in Commands /\ ~command.saved /\ command = list[k]
    BY <1>6, <1>8, <2>1, <2>2
  <2>5. next = executed(kind, earlier, command)
    BY <1>7, <2>1
  <2>6. PICK order, devs, parts : order = orderOf(kind, command.parts) /\ devs = next.devices
                                  /\ parts = command.parts
    OBVIOUS
  <2>7. next.strokes = earlier.strokes /\ devs = carrying(kind, earlier.devices, order)[Len(order)]
    <3>1. doneAtOnce(kind, earlier, order, next)
      BY <2>4, <2>5, <2>6, AtOnce
    <3>2. QED
      BY <2>6, <3>1 DEF doneAtOnce
  <2>8. order = command.parts
    BY <1>1, <2>6 DEF orderOf
  <2>9. PICK managers : managers = earlier.devices
    OBVIOUS
  <2>10. at(managers, list, mark, h, W) /\ earlier.strokes = done.strokes
    BY <2>3, <2>9 DEF reaches
  <2>11. devs = carrying("redo", managers, command.parts)[Len(command.parts)]
    BY <1>1, <2>6, <2>7, <2>8, <2>9
  <2>12. at(devs, list, mark, k, W)
    BY <2>1, <2>2, <2>4, <2>10, <2>11, ForthOne
  <2>13. reaches(done, next, list, mark, k, W)
    BY <2>6, <2>7, <2>10, <2>12 DEF reaches
  <2>14. QED
    BY <2>1, <2>2, <2>13
<1> HIDE DEF T
<1>11. \A n \in 0 .. N : n \in T
  BY <1>6, <1>9, <1>10, StepByStep
<1>12. N \in T
  BY <1>6, <1>11
<1>13. after = all[N]
  BY <1>1, <1>2, <1>6
<1>14. QED
  BY <1>6, <1>12, <1>13 DEF T

\* Commands that are put off: a job for each, in the order of the way.
postpones(kind, done, after, way, n) ==
    /\ after.devices = done.devices /\ after.strokes \in Seq(Jobs) /\ Len(after.strokes) = n
    /\ \A k \in 1 .. n : after.strokes[k].kind = kind /\ way[k].parts = <<after.strokes[k].transaction>>

\* Saved commands leave one job each, in the order in which they were met.
LEMMA CommandsPostponed ==
    ASSUME NEW kind \in {"undo", "redo"}, NEW done \in Affairs, done.strokes = <<>>,
           NEW way \in Seq(Commands), \A n \in 1 .. Len(way) : way[n].saved /\ Len(way[n].parts) = 1,
           NEW after, after = executing(kind, done, way)[Len(way)]
    PROVE  postpones(kind, done, after, way, Len(way))
<1>2. PICK all : all = executing(kind, done, way)
  OBVIOUS
<1>3. PICK N : N = Len(way)
  OBVIOUS
<1>6. N \in Nat /\ \A n \in 1 .. N : way[n] \in Commands
  BY <1>3
<1>7. all[0] = done /\ \A n \in 1 .. N : all[n] = executed(kind, all[n - 1], way[n])
  BY <1>2, <1>3, <1>6, Executing
<1>8. \A n \in 0 .. N : all[n] \in Affairs
  BY <1>2, <1>3, ExecutingTyped
<1> DEFINE T == {n \in 0 .. N : postpones(kind, done, all[n], way, n)}
<1>9. 0 \in T
  <2>1. all[0].devices = done.devices /\ all[0].strokes = <<>>
    BY <1>7
  <2>2. all[0].strokes \in Seq(Jobs) /\ Len(all[0].strokes) = 0
    BY <2>1
  <2>3. postpones(kind, done, all[0], way, 0)
    BY <2>1, <2>2 DEF postpones
  <2>4. QED
    BY <1>6, <2>3
<1>10. ASSUME NEW n \in 1 .. N, n - 1 \in T PROVE n \in T
  <2>1. PICK l, earlier, next, command, q, r, parts :
            /\ l = n - 1 /\ earlier = all[l] /\ next = all[n] /\ command = way[n]
            /\ q = earlier.strokes /\ r = next.strokes /\ parts = command.parts
    OBVIOUS
  <2>2. l \in 0 .. N /\ n \in Nat /\ l \in Nat /\ n = l + 1 /\ n \in 0 .. N
    BY <1>6, <2>1
  <2>3. postpones(kind, done, earlier, way, l)
    BY <1>10, <2>1
  <2>4. earlier \in Affairs /\ command \in Commands /\ command.saved /\ Len(parts) = 1
    BY <1>3, <1>6, <1>8, <2>1, <2>2
  <2>5. next = executed(kind, earlier, command)
    BY <1>7, <2>1
  <2>6. PICK t, job : t = parts[1] /\ job = Job(kind, t)
    OBVIOUS
  <2>7. parts \in Seq(Transactions)
    BY <2>1, <2>4, CommandFields
  <2>8. command.parts = <<t>> /\ t \in Transactions
    BY <2>1, <2>4, <2>6, <2>7
  <2>9. putOff(kind, earlier, t, next)
    BY <2>4, <2>5, <2>8, PutOff
  <2>10. next.devices = earlier.devices /\ r = Append(q, job)
    BY <2>1, <2>6, <2>9 DEF putOff
  <2>11. job \in Jobs /\ job.kind = kind /\ job.transaction = t
    BY <2>6, <2>8 DEF Job, Jobs
  <2>12. q \in Seq(Jobs) /\ Len(q) = l /\ next.devices = done.devices
         /\ \A k \in 1 .. l : q[k].kind = kind /\ way[k].parts = <<q[k].transaction>>
    BY <2>1, <2>3, <2>10 DEF postpones
  <2>13. r \in Seq(Jobs) /\ Len(r) = n /\ r[n] = job /\ \A k \in 1 .. l : r[k] = q[k]
    BY <2>2, <2>10, <2>11, <2>12
  <2>14. \A k \in 1 .. n : r[k].kind = kind /\ way[k].parts = <<r[k].transaction>>
    <3>1. \A k \in 1 .. n : k \in 1 .. l \/ k = n
      BY <2>2
    <3>2. way[n].parts = <<r[n].transaction>> /\ r[n].kind = kind
      BY <2>1, <2>8, <2>11, <2>13
    <3>3. QED
      BY <2>12, <2>13, <3>1, <3>2
  <2>15. postpones(kind, done, next, way, n)
    BY <2>1, <2>12, <2>13, <2>14 DEF postpones
  <2>16. QED
    BY <2>1, <2>2, <2>15
<1> HIDE DEF T
<1>11. \A n \in 0 .. N : n \in T
  BY <1>6, <1>9, <1>10, StepByStep
<1>12. N \in T
  BY <1>6, <1>11
<1>13. after = all[N]
  BY <1>2, <1>3
<1>14. QED
  BY <1>3, <1>12, <1>13 DEF T

\* What was committed later.
later(S, f) == {s \in S : f < s.memento}

\* The oldest commands of the list are deleted.
LEMMA CommandsDeleted ==
    ASSUME NEW managers, NEW list, NEW mark, marked(list, mark), NEW e \in 0 .. Len(list),
           NEW oldest, isHead(Commands, list, e, oldest), NEW S, S = transactionsIn(list),
           NEW floor, floor = mark[0], NEW f, f = mark[e], NEW c \in Nat, f <= c, NEW top, NEW W,
           stands(managers, S, c, floor, top, W),
           NEW U, U = later(S, f), NEW after, after = deleted(managers, oldest)
    PROVE  stands(after, U, c, f, top, W)
<1>1. PICK kind, start : kind = "delete" /\ start = [devices |-> managers, strokes |-> <<>>]
  OBVIOUS
<1>2. PICK all : all = executing(kind, start, oldest)
  OBVIOUS
<1>3. /\ mark \in [Nat -> Nat] /\ Len(list) \in Nat /\ e \in Nat
      /\ oldest \in Seq(Commands) /\ Len(oldest) = e /\ \A n \in 1 .. e : oldest[n] = list[n]
  BY MarkedFields DEF isHead
<1>13. e <= Len(list) /\ \A n \in 1 .. e : oldest[n] \in Commands
  <2>1. e <= Len(list)
    BY <1>3
  <2>2. \A n \in 1 .. Len(oldest) : oldest[n] \in Commands
    BY <1>3
  <2>3. QED
    BY <1>3, <2>1, <2>2
<1>4. start \in Affairs /\ start.devices = managers
  <2>1. managers \in [Devices -> Managers]
    BY DEF stands, atRest
  <2>2. <<>> \in Seq(Strokes)
    OBVIOUS
  <2>3. QED
    BY <1>1, <2>1, <2>2 DEF Affairs
<1>5. all[0] = start /\ \A n \in 1 .. e : all[n] = executed(kind, all[n - 1], oldest[n])
  <2>1. Len(oldest) \in Nat /\ Len(oldest) = e
    BY <1>3
  <2>2. QED
    BY <1>2, <2>1, Executing
<1>6. \A n \in 0 .. e : all[n] \in Affairs
  BY <1>1, <1>2, <1>3, <1>4, ExecutingTyped
<1> DEFINE T == {n \in 0 .. e : stands(all[n].devices, {s \in S : mark[n] < s.memento}, c, mark[n], top, W)}
<1>7. 0 \in T
  <2>1. \A s \in S : floor < s.memento
    BY DEF stands, story, singular
  <2>2. {s \in S : mark[0] < s.memento} = S
    BY <2>1
  <2>3. stands(all[0].devices, {s \in S : mark[0] < s.memento}, c, mark[0], top, W)
    BY <1>4, <1>5, <2>2
  <2>4. QED
    BY <1>3, <2>3
<1>8. ASSUME NEW n \in 1 .. e, n - 1 \in T PROVE n \in T
  <2>1. PICK l, lo, hi, earlier, next, command, ts, V :
            /\ l = n - 1 /\ lo = mark[l] /\ hi = mark[n] /\ earlier = all[l] /\ next = all[n]
            /\ command = oldest[n] /\ ts = command.parts /\ V = {s \in S : lo < s.memento}
    OBVIOUS
  <2>2. l \in 0 .. e /\ n \in 0 .. e /\ n \in 1 .. Len(list) /\ e \in n .. Len(list) /\ n \in 0 .. Len(list)
    <3>1. l = n - 1 /\ e \in Nat /\ Len(list) \in Nat /\ e <= Len(list)
      BY <1>3, <1>13, <2>1
    <3>2. QED
      BY <3>1
  <2>3. command \in Commands /\ command = list[n]
    <3>1. oldest[n] \in Commands /\ oldest[n] = list[n]
      BY <1>3, <1>13
    <3>2. QED
      BY <2>1, <3>1
  <2>4. written(ts, S, lo, hi) /\ lo \in Nat /\ hi \in Nat /\ lo <= hi
    BY <2>1, <2>2, <2>3, CommandWritten
  <2>5. written(ts, V, lo, hi)
    BY <2>1, <2>4 DEF written
  <2>6. hi <= c
    <3>1. mark[n] <= mark[e]
      BY <2>2, MarksRise
    <3>2. QED
      BY <1>3, <2>1, <2>4, <3>1
  <2>7. PICK managers1, after1 : managers1 = earlier.devices /\ after1 = next.devices
    OBVIOUS
  <2>8. stands(managers1, V, c, lo, top, W)
    BY <1>8, <2>1, <2>7
  <2>9. PICK order : order = orderOf(kind, command.parts)
    OBVIOUS
  <2>10. earlier \in Affairs /\ next = executed(kind, earlier, command)
    BY <1>5, <1>6, <2>1, <2>2
  <2>11. doneAtOnce(kind, earlier, order, next)
    BY <1>1, <2>9, <2>10, AtOnce
  <2>12. order = ts
    BY <1>1, <2>1, <2>9 DEF orderOf
  <2>13. after1 = carrying("delete", managers1, ts)[Len(ts)]
    BY <1>1, <2>7, <2>11, <2>12 DEF doneAtOnce
  <2>14. PICK Y : Y = {s \in V : hi < s.memento}
    OBVIOUS
  <2>15. stands(after1, Y, c, hi, top, W)
    BY <2>4, <2>5, <2>6, <2>8, <2>13, <2>14, CommandDeleted
  <2>16. Y = {s \in S : mark[n] < s.memento}
    <3>1. S \subseteq Transactions
      BY DEF stands, story, singular
    <3>2. \A s \in S : s.memento \in Nat
      BY <3>1, TransactionFields
    <3>3. \A s \in S : hi < s.memento => lo < s.memento
      BY <2>4, <3>2
    <3>4. QED
      BY <2>1, <2>14, <3>3
  <2>17. stands(next.devices, {s \in S : mark[n] < s.memento}, c, mark[n], top, W)
    BY <2>1, <2>7, <2>15, <2>16
  <2>18. QED
    BY <2>1, <2>2, <2>17
<1> HIDE DEF T
<1>9. \A n \in 0 .. e : n \in T
  BY <1>3, <1>7, <1>8, StepByStep
<1>10. e \in T
  BY <1>3, <1>9
<1>11. after = all[e].devices
  BY <1>1, <1>2, <1>3 DEF deleted
<1>12. QED
  BY <1>10, <1>11 DEF T, later

\* A device does not know a memento.
unknown(m, old) ==
    m.m_currentMemento # old /\ \A k \in 1 .. Len(m.m_revisions) : m.m_revisions[k].memento # old

\* Purging a memento that its device does not know changes nothing.
LEMMA PurgedUnknown ==
    ASSUME NEW managers \in [Devices -> Managers], NEW t \in Transactions,
           unknown(managers[t.device], t.memento), NEW after, after = carriedOut("delete", managers, t)
    PROVE  after = managers
<1>1. after = [managers EXCEPT ![t.device] = purgeHistory(@, t.memento)]
  BY DEF carriedOut, purged
<1>2. PICK m, old, r : m = managers[t.device] /\ old = t.memento /\ r = purgeHistory(m, old)
  OBVIOUS
<1>3. m \in Managers
  BY <1>2, TransactionFields
<1>4. m.m_currentMemento # old /\ \A k \in 1 .. Len(m.m_revisions) : m.m_revisions[k].memento # old
  BY <1>2 DEF unknown
<1>5. purgeHistory(m, old) = m
  BY <1>3, <1>4, PurgedNothing
<1>6. QED
  BY <1>1, <1>2, <1>5

\* Deleting commands that no device knows of changes nothing.
LEMMA CarriedNowhere ==
    ASSUME NEW managers \in [Devices -> Managers], NEW ts \in Seq(Transactions),
           \A n \in 1 .. Len(ts) : unknown(managers[ts[n].device], ts[n].memento),
           NEW after, after = carrying("delete", managers, ts)[Len(ts)]
    PROVE  after = managers
<1>1. PICK kind : kind = "delete"
  OBVIOUS
<1>2. PICK all, N : all = carrying(kind, managers, ts) /\ N = Len(ts)
  OBVIOUS
<1>3. N \in Nat
  BY <1>2
<1>4. all[0] = managers /\ \A n \in 1 .. N : all[n] = carriedOut(kind, all[n - 1], ts[n])
  BY <1>2, <1>3, Carrying
<1> DEFINE T == {n \in 0 .. N : all[n] = managers}
<1>5. 0 \in T
  BY <1>3, <1>4
<1>6. ASSUME NEW n \in 1 .. N, n - 1 \in T PROVE n \in T
  <2>1. PICK t, next : t = ts[n] /\ next = all[n]
    OBVIOUS
  <2>2. t \in Transactions /\ unknown(managers[t.device], t.memento)
    BY <1>2, <2>1
  <2>3. next = carriedOut("delete", managers, t)
    BY <1>1, <1>4, <1>6, <2>1
  <2>4. next = managers
    BY <2>2, <2>3, PurgedUnknown
  <2>5. n \in 0 .. N
    BY <1>3
  <2>6. QED
    BY <2>1, <2>4, <2>5
<1> HIDE DEF T
<1>7. \A n \in 0 .. N : n \in T
  BY <1>3, <1>5, <1>6, StepByStep
<1>8. N \in T
  BY <1>3, <1>7
<1>9. QED
  BY <1>1, <1>2, <1>8 DEF T

\* Deleting commands whose mementos are unknown changes nothing.
LEMMA DeletedNothing ==
    ASSUME NEW managers \in [Devices -> Managers], NEW tail \in Seq(Commands),
           \A t \in transactionsIn(tail) : unknown(managers[t.device], t.memento)
    PROVE  deleted(managers, tail) = managers
<1>1. PICK kind, start : kind = "delete" /\ start = [devices |-> managers, strokes |-> <<>>]
  OBVIOUS
<1>2. PICK all, N : all = executing(kind, start, tail) /\ N = Len(tail)
  OBVIOUS
<1>3. N \in Nat
  BY <1>2
<1>4. start \in Affairs /\ start.devices = managers
  <2>1. <<>> \in Seq(Strokes)
    OBVIOUS
  <2>2. QED
    BY <1>1, <2>1 DEF Affairs
<1>5. all[0] = start /\ \A n \in 1 .. N : all[n] = executed(kind, all[n - 1], tail[n])
  <2>1. Len(tail) \in Nat /\ Len(tail) = N
    BY <1>2
  <2>2. QED
    BY <1>2, <2>1, Executing
<1>6. \A n \in 0 .. N : all[n] \in Affairs
  BY <1>1, <1>2, <1>4, ExecutingTyped
<1>7. PICK S : S = transactionsIn(tail)
  OBVIOUS
<1>8. spells(tail, S)
  BY <1>7, TransactionsIn
<1> DEFINE T == {n \in 0 .. N : all[n].devices = managers}
<1>9. 0 \in T
  BY <1>3, <1>4, <1>5
<1>10. ASSUME NEW n \in 1 .. N, n - 1 \in T PROVE n \in T
  <2>1. PICK l, earlier, next, command, ts, order, after :
            /\ l = n - 1 /\ earlier = all[l] /\ next = all[n] /\ command = tail[n]
            /\ ts = command.parts /\ order = orderOf(kind, command.parts) /\ after = next.devices
    OBVIOUS
  <2>2. l \in 0 .. N /\ n \in 0 .. N /\ n \in 1 .. Len(tail)
    BY <1>2, <1>3, <2>1
  <2>3. earlier \in Affairs /\ next = executed(kind, earlier, command) /\ earlier.devices = managers
    BY <1>5, <1>6, <1>10, <2>1, <2>2
  <2>4. doneAtOnce(kind, earlier, order, next)
    BY <1>1, <2>1, <2>3, AtOnce
  <2>5. order = ts
    BY <1>1, <2>1 DEF orderOf
  <2>6. after = carrying("delete", managers, ts)[Len(ts)]
    BY <1>1, <2>1, <2>3, <2>4, <2>5 DEF doneAtOnce
  <2>7. ts \in Seq(Transactions) /\ \A k \in 1 .. Len(ts) : ts[k] \in S
    BY <1>8, <2>1, <2>2 DEF spells
  <2>8. \A k \in 1 .. Len(ts) : unknown(managers[ts[k].device], ts[k].memento)
    BY <1>7, <2>7
  <2>9. after = managers
    BY <2>6, <2>7, <2>8, CarriedNowhere
  <2>10. QED
    BY <2>1, <2>2, <2>9
<1> HIDE DEF T
<1>11. \A n \in 0 .. N : n \in T
  BY <1>3, <1>9, <1>10, StepByStep
<1>12. N \in T
  BY <1>3, <1>11
<1>13. deleted(managers, tail) = all[N].devices
  BY <1>1, <1>2 DEF deleted
<1>14. QED
  BY <1>12, <1>13 DEF T

-----------------------------------------------------------------------------
(***************************************************************************)
(* A new transaction.                                                      *)
(***************************************************************************)

\* A device under a transaction: what was done since, the index has.
busy(m, T, c, floor, W, w, n) ==
    /\ behind(m.m_revisions, T, c, floor, W)
    /\ m.m_cancelledRevisions = <<>> /\ m.m_currentMemento = n
    /\ \A p \in Positions : m.m_headsHashTable[p] = w.tiles[p]
    /\ \A p \in Positions \ m.m_index : m.m_hashTable[p] = w.tiles[p]

\* It begins.
begins(m, T, c, floor, W, w, n) ==
    m \in Managers /\ busy(m, T, c, floor, W, w, n) /\ m.m_defaultPixel = w.defaultPixel

\* getMemento() on a device at rest begins a transaction with the image it has.
LEMMA StartedDevice ==
    ASSUME NEW m \in Managers, NEW T, NEW c \in Nat, NEW floor \in Nat, NEW W, NEW w,
           T \subseteq Transactions, kept(m, T, c, floor, W, w), NEW n \in Nat,
           NEW g, g = getMemento(m, n)
    PROVE  begins(g, T, c, floor, W, w, n)
<1>1. behind(m.m_revisions, T, c, floor, W) /\ calm(m, w)
  BY DEF kept
<1>2. /\ g \in Managers
      /\ m.m_index = {} /\ m.m_currentMemento = NoMemento =>
           g.m_revisions = m.m_revisions /\ g.m_headsHashTable = m.m_headsHashTable
      /\ m.m_index # {} \/ m.m_currentMemento # NoMemento =>
           /\ g.m_revisions = Append(m.m_revisions, revisionOf(m))
           /\ g.m_headsHashTable = headsAfter(m)
      /\ g.m_index = {} /\ g.m_currentMemento = n
      /\ g.m_hashTable = m.m_hashTable /\ g.m_defaultPixel = m.m_defaultPixel
      /\ g.m_cancelledRevisions = <<>>
  <2>1. opensTo(m, n, g) /\ g \in Managers
    BY Opened
  <2>2. QED
    BY <2>1 DEF opensTo
<1>3. /\ m.m_currentMemento = NoMemento
      /\ m.m_hashTable = w.tiles /\ m.m_defaultPixel = w.defaultPixel
      /\ \A p \in Positions \ m.m_index : m.m_headsHashTable[p] = m.m_hashTable[p]
      /\ m.m_index # {} => m.m_revisions = <<>>
  BY <1>1 DEF calm
<1>4. \A p \in Positions : g.m_headsHashTable[p] = w.tiles[p]
  <2>1. CASE m.m_index = {}
    BY <1>2, <1>3, <2>1
  <2>2. CASE m.m_index # {}
    <3>1. g.m_headsHashTable = headsAfter(m)
      BY <1>2, <2>2
    <3>2. QED
      BY <1>3, <3>1 DEF headsAfter
  <2>3. QED
    BY <2>1, <2>2
<1>5. behind(g.m_revisions, T, c, floor, W)
  <2>1. CASE m.m_index = {}
    BY <1>1, <1>2, <1>3, <2>1
  <2>2. CASE m.m_index # {}
    <3>1. PICK r, R : r = revisionOf(m) /\ R = g.m_revisions
      OBVIOUS
    <3>2. m.m_revisions = <<>> /\ R = Append(<<>>, r)
      BY <1>2, <1>3, <2>2, <3>1
    <3>3. behind(<<>>, T, c, floor, W)
      BY <1>1, <3>2
    <3>4. R = <<r>> /\ Len(R) = 1 /\ R[1] = r
      BY <3>2
    <3>5. r.memento = 0
      BY <1>3, <3>1 DEF revisionOf, NoMemento
    <3>6. \A t \in T : ~(t.memento <= c)
      <4>1. \A t \in T : t.memento <= c => \E k \in 1 .. Len(<<>>) : revises(<<>>[k], t, W)
        BY <3>3 DEF behind
      <4>2. Len(<<>>) = 0
        OBVIOUS
      <4>3. QED
        BY <4>1, <4>2
    <3>7. rising(R)
      BY <3>4 DEF rising
    <3>8. \A k \in 1 .. Len(R) : R[k].memento <= floor
      BY <3>4, <3>5
    <3>9. behind(R, T, c, floor, W)
      BY <3>6, <3>7, <3>8 DEF behind
    <3>10. QED
      BY <3>1, <3>9
  <2>3. QED
    BY <2>1, <2>2
<1>6. \A p \in Positions \ g.m_index : g.m_hashTable[p] = w.tiles[p]
  BY <1>2, <1>3
<1>7. QED
  BY <1>2, <1>3, <1>4, <1>5, <1>6 DEF begins, busy

\* It goes on.
LEMMA PaintedDevice ==
    ASSUME NEW m \in Managers, NEW T, NEW c, NEW floor, NEW W, NEW w, NEW n,
           busy(m, T, c, floor, W, w, n), NEW x \in Changes(m)
    PROVE  busy(x, T, c, floor, W, w, n)
<1>1. /\ x.m_headsHashTable = m.m_headsHashTable /\ x.m_currentMemento = m.m_currentMemento
      /\ x.m_revisions = m.m_revisions /\ x.m_cancelledRevisions = m.m_cancelledRevisions
      /\ m.m_index \subseteq x.m_index
      /\ \A p \in Positions : x.m_hashTable[p] = m.m_hashTable[p] \/ p \in x.m_index
  BY ChangesTyped
<1>2. QED
  BY <1>1 DEF busy

\* What a world is on a device.
looks(w, m) == w.tiles = m.m_hashTable /\ w.defaultPixel = m.m_defaultPixel
wasSo(W, n, d, w) == W[n - 1][d] = w

\* It is committed, in a world that is as it was up to c, and as it is now.
LEMMA FinishedDevice ==
    ASSUME NEW m \in Managers, NEW T, NEW c \in Nat, NEW floor \in Nat, floor <= c, NEW W, NEW w,
           NEW n \in Nat, c < n, busy(m, T, c, floor, W, w, n),
           singular(T, floor), \A s \in T : s.memento <= c,
           NEW V, agree(V, W, c), NEW t \in Transactions, t.memento = n,
           NEW d, t.device = d, wasSo(V, n, d, w), NEW v, v = V[n][d], looks(v, m),
           NEW U, U = T \cup {t}, NEW r, r = commit(m)
    PROVE  rests(r, U, n, floor, V, v)
<1>1. /\ behind(m.m_revisions, T, c, floor, W)
      /\ m.m_cancelledRevisions = <<>> /\ m.m_currentMemento = n
      /\ \A p \in Positions : m.m_headsHashTable[p] = w.tiles[p]
      /\ \A p \in Positions \ m.m_index : m.m_hashTable[p] = w.tiles[p]
  BY DEF busy
<1>2. n # NoMemento
  BY DEF NoMemento
<1>3. /\ r \in Managers
      /\ r.m_revisions = Append(m.m_revisions, revisionOf(m))
      /\ r.m_headsHashTable = headsAfter(m)
      /\ r.m_index = {} /\ r.m_currentMemento = NoMemento
      /\ r.m_hashTable = m.m_hashTable /\ r.m_defaultPixel = m.m_defaultPixel
      /\ r.m_cancelledRevisions = <<>>
  BY <1>1, <1>2, Committed
<1>4. PICK R, again, F : R = m.m_revisions /\ again = revisionOf(m) /\ F = r.m_revisions
  OBVIOUS
<1>5. R \in Seq(Revisions) /\ again \in Revisions /\ F = Append(R, again)
  BY <1>3, <1>4, ManagerFields, RevisionTyped
<1>6. revises(again, t, V)
  <2>1. again.memento = t.memento
    BY <1>1, <1>4 DEF revisionOf
  <2>2. PICK items : items = again.items
    OBVIOUS
  <2>3. items = [p \in m.m_index |-> [now |-> m.m_hashTable[p], before |-> m.m_headsHashTable[p]]]
    BY <1>4, <2>2 DEF revisionOf
  <2>4. v.tiles = m.m_hashTable
    BY DEF looks
  <2>5. carries(items, w.tiles, v.tiles)
    BY <1>1, <2>3, <2>4 DEF carries
  <2>6. V[t.memento - 1][t.device] = w /\ V[t.memento][t.device] = v
    BY DEF wasSo
  <2>7. QED
    BY <2>1, <2>2, <2>5, <2>6 DEF revises
<1>7. behind(F, U, n, floor, V)
  BY <1>1, <1>4, <1>5, <1>6, RevisionAdded
<1>8. ahead(<<>>, U, n, V)
  <2>1. T \subseteq Transactions
    BY DEF singular
  <2>2. \A s \in T : s.memento \in Nat
    BY <2>1, TransactionFields
  <2>3. \A s \in U : ~(s.memento > n)
    BY <2>2
  <2>4. QED
    BY <2>3, NothingAhead
<1>9. calm(r, v)
  <2>1. ASSUME NEW p \in Positions PROVE headsAfter(m)[p] = m.m_hashTable[p]
    BY <1>1 DEF headsAfter
  <2>2. QED
    BY <1>3, <2>1 DEF calm, looks
<1>10. QED
  BY <1>3, <1>4, <1>7, <1>8, <1>9 DEF kept, rests

\* It is taken back: committed, undone and purged.
LEMMA RevertedDevice ==
    ASSUME NEW m \in Managers, NEW T, NEW c \in Nat, NEW floor \in Nat, floor <= c, NEW W, NEW w,
           NEW n \in Nat, c < n, busy(m, T, c, floor, W, w, n),
           singular(T, floor), \A s \in T : s.memento <= c,
           NEW t \in Transactions, t.memento = n, NEW d \in Devices, t.device = d,
           W[c][d] = w, w.tiles \in Contents, w.defaultPixel = t.oldDefaultPixel, W \in [Nat -> Images],
           NEW r, r = setDefaultPixel(rollback(commit(m)), t.oldDefaultPixel),
           NEW z, z = purgeHistory(r, n)
    PROVE  rests(z, T, c, floor, W, w)
<1>1. PICK now : now = [e \in Devices |-> [tiles |-> m.m_hashTable, defaultPixel |-> m.m_defaultPixel]]
  OBVIOUS
<1>2. PICK V : V = [k \in Nat |-> IF k <= c THEN W[k] ELSE IF k < n THEN W[c] ELSE now]
  OBVIOUS
<1>3. PICK v, k, U : v = now[d] /\ k = commit(m) /\ U = T \cup {t}
  OBVIOUS
<1>4. agree(V, W, c) /\ agree(W, V, c)
  BY <1>2 DEF agree
<1>5. n - 1 \in Nat /\ c <= n - 1 /\ n - 1 < n /\ n >= 1
  OBVIOUS
<1>6. V[n] = now
  BY <1>2
<1>7. V[n - 1] = W[c]
  <2>1. PICK b : b = n - 1
    OBVIOUS
  <2>2. b \in Nat /\ c <= b /\ b < n
    BY <1>5, <2>1
  <2>3. V[b] = W[c]
    <3>1. b = c \/ ~(b <= c)
      BY <2>2
    <3>2. QED
      BY <1>2, <2>2, <3>1
  <2>4. QED
    BY <2>1, <2>3
<1>8. v = V[n][d] /\ looks(v, m) /\ V[n - 1][d] = w
  BY <1>1, <1>3, <1>6, <1>7 DEF looks
<1>9. k \in Managers /\ kept(k, U, n, floor, V, v)
  <2>1. wasSo(V, n, d, w)
    BY <1>8 DEF wasSo
  <2>2. rests(k, U, n, floor, V, v)
    BY <1>3, <1>4, <1>8, <2>1, FinishedDevice
  <2>3. QED
    BY <2>2 DEF rests
<1>10. singular(U, floor)
  <2>1. T \subseteq Transactions /\ (\A s, q \in T : s.memento = q.memento => s = q)
        /\ \A s \in T : floor < s.memento
    BY DEF singular
  <2>2. \A s \in T : s.memento \in Nat
    BY <2>1, TransactionFields
  <2>3. \A s \in T : s.memento # n
    BY <2>2
  <2>4. floor < n
    OBVIOUS
  <2>5. QED
    BY <1>3, <2>1, <2>3, <2>4 DEF singular
<1>11. PICK b : b = t.memento - 1
  OBVIOUS
<1>12. b = n - 1 /\ b \in Nat
  BY <1>5, <1>11
<1>13. /\ t \in U /\ t.memento <= n
       /\ \A s \in U : s.memento <= n => s.memento <= t.memento
  BY <1>3
<1>14. w = V[b][d] /\ v = V[t.memento][d] /\ v.tiles \in Contents
  <2>1. v.tiles = m.m_hashTable
    BY <1>8 DEF looks
  <2>2. m.m_hashTable \in Contents
    BY ManagerFields DEF Contents, Tiles
  <2>3. QED
    BY <1>8, <1>12, <2>1, <2>2
<1>15. r = setDefaultPixel(rollback(k), t.oldDefaultPixel)
  BY <1>3
<1>16. r \in Managers /\ kept(r, U, b, floor, V, w)
  <2>1. rests(r, U, b, floor, V, w)
    BY <1>9, <1>10, <1>11, <1>13, <1>14, <1>15, UndoneDevice
  <2>2. QED
    BY <2>1 DEF rests
<1>17. PICK R, C : R = r.m_revisions /\ C = r.m_cancelledRevisions
  OBVIOUS
<1>18. behind(R, U, b, floor, V) /\ ahead(C, U, b, V) /\ calm(r, w)
  BY <1>16, <1>17 DEF kept
<1>19. T \subseteq Transactions /\ U \subseteq Transactions /\ T \subseteq U
  BY <1>3 DEF singular
<1>20. \A s \in T : s.memento \in Nat /\ s.memento <= b
  <2>1. \A s \in T : s.memento \in Nat
    BY <1>19, TransactionFields
  <2>2. QED
    BY <1>12, <2>1
<1>21. behind(R, T, b, floor, V)
  <2>1. \A s \in U : s.memento <= b => s \in T
    BY <1>3, <1>12
  <2>2. QED
    BY <1>12, <1>18, <1>19, <2>1, DoneRemembered
<1>22. ahead(C, T, b, V)
  BY <1>12, <1>18, <1>19, <1>20, RedoForgotten
<1>23. behind(R, T, c, floor, V) /\ ahead(C, T, c, V)
  BY <1>12, <1>19, <1>20, <1>21, <1>22, SameSide
<1>24. behind(R, T, c, floor, W) /\ ahead(C, T, c, W)
  BY <1>4, <1>19, <1>23, TimeGoesBy
<1>25. kept(r, T, c, floor, W, w)
  BY <1>17, <1>18, <1>24 DEF kept
<1>26. r.m_currentMemento # n
  BY <1>18 DEF calm, NoMemento
<1>27. \A j \in 1 .. Len(r.m_revisions) : r.m_revisions[j].memento # n
  <2>1. R \in Seq(Revisions)
    BY <1>16, <1>17, ManagerFields
  <2>2. \A j \in 1 .. Len(R) : R[j].memento \in Nat
    BY <2>1, Mementos
  <2>3. \A j \in 1 .. Len(R) : R[j].memento <= floor \/ \E s \in T : s.memento <= c /\ R[j].memento = s.memento
    BY <1>24 DEF behind
  <2>4. \A j \in 1 .. Len(R) : R[j].memento # n
    BY <1>20, <2>2, <2>3
  <2>5. QED
    BY <1>17, <2>4
<1>28. z = r
  BY <1>16, <1>26, <1>27, PurgedNothing
<1>29. QED
  BY <1>16, <1>25, <1>28 DEF rests

\* After memento c nothing changed, until memento n was committed.
onward(V, W, c, n, now) ==
    /\ V \in [Nat -> Images] /\ agree(V, W, c) /\ V[n] = now
    /\ \A k \in Nat : c <= k /\ k < n => V[k] = W[c]

\* There are such worlds.
LEMMA WorldsSince ==
    ASSUME NEW W \in [Nat -> Images], NEW c \in Nat, NEW n \in Nat, c < n, NEW now \in Images
    PROVE  \E V : onward(V, W, c, n, now)
<1>1. PICK V : V = [k \in Nat |-> IF k <= c THEN W[k] ELSE IF k < n THEN W[c] ELSE now]
  OBVIOUS
<1>2. V \in [Nat -> Images]
  BY <1>1
<1>3. agree(V, W, c)
  BY <1>1 DEF agree
<1>4. V[n] = now
  BY <1>1
<1>5. ASSUME NEW k \in Nat, c <= k, k < n PROVE V[k] = W[c]
  <2>1. k = c \/ ~(k <= c)
    BY <1>5
  <2>2. QED
    BY <1>1, <1>5, <2>1
<1>6. QED
  BY <1>2, <1>3, <1>4, <1>5 DEF onward

\* A device is in the midst of transaction n, the others are at rest.
underway(managers, d, S, c, floor, top, W, n) ==
    /\ story(S, floor, top, W) /\ atRest(managers, Devices \ {d}, S, c, floor, W)
    /\ d \in Devices /\ n \in Nat /\ top < n /\ c <= top
    /\ busy(managers[d], ours(S, d), c, floor, W, W[c][d], n)

\* The transaction that is committed, between what was and what is.
concludes(t, managers, d, c, W, n) ==
    /\ t \in Transactions /\ t.device = d /\ t.memento = n
    /\ t.oldDefaultPixel = W[c][d].defaultPixel
    /\ t.newDefaultPixel = managers[d].m_defaultPixel

\* What the transactions tell when one more is committed.
LEMMA StoryContinued ==
    ASSUME NEW managers, NEW d, NEW S, NEW c, NEW floor, NEW top, NEW W, NEW n,
           underway(managers, d, S, c, floor, top, W, n), \A s \in S : s.memento <= c,
           NEW t, concludes(t, managers, d, c, W, n),
           NEW V, NEW now, onward(V, W, c, n, now), now[d].defaultPixel = t.newDefaultPixel,
           \A e \in Devices : e # d => now[e] = W[c][e], NEW U, U = S \cup {t}
    PROVE  story(U, floor, n, V)
<1>1. /\ story(S, floor, top, W) /\ c \in Nat /\ floor \in Nat /\ floor <= c
      /\ d \in Devices /\ n \in Nat /\ top < n /\ c <= top
  BY DEF underway, atRest
<1>2. /\ W \in [Nat -> Images] /\ top \in Nat /\ singular(S, floor) /\ S \subseteq Transactions
      /\ \A k \in (floor + 1) .. top : (\A s \in S : s.memento # k) => W[k] = W[k - 1]
      /\ \A s, r \in S : s.memento = r.memento => s = r
      /\ \A s \in S : floor < s.memento /\ tells(s, W)
  BY <1>1 DEF story, singular
<1>3. /\ t \in Transactions /\ t.device = d /\ t.memento = n
      /\ t.oldDefaultPixel = W[c][d].defaultPixel
  BY DEF concludes
<1>4. /\ V \in [Nat -> Images] /\ V[n] = now /\ \A k \in 0 .. c : V[k] = W[k]
      /\ \A k \in Nat : c <= k /\ k < n => V[k] = W[c]
  BY DEF onward, agree
<1>5. \A s \in S : s.memento \in Nat
  BY <1>2, TransactionFields
<1>6. singular(U, floor)
  <2>1. \A s \in S : s.memento # n
    BY <1>1, <1>2, <1>5
  <2>2. floor < n
    BY <1>1, <1>2
  <2>3. QED
    BY <1>2, <1>3, <2>1, <2>2 DEF singular
<1>7. \A u \in U : u.memento <= n
  BY <1>1, <1>2, <1>3, <1>5
<1>8. ASSUME NEW k \in (floor + 1) .. n, \A u \in U : u.memento # k PROVE V[k] = V[k - 1]
  <2>1. PICK b : b = k - 1
    OBVIOUS
  <2>2. k \in Nat /\ b \in Nat /\ floor <= b /\ k # n /\ k < n /\ b < n
    BY <1>1, <1>3, <1>8, <2>1
  <2>3. CASE k <= c
    <3>1. k \in (floor + 1) .. top /\ \A s \in S : s.memento # k
      BY <1>1, <1>2, <1>8, <2>2, <2>3
    <3>2. W[k] = W[b]
      BY <1>2, <2>1, <3>1
    <3>3. k \in 0 .. c /\ b \in 0 .. c
      BY <1>1, <2>1, <2>2, <2>3
    <3>4. V[k] = V[b]
      BY <1>4, <3>2, <3>3
    <3>5. QED
      BY <2>1, <3>4
  <2>4. CASE ~(k <= c)
    <3>1. c <= b /\ c <= k
      BY <1>1, <2>1, <2>2, <2>4
    <3>2. V[k] = V[b]
      BY <1>4, <2>2, <3>1
    <3>3. QED
      BY <2>1, <3>2
  <2>5. QED
    BY <2>3, <2>4
<1>9. ASSUME NEW u \in S PROVE tells(u, V)
  <2>1. PICK a, b : a = u.memento /\ b = u.memento - 1
    OBVIOUS
  <2>2. a \in 0 .. c /\ b \in 0 .. c
    <3>1. a \in Nat /\ floor < a /\ a <= c
      BY <1>2, <1>5, <2>1
    <3>2. QED
      BY <1>1, <2>1, <3>1
  <2>3. V[a] = W[a] /\ V[b] = W[b]
    BY <1>4, <2>2
  <2>4. QED
    BY <1>2, <2>1, <2>3 DEF tells
<1>10. tells(t, V)
  <2>1. PICK b : b = t.memento - 1
    OBVIOUS
  <2>2. b \in Nat /\ c <= b /\ b < n
    BY <1>1, <1>2, <1>3, <2>1
  <2>3. V[b] = W[c] /\ V[t.memento] = now
    BY <1>3, <1>4, <2>2
  <2>4. QED
    BY <1>3, <2>1, <2>3 DEF tells
<1>11. QED
  BY <1>1, <1>4, <1>6, <1>7, <1>8, <1>9, <1>10 DEF story

\* A device that was left alone meanwhile.
LEMMA LeftAlone ==
    ASSUME NEW m, NEW T, NEW c \in Nat, NEW n \in Nat, c <= n, NEW floor, NEW V, NEW W, NEW w,
           T \subseteq Transactions, \A s \in T : s.memento <= c, agree(V, W, c),
           kept(m, T, c, floor, W, w)
    PROVE  kept(m, T, n, floor, V, w)
<1>1. PICK R, C : R = m.m_revisions /\ C = m.m_cancelledRevisions
  OBVIOUS
<1>2. behind(R, T, c, floor, W) /\ ahead(C, T, c, W) /\ calm(m, w)
  BY <1>1 DEF kept
<1>3. behind(R, T, n, floor, V) /\ ahead(C, T, n, V)
  BY <1>2, TimeGoesBy
<1>4. QED
  BY <1>1, <1>2, <1>3 DEF kept

\* The transaction is committed.
carriesOn(after, U, n, floor, W, c, V) ==
    stands(after, U, n, floor, n, V) /\ agree(V, W, c) /\ V[n] = imageOf(after)

\* commit() adds the transaction to the story: the worlds before it stay, its own is the image now.
LEMMA TransactionAdded ==
    ASSUME NEW managers, NEW d, NEW S, NEW c, NEW floor, NEW top, NEW W, NEW n,
           underway(managers, d, S, c, floor, top, W, n), \A s \in S : s.memento <= c,
           NEW t, concludes(t, managers, d, c, W, n),
           NEW after, after = [managers EXCEPT ![d] = commit(@)], NEW U, U = S \cup {t}
    PROVE  \E V : carriesOn(after, U, n, floor, W, c, V)
<1>1. /\ story(S, floor, top, W) /\ c \in Nat /\ floor \in Nat /\ floor <= c
      /\ d \in Devices /\ n \in Nat /\ top < n /\ c <= top
      /\ managers \in [Devices -> Managers]
      /\ \A e \in Devices \ {d} : kept(managers[e], ours(S, e), c, floor, W, W[c][e])
      /\ busy(managers[d], ours(S, d), c, floor, W, W[c][d], n)
  BY DEF underway, atRest
<1>2. W \in [Nat -> Images] /\ singular(S, floor) /\ top \in Nat /\ c < n
  BY <1>1 DEF story
<1>3. PICK m, k, now : m = managers[d] /\ k = commit(m) /\ now = imageOf(after)
  OBVIOUS
<1>4. /\ m \in Managers /\ k \in Managers
      /\ k.m_hashTable = m.m_hashTable /\ k.m_defaultPixel = m.m_defaultPixel
  BY <1>1, <1>3, Committed
<1>5. after \in [Devices -> Managers] /\ after[d] = k /\ \A e \in Devices \ {d} : after[e] = managers[e]
  BY <1>1, <1>3, <1>4
<1>6. now \in Images
  BY <1>3, <1>5, ImageTyped
<1>7. PICK V : onward(V, W, c, n, now)
  BY <1>1, <1>2, <1>6, WorldsSince
<1>8. /\ agree(V, W, c) /\ V[n] = now /\ V \in [Nat -> Images]
      /\ \A j \in Nat : c <= j /\ j < n => V[j] = W[c]
  BY <1>7 DEF onward
<1>9. \A e \in Devices : now[e] = [tiles |-> after[e].m_hashTable, defaultPixel |-> after[e].m_defaultPixel]
  BY <1>3 DEF imageOf
<1>10. ASSUME NEW e \in Devices, e # d PROVE now[e] = W[c][e]
  <2>1. after[e] = managers[e]
    BY <1>5, <1>10
  <2>2. PICK w : w = W[c][e]
    OBVIOUS
  <2>3. managers[e].m_hashTable = w.tiles /\ managers[e].m_defaultPixel = w.defaultPixel
    BY <1>1, <1>10, <2>2 DEF kept, calm
  <2>4. w \in [tiles : Contents, defaultPixel : DefaultPixels]
    BY <1>1, <1>2, <2>2 DEF Images
  <2>5. w = [tiles |-> w.tiles, defaultPixel |-> w.defaultPixel]
    BY <2>4
  <2>6. QED
    BY <1>9, <2>1, <2>2, <2>3, <2>5
<1>11. looks(now[d], m)
  <2>1. now[d] = [tiles |-> k.m_hashTable, defaultPixel |-> k.m_defaultPixel]
    BY <1>1, <1>5, <1>9
  <2>2. QED
    BY <1>4, <2>1 DEF looks
<1>12. t \in Transactions /\ t.device = d /\ t.memento = n /\ now[d].defaultPixel = t.newDefaultPixel
  BY <1>3, <1>11 DEF looks, concludes
<1>13. story(U, floor, n, V)
  BY <1>7, <1>10, <1>12, StoryContinued
<1>14. kept(k, ours(U, d), n, floor, V, now[d])
  <2>1. PICK T, w, v, X : T = ours(S, d) /\ w = W[c][d] /\ v = now[d] /\ X = ours(U, d)
    OBVIOUS
  <2>2. singular(T, floor) /\ \A s \in T : s.memento <= c
    BY <1>2, <2>1, OursAlone DEF ours
  <2>3. X = T \cup {t}
    BY <1>12, <2>1 DEF ours
  <2>4. wasSo(V, n, d, w)
    <3>1. PICK b : b = n - 1
      OBVIOUS
    <3>2. b \in Nat /\ c <= b /\ b < n
      BY <1>1, <1>2, <3>1
    <3>3. V[b] = W[c]
      BY <1>8, <3>2
    <3>4. QED
      BY <2>1, <3>1, <3>3 DEF wasSo
  <2>5. v = V[n][d] /\ looks(v, m) /\ busy(m, T, c, floor, W, w, n)
    BY <1>1, <1>3, <1>8, <1>11, <2>1
  <2>6. rests(k, X, n, floor, V, v)
    BY <1>1, <1>2, <1>3, <1>4, <1>8, <1>12, <2>2, <2>3, <2>4, <2>5, FinishedDevice
  <2>7. QED
    BY <2>1, <2>6 DEF rests
<1>15. ASSUME NEW e \in Devices, e # d PROVE kept(after[e], ours(U, e), n, floor, V, now[e])
  <2>1. PICK x, T, w : x = managers[e] /\ T = ours(S, e) /\ w = W[c][e]
    OBVIOUS
  <2>2. T = ours(U, e)
    BY <1>12, <1>15, <2>1 DEF ours
  <2>3. T \subseteq Transactions /\ \A s \in T : s.memento <= c
    BY <1>2, <2>1, OursAlone DEF ours
  <2>4. kept(x, T, c, floor, W, w) /\ c <= n
    BY <1>1, <1>2, <1>15, <2>1
  <2>5. kept(x, T, n, floor, V, w)
    BY <1>1, <1>8, <2>3, <2>4, LeftAlone
  <2>6. QED
    BY <1>5, <1>10, <1>15, <2>1, <2>2, <2>5
<1>16. atRest(after, Devices, U, n, floor, V)
  <2>1. floor <= n
    BY <1>1, <1>2
  <2>2. QED
    BY <1>1, <1>5, <1>8, <1>14, <1>15, <2>1 DEF atRest
<1>17. QED
  BY <1>3, <1>8, <1>13, <1>16 DEF stands, carriesOn

-----------------------------------------------------------------------------
(***************************************************************************)
(* The list of commands grows, and loses its oldest.                       *)
(***************************************************************************)

\* The devices, one of them in the midst of a transaction, are where the first i
\* commands of the list took them.
painted(managers, list, mark, i, W, d, n) ==
    /\ marked(list, mark) /\ i \in 0 .. Len(list)
    /\ underway(managers, d, transactionsIn(list), mark[i], mark[0], mark[Len(list)], W, n)

\* A command without transactions follows the first i of the list.
isBegun(list, i, longer) ==
    /\ longer \in Seq(Commands) /\ Len(longer) = i + 1 /\ i \in Nat
    /\ \A k \in 1 .. i : longer[k] = list[k]
    /\ longer[i + 1].parts = <<>> /\ ~longer[i + 1].saved
isMarkedToo(mark, i, more) ==
    /\ more \in [Nat -> Nat] /\ \A k \in 0 .. i : more[k] = mark[k]
    /\ more[i + 1] = mark[i]

\* A list is marked when the command that is begun has the mark of the one before.
LEMMA BegunMarked ==
    ASSUME NEW list, NEW mark, marked(list, mark), NEW i \in 0 .. Len(list),
           NEW longer, isBegun(list, i, longer), NEW more, isMarkedToo(mark, i, more)
    PROVE  marked(longer, more)
<1>1. /\ list \in Seq(Commands) /\ mark \in [Nat -> Nat] /\ Len(list) \in Nat
      /\ \A k \in 1 .. Len(list) : mark[k - 1] <= mark[k]
      /\ \A k \in 1 .. Len(list) : inOrder(list[k].parts, mark[k - 1], mark[k])
      /\ \A k \in 1 .. Len(list) : list[k].saved => Len(list[k].parts) = 1
  BY MarkedFields
<1>2. /\ longer \in Seq(Commands) /\ Len(longer) = i + 1 /\ i \in Nat
      /\ \A k \in 1 .. i : longer[k] = list[k]
      /\ longer[i + 1].parts = <<>> /\ ~longer[i + 1].saved
  BY DEF isBegun
<1>3. /\ more \in [Nat -> Nat] /\ \A k \in 0 .. i : more[k] = mark[k]
      /\ more[i + 1] = mark[i]
  BY DEF isMarkedToo
<1>4. ASSUME NEW k \in 1 .. (i + 1)
      PROVE  /\ more[k - 1] <= more[k] /\ inOrder(longer[k].parts, more[k - 1], more[k])
             /\ longer[k].saved => Len(longer[k].parts) = 1
  <2>1. CASE k = i + 1
    <3>1. more[k - 1] = mark[i] /\ more[k] = mark[i] /\ mark[i] \in Nat
      BY <1>1, <1>2, <1>3, <2>1
    <3>2. inOrder(<<>>, mark[i], mark[i])
      BY DEF inOrder
    <3>3. QED
      BY <1>2, <2>1, <3>1, <3>2
  <2>2. CASE k # i + 1
    <3>1. k \in 1 .. i /\ k \in 1 .. Len(list) /\ k - 1 \in 0 .. i /\ k \in 0 .. i
      BY <1>1, <1>2, <2>2
    <3>2. PICK b : b = k - 1
      OBVIOUS
    <3>3. more[b] = mark[b] /\ more[k] = mark[k] /\ longer[k] = list[k]
      BY <1>2, <1>3, <3>1, <3>2
    <3>4. mark[b] <= mark[k] /\ inOrder(list[k].parts, mark[b], mark[k])
          /\ (list[k].saved => Len(list[k].parts) = 1)
      BY <1>1, <3>1, <3>2
    <3>5. QED
      BY <3>2, <3>3, <3>4
  <2>3. QED
    BY <2>1, <2>2
<1>5. QED
  BY <1>2, <1>3, <1>4 DEF marked

\* What the first i commands of a list did.
through(S, c) == {s \in S : s.memento <= c}

\* What could be redone is gone from the list, what was done is in it.
LEMMA BegunSpells ==
    ASSUME NEW list, NEW mark, marked(list, mark), NEW i \in 0 .. Len(list),
           NEW longer, isBegun(list, i, longer), NEW c, c = mark[i]
    PROVE  transactionsIn(longer) = through(transactionsIn(list), c)
<1>1. /\ list \in Seq(Commands) /\ mark \in [Nat -> Nat] /\ Len(list) \in Nat
      /\ \A k \in 1 .. Len(list) : inOrder(list[k].parts, mark[k - 1], mark[k])
  BY MarkedFields
<1>2. /\ longer \in Seq(Commands) /\ Len(longer) = i + 1 /\ i \in Nat
      /\ \A k \in 1 .. i : longer[k] = list[k]
      /\ longer[i + 1].parts = <<>>
  BY DEF isBegun
<1>3. PICK S, U : S = transactionsIn(list) /\ U = transactionsIn(longer)
  OBVIOUS
<1>4. spells(list, S) /\ spells(longer, U)
  BY <1>1, <1>2, <1>3, TransactionsIn
<1>5. \A t : t \in S <=> \E k \in 1 .. Len(list) : \E n \in 1 .. Len(list[k].parts) : t = list[k].parts[n]
  BY <1>4 DEF spells
<1>6. \A t : t \in U <=> \E k \in 1 .. (i + 1) : \E n \in 1 .. Len(longer[k].parts) : t = longer[k].parts[n]
  BY <1>2, <1>4 DEF spells
<1>7. ASSUME NEW k \in 1 .. Len(list), NEW n \in 1 .. Len(list[k].parts)
      PROVE  list[k].parts[n].memento <= c <=> k <= i
  <2>1. PICK lo, hi, ts, t : lo = mark[k - 1] /\ hi = mark[k] /\ ts = list[k].parts /\ t = ts[n]
    OBVIOUS
  <2>2. lo < t.memento /\ t.memento <= hi
    BY <1>1, <1>7, <2>1 DEF inOrder
  <2>3. t \in Transactions
    BY <1>3, <1>4, <1>5, <2>1 DEF spells
  <2>4. t.memento \in Nat
    BY <2>3, TransactionFields
  <2>5. k - 1 \in Nat /\ k \in Nat /\ i \in Nat /\ lo \in Nat /\ hi \in Nat /\ c \in Nat
    BY <1>1, <1>2, <2>1
  <2>6. CASE k <= i
    <3>1. hi <= c
      <4>1. k \in 0 .. Len(list) /\ i \in k .. Len(list)
        BY <1>1, <2>5, <2>6
      <4>2. QED
        BY <2>1, <4>1, MarksRise
    <3>2. QED
      BY <2>1, <2>2, <2>4, <2>5, <2>6, <3>1
  <2>7. CASE ~(k <= i)
    <3>1. PICK b : b = k - 1
      OBVIOUS
    <3>2. b \in i .. Len(list)
      BY <1>1, <2>5, <2>7, <3>1
    <3>3. c <= lo
      BY <2>1, <3>1, <3>2, MarksRise
    <3>4. QED
      BY <2>1, <2>2, <2>4, <2>5, <2>7, <3>3
  <2>8. QED
    BY <2>6, <2>7
<1>8. ASSUME NEW t \in U PROVE t \in S /\ t.memento <= c
  <2>1. PICK k \in 1 .. (i + 1) : \E n \in 1 .. Len(longer[k].parts) : t = longer[k].parts[n]
    BY <1>6, <1>8
  <2>2. PICK n \in 1 .. Len(longer[k].parts) : t = longer[k].parts[n]
    BY <2>1
  <2>3. k # i + 1
    BY <1>2, <2>2
  <2>4. k \in 1 .. i /\ k \in 1 .. Len(list)
    BY <1>1, <1>2, <2>3
  <2>5. longer[k] = list[k]
    BY <1>2, <2>4
  <2>6. QED
    BY <1>5, <1>7, <2>2, <2>4, <2>5
<1>9. ASSUME NEW t \in S, t.memento <= c PROVE t \in U
  <2>1. PICK k \in 1 .. Len(list) : \E n \in 1 .. Len(list[k].parts) : t = list[k].parts[n]
    BY <1>5, <1>9
  <2>2. PICK n \in 1 .. Len(list[k].parts) : t = list[k].parts[n]
    BY <2>1
  <2>3. k \in 1 .. i /\ k \in 1 .. (i + 1)
    BY <1>2, <1>7, <1>9, <2>2
  <2>4. longer[k] = list[k]
    BY <1>2, <2>3
  <2>5. QED
    BY <1>6, <2>2, <2>3, <2>4
<1>10. QED
  BY <1>3, <1>8, <1>9 DEF through

\* What is undone is forgotten: the story ends with memento c.
LEMMA StoryShortened ==
    ASSUME NEW S, NEW floor, NEW top, NEW W, story(S, floor, top, W),
           NEW c \in Nat, floor <= c, c <= top, NEW U, U = through(S, c)
    PROVE  story(U, floor, c, W)
<1>1. /\ W \in [Nat -> Images] /\ floor \in Nat /\ top \in Nat
      /\ singular(S, floor) /\ \A t \in S : tells(t, W)
      /\ \A n \in (floor + 1) .. top : (\A t \in S : t.memento # n) => W[n] = W[n - 1]
  BY DEF story
<1>2. singular(U, floor)
  BY <1>1 DEF singular, through
<1>3. ASSUME NEW n \in (floor + 1) .. c, \A t \in U : t.memento # n PROVE W[n] = W[n - 1]
  <2>1. n \in (floor + 1) .. top
    BY <1>1
  <2>2. \A t \in S : t.memento # n
    BY <1>3 DEF through
  <2>3. QED
    BY <1>1, <2>1, <2>2
<1>4. QED
  BY <1>1, <1>2, <1>3 DEF story, through

\* Devices at rest are at rest when what could be redone is forgotten.
LEMMA RestShortened ==
    ASSUME NEW managers, NEW D, NEW S, NEW c, NEW floor, NEW W, S \subseteq Transactions,
           atRest(managers, D, S, c, floor, W), NEW U, U = through(S, c)
    PROVE  atRest(managers, D, U, c, floor, W)
<1>1. /\ managers \in [Devices -> Managers] /\ D \subseteq Devices
      /\ c \in Nat /\ floor \in Nat /\ floor <= c
      /\ \A d \in D : kept(managers[d], ours(S, d), c, floor, W, W[c][d])
  BY DEF atRest
<1>2. ASSUME NEW d \in D PROVE kept(managers[d], ours(U, d), c, floor, W, W[c][d])
  <2>1. PICK m, T, X, w, R, C : m = managers[d] /\ T = ours(S, d) /\ X = ours(U, d) /\ w = W[c][d]
                                /\ R = m.m_revisions /\ C = m.m_cancelledRevisions
    OBVIOUS
  <2>2. behind(R, T, c, floor, W) /\ ahead(C, T, c, W) /\ calm(m, w)
    BY <1>1, <2>1 DEF kept
  <2>3. /\ T \subseteq Transactions /\ X \subseteq T
        /\ \A t \in X : t.memento <= c
        /\ \A t \in T : t.memento <= c => t \in X
    BY <2>1 DEF ours, through
  <2>4. behind(R, X, c, floor, W) /\ ahead(C, X, c, W)
    BY <1>1, <2>2, <2>3, DoneRemembered, RedoForgotten
  <2>5. QED
    BY <2>1, <2>2, <2>4 DEF kept
<1>3. QED
  BY <1>1, <1>2 DEF atRest

\* A device in the midst of a transaction remembers the same.
LEMMA BusyShortened ==
    ASSUME NEW m, NEW S, NEW d, NEW c \in Nat, NEW floor, NEW W, NEW w, NEW n, S \subseteq Transactions,
           busy(m, ours(S, d), c, floor, W, w, n), NEW U, U = through(S, c)
    PROVE  busy(m, ours(U, d), c, floor, W, w, n)
<1>1. PICK T, X, R : T = ours(S, d) /\ X = ours(U, d) /\ R = m.m_revisions
  OBVIOUS
<1>2. behind(R, T, c, floor, W)
  BY <1>1 DEF busy
<1>3. X \subseteq T /\ \A t \in T : t.memento <= c => t \in X
  BY <1>1 DEF ours, through
<1>4. behind(R, X, c, floor, W)
  BY <1>2, <1>3, DoneRemembered
<1>5. QED
  BY <1>1, <1>4 DEF busy

\* A command is begun when all devices are at rest, or when one is not.
LEMMA BeginsAt ==
    ASSUME NEW managers, NEW list, NEW mark, NEW i, NEW W, at(managers, list, mark, i, W),
           NEW longer, isBegun(list, i, longer), NEW more, isMarkedToo(mark, i, more), NEW j, j = i + 1
    PROVE  at(managers, longer, more, j, W)
<1>1. /\ marked(list, mark) /\ i \in 0 .. Len(list)
      /\ stands(managers, transactionsIn(list), mark[i], mark[0], mark[Len(list)], W)
  BY DEF at
<1>2. PICK S, U, c, floor, top : S = transactionsIn(list) /\ U = transactionsIn(longer) /\ c = mark[i]
                                 /\ floor = mark[0] /\ top = mark[Len(list)]
  OBVIOUS
<1>3. list \in Seq(Commands) /\ mark \in [Nat -> Nat] /\ Len(list) \in Nat
  BY <1>1, MarkedFields
<1>4. marked(longer, more) /\ U = through(S, c)
  BY <1>1, <1>2, BegunMarked, BegunSpells
<1>5. c \in Nat /\ floor \in Nat /\ floor <= c /\ c <= top
  <2>1. 0 \in 0 .. Len(list) /\ i \in 0 .. Len(list) /\ Len(list) \in i .. Len(list) /\ i \in Nat
    BY <1>1, <1>3
  <2>2. QED
    BY <1>1, <1>2, <1>3, <2>1, MarksRise
<1>6. story(S, floor, top, W) /\ atRest(managers, Devices, S, c, floor, W) /\ S \subseteq Transactions
  BY <1>1, <1>2 DEF stands, story, singular
<1>7. story(U, floor, c, W) /\ atRest(managers, Devices, U, c, floor, W)
  BY <1>4, <1>5, <1>6, StoryShortened, RestShortened
<1>8. Len(longer) = j /\ j \in 0 .. Len(longer) /\ more[0] = floor /\ more[j] = c
  BY <1>1, <1>2, <1>3 DEF isBegun, isMarkedToo
<1>9. QED
  BY <1>2, <1>4, <1>7, <1>8 DEF at, stands

\* A transaction that is open stays so when its command is put into the list.
LEMMA BeginsPainted ==
    ASSUME NEW managers, NEW list, NEW mark, NEW i, NEW W, NEW d, NEW n,
           painted(managers, list, mark, i, W, d, n),
           NEW longer, isBegun(list, i, longer), NEW more, isMarkedToo(mark, i, more), NEW j, j = i + 1
    PROVE  painted(managers, longer, more, j, W, d, n)
<1>1. /\ marked(list, mark) /\ i \in 0 .. Len(list)
      /\ underway(managers, d, transactionsIn(list), mark[i], mark[0], mark[Len(list)], W, n)
  BY DEF painted
<1>2. PICK S, U, c, floor, top, D : S = transactionsIn(list) /\ U = transactionsIn(longer) /\ c = mark[i]
                                 /\ floor = mark[0] /\ top = mark[Len(list)] /\ D = Devices \ {d}
  OBVIOUS
<1>3. list \in Seq(Commands) /\ mark \in [Nat -> Nat] /\ Len(list) \in Nat
  BY <1>1, MarkedFields
<1>4. marked(longer, more) /\ U = through(S, c)
  BY <1>1, <1>2, BegunMarked, BegunSpells
<1>5. c \in Nat /\ floor \in Nat /\ floor <= c /\ c <= top
  <2>1. 0 \in 0 .. Len(list) /\ i \in 0 .. Len(list) /\ Len(list) \in i .. Len(list) /\ i \in Nat
    BY <1>1, <1>3
  <2>2. QED
    BY <1>1, <1>2, <1>3, <2>1, MarksRise
<1>6. /\ story(S, floor, top, W) /\ atRest(managers, D, S, c, floor, W) /\ S \subseteq Transactions
      /\ d \in Devices /\ n \in Nat /\ top < n /\ c <= top
      /\ busy(managers[d], ours(S, d), c, floor, W, W[c][d], n)
  BY <1>1, <1>2 DEF underway, story, singular
<1>7. story(U, floor, c, W) /\ atRest(managers, D, U, c, floor, W)
  BY <1>4, <1>5, <1>6, StoryShortened, RestShortened
<1>8. busy(managers[d], ours(U, d), c, floor, W, W[c][d], n)
  BY <1>4, <1>5, <1>6, BusyShortened
<1>9. Len(longer) = j /\ j \in 0 .. Len(longer) /\ more[0] = floor /\ more[j] = c
  BY <1>1, <1>2, <1>3 DEF isBegun, isMarkedToo
<1>10. c < n
  <2>1. top \in Nat
    BY <1>6 DEF story
  <2>2. QED
    BY <1>5, <1>6, <2>1
<1>11. QED
  BY <1>2, <1>4, <1>5, <1>6, <1>7, <1>8, <1>9, <1>10 DEF painted, underway

\* A transaction begins on one of the devices.
opensOn(managers, list, mark, i, W, d, n) ==
    /\ painted(managers, list, mark, i, W, d, n)
    /\ managers[d].m_defaultPixel = W[mark[i]][d].defaultPixel

\* getMemento() on one device opens a transaction there and leaves the others at rest.
LEMMA PaintingStarts ==
    ASSUME NEW managers, NEW list, NEW mark, NEW i, NEW W, at(managers, list, mark, i, W),
           NEW d \in Devices, NEW n \in Nat, mark[Len(list)] < n,
           NEW g, g = getMemento(managers[d], n), NEW after, after = [managers EXCEPT ![d] = g]
    PROVE  opensOn(after, list, mark, i, W, d, n)
<1>1. /\ marked(list, mark) /\ i \in 0 .. Len(list)
      /\ stands(managers, transactionsIn(list), mark[i], mark[0], mark[Len(list)], W)
  BY DEF at
<1>2. PICK S, c, floor, top, D : S = transactionsIn(list) /\ c = mark[i]
                                 /\ floor = mark[0] /\ top = mark[Len(list)] /\ D = Devices \ {d}
  OBVIOUS
<1>3. /\ story(S, floor, top, W) /\ S \subseteq Transactions
      /\ managers \in [Devices -> Managers]
      /\ c \in Nat /\ floor \in Nat /\ floor <= c
      /\ \A e \in Devices : kept(managers[e], ours(S, e), c, floor, W, W[c][e])
  BY <1>1, <1>2 DEF stands, story, singular, atRest
<1>4. PICK m, T, w : m = managers[d] /\ T = ours(S, d) /\ w = W[c][d]
  OBVIOUS
<1>5. m \in Managers /\ T \subseteq Transactions /\ kept(m, T, c, floor, W, w)
  BY <1>3, <1>4 DEF ours
<1>6. begins(g, T, c, floor, W, w, n)
  BY <1>3, <1>4, <1>5, StartedDevice
<1>7. g \in Managers /\ busy(g, T, c, floor, W, w, n) /\ g.m_defaultPixel = w.defaultPixel
  BY <1>6 DEF begins
<1>8. after \in [Devices -> Managers] /\ after[d] = g /\ \A e \in D : after[e] = managers[e]
  BY <1>2, <1>3, <1>7
<1>9. atRest(after, D, S, c, floor, W)
  BY <1>2, <1>3, <1>8 DEF atRest
<1>10. c <= top
  <2>1. Len(list) \in Nat
    BY <1>1, MarkedFields
  <2>2. i \in 0 .. Len(list) /\ Len(list) \in i .. Len(list)
    BY <1>1, <2>1
  <2>3. QED
    BY <1>1, <1>2, <2>2, MarksRise
<1>11. underway(after, d, S, c, floor, top, W, n)
  BY <1>2, <1>3, <1>4, <1>7, <1>8, <1>9, <1>10 DEF underway
<1>12. QED
  BY <1>1, <1>2, <1>4, <1>7, <1>8, <1>11 DEF opensOn, painted

\* It goes on.
LEMMA PaintingGoesOn ==
    ASSUME NEW managers, NEW list, NEW mark, NEW i, NEW W, NEW d, NEW n,
           painted(managers, list, mark, i, W, d, n),
           NEW x \in Changes(managers[d]), NEW after, after = [managers EXCEPT ![d] = x]
    PROVE  painted(after, list, mark, i, W, d, n)
<1>1. /\ marked(list, mark) /\ i \in 0 .. Len(list)
      /\ underway(managers, d, transactionsIn(list), mark[i], mark[0], mark[Len(list)], W, n)
  BY DEF painted
<1>2. PICK S, c, floor, top, D : S = transactionsIn(list) /\ c = mark[i]
                                 /\ floor = mark[0] /\ top = mark[Len(list)] /\ D = Devices \ {d}
  OBVIOUS
<1>3. /\ story(S, floor, top, W) /\ atRest(managers, D, S, c, floor, W)
      /\ d \in Devices /\ n \in Nat /\ top < n /\ c <= top
      /\ busy(managers[d], ours(S, d), c, floor, W, W[c][d], n)
      /\ managers \in [Devices -> Managers]
  BY <1>1, <1>2 DEF underway, atRest
<1>4. PICK m, T, w : m = managers[d] /\ T = ours(S, d) /\ w = W[c][d]
  OBVIOUS
<1>5. m \in Managers /\ x \in Changes(m) /\ busy(m, T, c, floor, W, w, n)
  BY <1>3, <1>4
<1>6. busy(x, T, c, floor, W, w, n)
  BY <1>5, PaintedDevice
<1>7. x \in Managers
  BY <1>5, ChangesTyped
<1>8. after \in [Devices -> Managers] /\ after[d] = x /\ \A e \in D : after[e] = managers[e]
  BY <1>2, <1>3, <1>7
<1>9. atRest(after, D, S, c, floor, W)
  BY <1>2, <1>3, <1>8 DEF atRest
<1>10. underway(after, d, S, c, floor, top, W, n)
  BY <1>2, <1>3, <1>4, <1>6, <1>8, <1>9 DEF underway
<1>11. QED
  BY <1>1, <1>2, <1>10 DEF painted

\* It is taken back: nothing that can be redone is on its device.
LEMMA PaintingReverted ==
    ASSUME NEW managers, NEW list, NEW mark, NEW i, NEW W, NEW d, NEW n,
           painted(managers, list, mark, i, W, d, n),
           \A s \in transactionsIn(list) : s.device = d => s.memento <= mark[i],
           NEW t \in Transactions, t.memento = n, t.device = d,
           t.oldDefaultPixel = W[mark[i]][d].defaultPixel,
           NEW r, r = setDefaultPixel(rollback(commit(managers[d])), t.oldDefaultPixel),
           NEW z, z = purgeHistory(r, n), NEW after, after = [managers EXCEPT ![d] = z]
    PROVE  at(after, list, mark, i, W)
<1>1. /\ marked(list, mark) /\ i \in 0 .. Len(list)
      /\ underway(managers, d, transactionsIn(list), mark[i], mark[0], mark[Len(list)], W, n)
  BY DEF painted
<1>2. PICK S, c, floor, top, D : S = transactionsIn(list) /\ c = mark[i]
                                 /\ floor = mark[0] /\ top = mark[Len(list)] /\ D = Devices \ {d}
  OBVIOUS
<1>3. /\ story(S, floor, top, W) /\ d \in Devices /\ n \in Nat /\ top < n /\ c <= top
      /\ busy(managers[d], ours(S, d), c, floor, W, W[c][d], n)
      /\ managers \in [Devices -> Managers] /\ c \in Nat /\ floor \in Nat /\ floor <= c
      /\ \A e \in D : kept(managers[e], ours(S, e), c, floor, W, W[c][e])
  BY <1>1, <1>2 DEF underway, atRest
<1>4. W \in [Nat -> Images] /\ singular(S, floor) /\ top \in Nat
  BY <1>3 DEF story
<1>5. PICK m, T, w : m = managers[d] /\ T = ours(S, d) /\ w = W[c][d]
  OBVIOUS
<1>6. m \in Managers /\ singular(T, floor) /\ busy(m, T, c, floor, W, w, n)
  BY <1>3, <1>4, <1>5, OursAlone
<1>7. \A s \in T : s.memento <= c
  BY <1>2, <1>5 DEF ours
<1>8. w.tiles \in Contents /\ w.defaultPixel = t.oldDefaultPixel
  BY <1>2, <1>3, <1>4, <1>5, WorldTyped
<1>9. c < n
  BY <1>3, <1>4
<1>10. r = setDefaultPixel(rollback(commit(m)), t.oldDefaultPixel)
  BY <1>5
<1>11. rests(z, T, c, floor, W, w)
  BY <1>3, <1>4, <1>5, <1>6, <1>7, <1>8, <1>9, <1>10, RevertedDevice
<1>12. z \in Managers /\ kept(z, T, c, floor, W, w)
  BY <1>11 DEF rests
<1>13. after \in [Devices -> Managers] /\ after[d] = z /\ \A e \in D : after[e] = managers[e]
  BY <1>2, <1>3, <1>12
<1>14. atRest(after, Devices, S, c, floor, W)
  BY <1>2, <1>3, <1>5, <1>12, <1>13 DEF atRest
<1>15. QED
  BY <1>1, <1>2, <1>3, <1>14 DEF at, stands

\* The transaction is a part of the last command.
isFilled(list, t, longer) ==
    /\ longer \in Seq(Commands) /\ Len(longer) = Len(list) /\ Len(list) \in Nat /\ Len(list) > 0
    /\ \A k \in 1 .. (Len(list) - 1) : longer[k] = list[k]
    /\ longer[Len(list)].parts = Append(list[Len(list)].parts, t)
    /\ longer[Len(list)].saved => Len(longer[Len(list)].parts) = 1
isMarkedLast(mark, i, n, more) ==
    /\ more \in [Nat -> Nat] /\ \A k \in 0 .. (i - 1) : more[k] = mark[k]
    /\ more[i] = n

\* The command gets its transaction, and the transaction's memento as its mark.
LEMMA FilledMarked ==
    ASSUME NEW list, NEW mark, marked(list, mark), NEW t \in Transactions,
           NEW longer, isFilled(list, t, longer), NEW n, t.memento = n, mark[Len(list)] < n,
           NEW more, isMarkedLast(mark, Len(list), n, more)
    PROVE  marked(longer, more) /\ transactionsIn(longer) = transactionsIn(list) \cup {t}
<1>0. PICK i : i = Len(list)
  OBVIOUS
<1>1. /\ list \in Seq(Commands) /\ mark \in [Nat -> Nat] /\ i \in Nat
      /\ \A k \in 1 .. i : mark[k - 1] <= mark[k]
      /\ \A k \in 1 .. i : inOrder(list[k].parts, mark[k - 1], mark[k])
      /\ \A k \in 1 .. i : list[k].saved => Len(list[k].parts) = 1
  BY <1>0, MarkedFields
<1>2. /\ longer \in Seq(Commands) /\ Len(longer) = i /\ i > 0
      /\ \A k \in 1 .. (i - 1) : longer[k] = list[k]
      /\ longer[i].parts = Append(list[i].parts, t)
      /\ longer[i].saved => Len(longer[i].parts) = 1
  BY <1>0 DEF isFilled
<1>3. /\ more \in [Nat -> Nat] /\ \A k \in 0 .. (i - 1) : more[k] = mark[k]
      /\ more[i] = n
  BY <1>0 DEF isMarkedLast
<1>4. PICK ts, us, last, lo, hi : ts = list[i].parts /\ us = longer[i].parts /\ last = Len(ts)
                                  /\ lo = mark[i - 1] /\ hi = mark[i]
  OBVIOUS
<1>5. i \in 1 .. i /\ i - 1 \in 0 .. (i - 1) /\ i - 1 \in Nat
  BY <1>1, <1>2
<1>6. ts \in Seq(Transactions)
  <2>1. PICK command : command = list[i]
    OBVIOUS
  <2>2. command \in Commands
    BY <1>0, <1>1, <1>5, <2>1
  <2>3. command.parts \in Seq(Transactions)
    BY <2>2, CommandFields
  <2>4. QED
    BY <1>4, <2>1, <2>3
<1>7. /\ last \in Nat /\ us \in Seq(Transactions) /\ Len(us) = last + 1 /\ us[last + 1] = t
      /\ \A k \in 1 .. last : us[k] = ts[k]
  BY <1>2, <1>4, <1>6
<1>8. hi < n /\ n \in Nat /\ lo \in Nat /\ hi \in Nat /\ lo <= hi
  BY <1>0, <1>1, <1>4, <1>5, TransactionFields
<1>9. /\ \A k \in 1 .. last : lo < ts[k].memento /\ ts[k].memento <= hi /\ ts[k].memento \in Nat
      /\ \A k, l \in 1 .. last : k < l => ts[k].memento < ts[l].memento
  <2>1. inOrder(ts, lo, hi)
    BY <1>1, <1>4, <1>5
  <2>2. \A k \in 1 .. last : ts[k] \in Transactions
    BY <1>4, <1>6, <1>7
  <2>3. \A k \in 1 .. last : ts[k].memento \in Nat
    BY <2>2, TransactionFields
  <2>4. QED
    BY <1>4, <2>1, <2>3 DEF inOrder
<1>10. inOrder(us, lo, n)
  <2>1. ASSUME NEW k \in 1 .. (last + 1) PROVE lo < us[k].memento /\ us[k].memento <= n
    <3>1. CASE k = last + 1
      BY <1>7, <1>8, <3>1
    <3>2. CASE k # last + 1
      <4>1. k \in 1 .. last
        BY <1>7, <3>2
      <4>2. us[k] = ts[k]
        BY <1>7, <4>1
      <4>3. QED
        BY <1>8, <1>9, <4>1, <4>2
    <3>3. QED
      BY <3>1, <3>2
  <2>2. ASSUME NEW k \in 1 .. (last + 1), NEW l \in 1 .. (last + 1), k < l
        PROVE  us[k].memento < us[l].memento
    <3>1. k \in 1 .. last
      BY <1>7, <2>2
    <3>2. us[k] = ts[k]
      BY <1>7, <3>1
    <3>3. CASE l = last + 1
      BY <1>7, <1>8, <1>9, <3>1, <3>2, <3>3
    <3>4. CASE l # last + 1
      <4>1. l \in 1 .. last
        BY <1>7, <3>4
      <4>2. us[l] = ts[l]
        BY <1>7, <4>1
      <4>3. QED
        BY <1>9, <2>2, <3>1, <3>2, <4>1, <4>2
    <3>5. QED
      BY <3>3, <3>4
  <2>3. QED
    BY <1>7, <2>1, <2>2 DEF inOrder
<1>11. marked(longer, more)
  <2>1. ASSUME NEW k \in 1 .. i
        PROVE  /\ more[k - 1] <= more[k] /\ inOrder(longer[k].parts, more[k - 1], more[k])
               /\ longer[k].saved => Len(longer[k].parts) = 1
    <3>1. CASE k = i
      <4>1. more[k - 1] = lo /\ more[k] = n
        BY <1>3, <1>4, <1>5, <3>1
      <4>2. lo <= n
        BY <1>8
      <4>3. inOrder(longer[k].parts, more[k - 1], more[k])
        BY <1>4, <1>10, <3>1, <4>1
      <4>4. longer[k].saved => Len(longer[k].parts) = 1
        BY <1>2, <3>1
      <4>5. QED
        BY <4>1, <4>2, <4>3, <4>4
    <3>2. CASE k # i
      <4>1. PICK b : b = k - 1
        OBVIOUS
      <4>2. b \in 0 .. (i - 1) /\ k \in 0 .. (i - 1) /\ k \in 1 .. (i - 1)
        BY <1>1, <3>2, <4>1
      <4>3. more[b] = mark[b] /\ more[k] = mark[k] /\ longer[k] = list[k]
        BY <1>2, <1>3, <4>2
      <4>4. mark[b] <= mark[k] /\ inOrder(list[k].parts, mark[b], mark[k])
            /\ (list[k].saved => Len(list[k].parts) = 1)
        BY <1>1, <4>1
      <4>5. QED
        BY <4>1, <4>3, <4>4
    <3>3. QED
      BY <3>1, <3>2
  <2>2. QED
    BY <1>2, <1>3, <2>1 DEF marked
<1>12. transactionsIn(longer) = transactionsIn(list) \cup {t}
  <2>1. PICK S, U : S = transactionsIn(list) /\ U = transactionsIn(longer)
    OBVIOUS
  <2>2. spells(list, S) /\ spells(longer, U)
    BY <1>1, <1>2, <2>1, TransactionsIn
  <2>3. \A s : s \in S <=> \E k \in 1 .. i : \E j \in 1 .. Len(list[k].parts) : s = list[k].parts[j]
    BY <1>0, <2>2 DEF spells
  <2>4. \A s : s \in U <=> \E k \in 1 .. i : \E j \in 1 .. Len(longer[k].parts) : s = longer[k].parts[j]
    BY <1>2, <2>2 DEF spells
  <2>5. ASSUME NEW s \in U PROVE s \in S \/ s = t
    <3>1. PICK k \in 1 .. i : \E j \in 1 .. Len(longer[k].parts) : s = longer[k].parts[j]
      BY <2>4, <2>5
    <3>2. PICK j \in 1 .. Len(longer[k].parts) : s = longer[k].parts[j]
      BY <3>1
    <3>3. CASE k = i
      <4>1. j \in 1 .. (last + 1) /\ s = us[j]
        BY <1>4, <1>7, <3>2, <3>3
      <4>2. j = last + 1 \/ j \in 1 .. last
        BY <1>7, <4>1
      <4>3. CASE j \in 1 .. last
        <5>1. s = ts[j]
          BY <1>7, <4>1, <4>3
        <5>2. QED
          BY <1>4, <2>3, <4>3, <5>1, <3>3
      <4>4. QED
        BY <1>7, <4>1, <4>2, <4>3
    <3>4. CASE k # i
      <4>1. k \in 1 .. (i - 1)
        BY <1>1, <3>4
      <4>2. longer[k] = list[k]
        BY <1>2, <4>1
      <4>3. QED
        BY <2>3, <3>2, <4>2
    <3>5. QED
      BY <3>3, <3>4
  <2>6. t \in U
    <3>1. last + 1 \in 1 .. Len(us) /\ us[last + 1] = t
      BY <1>7
    <3>2. QED
      BY <1>4, <1>5, <2>4, <3>1
  <2>7. ASSUME NEW s \in S PROVE s \in U
    <3>1. PICK k \in 1 .. i : \E j \in 1 .. Len(list[k].parts) : s = list[k].parts[j]
      BY <2>3, <2>7
    <3>2. PICK j \in 1 .. Len(list[k].parts) : s = list[k].parts[j]
      BY <3>1
    <3>3. CASE k = i
      <4>1. j \in 1 .. last /\ s = ts[j]
        BY <1>4, <3>2, <3>3
      <4>2. j \in 1 .. Len(us) /\ us[j] = ts[j]
        BY <1>7, <4>1
      <4>3. QED
        BY <1>4, <2>4, <4>1, <4>2, <3>3
    <3>4. CASE k # i
      <4>1. k \in 1 .. (i - 1)
        BY <1>1, <3>4
      <4>2. longer[k] = list[k]
        BY <1>2, <4>1
      <4>3. QED
        BY <2>4, <3>2, <4>2
    <3>5. QED
      BY <3>3, <3>4
  <2>8. QED
    BY <2>1, <2>5, <2>6, <2>7
<1>13. QED
  BY <1>11, <1>12

\* Where the list leads is where the devices are, whatever was known before.
continues(after, list, mark, W, now, old, c) ==
    /\ at(after, list, mark, Len(list), W)
    /\ agree(W, old, c) /\ W[mark[Len(list)]] = now

\* commit() puts the devices at the end of the list that the transaction was added to.
LEMMA PaintingConcludes ==
    ASSUME NEW managers, NEW list, NEW mark, NEW i, i = Len(list), NEW W, NEW d, NEW n,
           painted(managers, list, mark, i, W, d, n),
           NEW c, c = mark[i],
           NEW t, concludes(t, managers, d, c, W, n),
           NEW longer, isFilled(list, t, longer), NEW more, isMarkedLast(mark, i, n, more),
           NEW after, after = [managers EXCEPT ![d] = commit(@)]
    PROVE  \E V : continues(after, longer, more, V, imageOf(after), W, c)
<1>1. /\ marked(list, mark) /\ i \in 0 .. Len(list)
      /\ underway(managers, d, transactionsIn(list), mark[i], mark[0], mark[Len(list)], W, n)
  BY DEF painted
<1>2. PICK S, floor : S = transactionsIn(list) /\ floor = mark[0]
  OBVIOUS
<1>3. underway(managers, d, S, c, floor, c, W, n)
  BY <1>1, <1>2
<1>4. story(S, floor, c, W) /\ c < n
  BY <1>3 DEF underway
<1>5. \A s \in S : s.memento <= c
  BY <1>4 DEF story
<1>6. PICK U : U = S \cup {t}
  OBVIOUS
<1>7. PICK V : stands(after, U, n, floor, n, V) /\ agree(V, W, c) /\ V[n] = imageOf(after)
  <2>1. \E V : carriesOn(after, U, n, floor, W, c, V)
    BY ZenonT(60), <1>3, <1>5, <1>6, TransactionAdded
  <2>2. QED
    BY <2>1 DEF carriesOn
<1>8. t \in Transactions /\ t.memento = n
  BY DEF concludes
<1>9. mark[Len(list)] < n
  BY <1>4
<1>10. marked(longer, more) /\ transactionsIn(longer) = U
  BY <1>1, <1>2, <1>6, <1>8, <1>9, FilledMarked
<1>11. /\ Len(longer) = i /\ i \in Nat /\ i > 0 /\ more[0] = floor /\ more[i] = n
  <2>1. Len(longer) = i /\ i \in Nat /\ i > 0
    BY DEF isFilled
  <2>2. 0 \in 0 .. (i - 1)
    BY <2>1
  <2>3. QED
    BY <1>2, <2>1, <2>2 DEF isMarkedLast
<1>12. at(after, longer, more, Len(longer), V)
  BY <1>7, <1>10, <1>11 DEF at
<1>13. QED
  BY <1>7, <1>11, <1>12 DEF continues

\* Commands that no device knows of are deleted without a trace.
LEMMA TailDeleted ==
    ASSUME NEW managers, NEW list, NEW mark, NEW i, NEW W, at(managers, list, mark, i, W),
           NEW tail \in Seq(Commands),
           \A t \in transactionsIn(tail) :
               /\ mark[0] < t.memento
               /\ \A s \in transactionsIn(list) : s.memento <= mark[i] => s.memento # t.memento
    PROVE  deleted(managers, tail) = managers
<1>1. /\ marked(list, mark) /\ i \in 0 .. Len(list)
      /\ stands(managers, transactionsIn(list), mark[i], mark[0], mark[Len(list)], W)
  BY DEF at
<1>2. PICK S, c, floor, top : S = transactionsIn(list) /\ c = mark[i]
                              /\ floor = mark[0] /\ top = mark[Len(list)]
  OBVIOUS
<1>3. /\ S \subseteq Transactions /\ managers \in [Devices -> Managers]
      /\ floor \in Nat
      /\ \A e \in Devices : kept(managers[e], ours(S, e), c, floor, W, W[c][e])
  BY <1>1, <1>2 DEF stands, story, singular, atRest
<1>4. ASSUME NEW t \in transactionsIn(tail) PROVE unknown(managers[t.device], t.memento)
  <2>1. t \in Transactions
    <3>1. spells(tail, transactionsIn(tail))
      BY TransactionsIn
    <3>2. QED
      BY <3>1 DEF spells
  <2>2. t.device \in Devices /\ t.memento \in 1 .. MaxTransactions /\ t.memento \in Nat
    BY <2>1, TransactionFields
  <2>3. PICK d, m, T, w, R : d = t.device /\ m = managers[d] /\ T = ours(S, d) /\ w = W[c][d]
                             /\ R = m.m_revisions
    OBVIOUS
  <2>4. m \in Managers /\ behind(R, T, c, floor, W) /\ calm(m, w)
    BY <1>3, <2>2, <2>3 DEF kept
  <2>5. m.m_currentMemento # t.memento
    BY <2>2, <2>4 DEF calm, NoMemento
  <2>6. R \in Seq(Revisions)
    BY <2>3, <2>4, ManagerFields
  <2>7. \A k \in 1 .. Len(R) : R[k].memento \in Nat
    BY <2>6, Mementos
  <2>8. ASSUME NEW k \in 1 .. Len(R) PROVE R[k].memento # t.memento
    <3>1. R[k].memento <= floor \/ \E s \in T : s.memento <= c /\ R[k].memento = s.memento
      BY <2>4 DEF behind
    <3>2. floor < t.memento /\ \A s \in T : s.memento <= c => s.memento # t.memento
      BY <1>2, <2>3 DEF ours
    <3>3. QED
      BY <1>3, <2>2, <2>7, <3>1, <3>2
  <2>9. QED
    BY <2>3, <2>5, <2>8 DEF unknown
<1>5. QED
  BY <1>3, <1>4, DeletedNothing

\* The oldest commands go.
isShifted(mark, e, more) == more \in [Nat -> Nat] /\ \A k \in Nat : more[k] = mark[k + e]

\* Without its oldest commands, a list has the later transactions and is marked.
LEMMA ShiftedMarked ==
    ASSUME NEW list, NEW mark, marked(list, mark), NEW e \in 0 .. Len(list),
           NEW rest, isTail(Commands, list, e, rest), NEW more, isShifted(mark, e, more),
           NEW f, f = mark[e]
    PROVE  /\ marked(rest, more)
           /\ transactionsIn(rest) = later(transactionsIn(list), f)
<1>0. PICK i : i = Len(list)
  OBVIOUS
<1>1. /\ list \in Seq(Commands) /\ mark \in [Nat -> Nat] /\ i \in Nat /\ e \in Nat /\ e <= i
      /\ \A k \in 1 .. i : mark[k - 1] <= mark[k]
      /\ \A k \in 1 .. i : inOrder(list[k].parts, mark[k - 1], mark[k])
      /\ \A k \in 1 .. i : list[k].saved => Len(list[k].parts) = 1
  <2>1. /\ list \in Seq(Commands) /\ mark \in [Nat -> Nat] /\ i \in Nat
        /\ \A k \in 1 .. i : mark[k - 1] <= mark[k]
        /\ \A k \in 1 .. i : inOrder(list[k].parts, mark[k - 1], mark[k])
        /\ \A k \in 1 .. i : list[k].saved => Len(list[k].parts) = 1
    BY <1>0, MarkedFields
  <2>2. e \in Nat /\ e <= i
    BY <1>0, <2>1
  <2>3. QED
    BY <2>1, <2>2
<1>2. /\ rest \in Seq(Commands) /\ Len(rest) = i - e
      /\ \A k \in 1 .. (i - e) : rest[k] = list[k + e]
  BY <1>0 DEF isTail
<1>3. more \in [Nat -> Nat] /\ \A k \in Nat : more[k] = mark[k + e]
  BY DEF isShifted
<1>4. marked(rest, more)
  <2>1. ASSUME NEW k \in 1 .. (i - e)
        PROVE  /\ more[k - 1] <= more[k] /\ inOrder(rest[k].parts, more[k - 1], more[k])
               /\ rest[k].saved => Len(rest[k].parts) = 1
    <3>1. PICK b, j, h : b = k - 1 /\ j = k + e /\ h = j - 1
      OBVIOUS
    <3>2. b \in Nat /\ k \in Nat /\ j \in 1 .. i /\ h = b + e
      BY <1>1, <3>1
    <3>3. more[b] = mark[h] /\ more[k] = mark[j] /\ rest[k] = list[j]
      BY <1>2, <1>3, <3>1, <3>2
    <3>4. mark[h] <= mark[j] /\ inOrder(list[j].parts, mark[h], mark[j])
          /\ (list[j].saved => Len(list[j].parts) = 1)
      BY <1>1, <3>1, <3>2
    <3>5. QED
      BY <3>1, <3>3, <3>4
  <2>2. QED
    BY <1>2, <1>3, <2>1 DEF marked
<1>5. PICK S, U : S = transactionsIn(list) /\ U = transactionsIn(rest)
  OBVIOUS
<1>6. spells(list, S) /\ spells(rest, U)
  BY <1>1, <1>2, <1>5, TransactionsIn
<1>7. \A s : s \in S <=> \E k \in 1 .. i : \E n \in 1 .. Len(list[k].parts) : s = list[k].parts[n]
  BY <1>0, <1>6 DEF spells
<1>8. \A s : s \in U <=> \E k \in 1 .. (i - e) : \E n \in 1 .. Len(rest[k].parts) : s = rest[k].parts[n]
  BY <1>2, <1>6 DEF spells
<1>9. ASSUME NEW k \in 1 .. i, NEW n \in 1 .. Len(list[k].parts)
      PROVE  f < list[k].parts[n].memento <=> e < k
  <2>1. PICK lo, hi, ts, t : lo = mark[k - 1] /\ hi = mark[k] /\ ts = list[k].parts /\ t = ts[n]
    OBVIOUS
  <2>2. lo < t.memento /\ t.memento <= hi
    BY <1>1, <1>9, <2>1 DEF inOrder
  <2>3. t \in Transactions
    BY <1>7, <1>5, <1>6, <2>1 DEF spells
  <2>4. t.memento \in Nat
    BY <2>3, TransactionFields
  <2>5. k - 1 \in Nat /\ k \in Nat /\ lo \in Nat /\ hi \in Nat /\ f \in Nat
    BY <1>1, <2>1
  <2>6. CASE k <= e
    <3>1. hi <= f
      <4>1. k \in 0 .. Len(list) /\ e \in k .. Len(list)
        BY <1>0, <1>1, <2>5, <2>6
      <4>2. QED
        BY <2>1, <4>1, MarksRise
    <3>2. ~(f < t.memento)
      BY <2>2, <2>4, <2>5, <3>1
    <3>3. ~(e < k)
      BY <1>1, <2>5, <2>6
    <3>4. QED
      BY <2>1, <3>2, <3>3
  <2>7. CASE ~(k <= e)
    <3>1. PICK b : b = k - 1
      OBVIOUS
    <3>2. b \in e .. Len(list)
      BY <1>0, <1>1, <2>5, <2>7, <3>1
    <3>3. f <= lo
      BY <2>1, <3>1, <3>2, MarksRise
    <3>4. f < t.memento
      BY <2>2, <2>4, <2>5, <3>3
    <3>5. e < k
      BY <1>1, <2>5, <2>7
    <3>6. QED
      BY <2>1, <3>4, <3>5
  <2>8. QED
    BY <2>6, <2>7
<1>10. ASSUME NEW t \in U PROVE t \in S /\ f < t.memento
  <2>1. PICK k \in 1 .. (i - e) : \E n \in 1 .. Len(rest[k].parts) : t = rest[k].parts[n]
    BY <1>8, <1>10
  <2>2. PICK n \in 1 .. Len(rest[k].parts) : t = rest[k].parts[n]
    BY <2>1
  <2>3. PICK j : j = k + e
    OBVIOUS
  <2>4. j \in 1 .. i /\ e < j
    BY <1>1, <2>3
  <2>5. rest[k] = list[j]
    BY <1>2, <2>3
  <2>6. QED
    BY <1>7, <1>9, <2>2, <2>4, <2>5
<1>11. ASSUME NEW t \in S, f < t.memento PROVE t \in U
  <2>1. PICK k \in 1 .. i : \E n \in 1 .. Len(list[k].parts) : t = list[k].parts[n]
    BY <1>7, <1>11
  <2>2. PICK n \in 1 .. Len(list[k].parts) : t = list[k].parts[n]
    BY <2>1
  <2>3. e < k
    BY <1>9, <1>11, <2>2
  <2>4. PICK j : j = k - e
    OBVIOUS
  <2>5. j \in 1 .. (i - e) /\ j + e = k
    BY <1>1, <2>3, <2>4
  <2>6. rest[j] = list[k]
    BY <1>2, <2>5
  <2>7. QED
    BY <1>8, <2>2, <2>5, <2>6
<1>12. QED
  BY <1>4, <1>5, <1>10, <1>11 DEF later

\* Deleting the oldest commands purges their revisions: the devices stay where they are.
LEMMA OldestGone ==
    ASSUME NEW managers, NEW list, NEW mark, NEW i, NEW W, at(managers, list, mark, i, W),
           NEW e \in 0 .. i, NEW oldest, isHead(Commands, list, e, oldest),
           NEW rest, isTail(Commands, list, e, rest), NEW more, isShifted(mark, e, more),
           NEW j, j = i - e, NEW after, after = deleted(managers, oldest)
    PROVE  at(after, rest, more, j, W)
<1>1. /\ marked(list, mark) /\ i \in 0 .. Len(list)
      /\ stands(managers, transactionsIn(list), mark[i], mark[0], mark[Len(list)], W)
  BY DEF at
<1>2. PICK S, c, floor, top, f, n : S = transactionsIn(list) /\ c = mark[i] /\ n = Len(list)
                              /\ floor = mark[0] /\ top = mark[n] /\ f = mark[e]
  OBVIOUS
<1>3. n \in Nat /\ i \in 0 .. n /\ i \in Nat /\ e \in Nat /\ e <= i /\ mark \in [Nat -> Nat]
  <2>1. Len(list) \in Nat /\ mark \in [Nat -> Nat]
    BY <1>1, MarkedFields
  <2>2. i \in Nat /\ i \in 0 .. Len(list)
    BY <1>1, <2>1
  <2>3. e \in Nat /\ e <= i
    BY <2>2
  <2>4. QED
    BY <1>2, <2>1, <2>2, <2>3
<1>4. c \in Nat /\ f <= c
  <2>1. e \in 0 .. Len(list) /\ i \in e .. Len(list)
    BY <1>2, <1>3
  <2>2. QED
    BY <1>1, <1>2, <1>3, <2>1, MarksRise
<1>5. PICK U : U = later(S, f)
  OBVIOUS
<1>6. e \in 0 .. Len(list) /\ stands(managers, S, c, floor, top, W)
  BY <1>1, <1>2, <1>3
<1>7. stands(after, U, c, f, top, W)
  <2>1. marked(list, mark)
    BY <1>1
  <2>2. S = transactionsIn(list) /\ floor = mark[0] /\ f = mark[e]
    BY <1>2
  <2>3. QED
    BY <1>4, <1>5, <1>6, <2>1, <2>2, CommandsDeleted
<1>8. marked(rest, more) /\ transactionsIn(rest) = U
  BY <1>1, <1>2, <1>5, <1>6, ShiftedMarked
<1>9. /\ Len(rest) = n - e /\ j \in 0 .. Len(rest)
      /\ more[j] = c /\ more[0] = f /\ more[Len(rest)] = top
  <2>1. Len(rest) = n - e
    BY <1>2 DEF isTail
  <2>2. PICK k : k = n - e
    OBVIOUS
  <2>3. k \in Nat /\ j \in Nat /\ 0 \in Nat /\ k + e = n /\ j + e = i /\ 0 + e = e /\ j \in 0 .. k
    BY <1>3, <2>2
  <2>4. \A x \in Nat : more[x] = mark[x + e]
    BY DEF isShifted
  <2>5. more[k] = mark[n] /\ more[j] = mark[i] /\ more[0] = mark[e]
    <3>1. more[k] = mark[k + e] /\ more[j] = mark[j + e] /\ more[0] = mark[0 + e]
      BY <2>3, <2>4
    <3>2. QED
      BY <2>3, <3>1
  <2>6. QED
    BY <1>2, <2>1, <2>2, <2>3, <2>5
<1>10. QED
  BY <1>7, <1>8, <1>9 DEF at

-----------------------------------------------------------------------------
(***************************************************************************)
(* The invariant: somewhere in the list of commands the devices are, on    *)
(* their way to the index of the stack; the jobs in the queue are the rest *)
(* of the way.                                                             *)
(***************************************************************************)

\* What the q jobs in the queue have still to do.
positioned(list, index, composing, queue, q, pos) ==
    \/ q = 0 /\ pos = IF composing THEN Len(list) ELSE index
    \/ /\ ~composing /\ pos = index + q
       /\ \A k \in 1 .. q : queue[k].kind = "undo" /\ list[pos + 1 - k].parts = <<queue[k].transaction>>
    \/ /\ ~composing /\ pos + q = index
       /\ \A k \in 1 .. q : queue[k].kind = "redo" /\ list[pos + k].parts = <<queue[k].transaction>>
placed(list, index, composing, queue, pos) ==
    \E q : jobsFirst(queue, q) /\ positioned(list, index, composing, queue, q, pos)

\* Each index of the stack has the image of its commands.
recalled(pages, mark, W) == \A j \in 1 .. Len(pages) : pages[j] = W[mark[j - 1]]

\* A stroke that is cancelled has nothing to redo on its device.
spared(tail, queue) ==
    \A i \in 1 .. Len(queue) :
        paints(queue[i]) /\ queue[i].state = "cancelled" =>
            \A t \in transactionsIn(tail) : t.device # queue[i].device

\* At most one device is in the midst of a transaction.
situated(managers, list, mark, pos, W, t, taken) ==
    IF t = NoTransaction THEN at(managers, list, mark, pos, W) /\ mark[Len(list)] <= taken
    ELSE /\ painted(managers, list, mark, pos, W, t.device, taken) /\ t.memento = taken
         /\ t.oldDefaultPixel = W[mark[pos]][t.device].defaultPixel

told(W, mark, pos) ==
    /\ recalled(images, mark, W)
    /\ placed(stack.m_command_list, stack.m_index, gui = "macro", strokes, pos)
    /\ spared(redoTail(stack), strokes)
    /\ situated(devices, stack.m_command_list, mark, pos, W, transaction, mementos)

HistoryInv == \E W, mark, pos : told(W, mark, pos)

\* How many jobs are first is clear.
LEMMA OneFirst ==
    ASSUME NEW queue \in Seq(Strokes), NEW q, jobsFirst(queue, q), NEW r, jobsFirst(queue, r)
    PROVE  q = r
<1>1. /\ q \in 0 .. Len(queue) /\ r \in 0 .. Len(queue) /\ Len(queue) \in Nat
      /\ \A k \in 1 .. Len(queue) : k > q <=> k > r
  BY DEF jobsFirst
<1>2. CASE q < r
  <2>1. r \in 1 .. Len(queue)
    BY <1>1, <1>2
  <2>2. QED
    BY <1>1, <1>2, <2>1
<1>3. CASE r < q
  <2>1. q \in 1 .. Len(queue)
    BY <1>1, <1>3
  <2>2. QED
    BY <1>1, <1>3, <2>1
<1>4. QED
  BY <1>1, <1>2, <1>3

\* The jobs of the queue stay.
sameJobs(queue, r, q) == jobsFirst(queue, q) /\ jobsFirst(r, q) /\ \A k \in 1 .. q : r[k] = queue[k]

\* The place depends on the jobs in front of the queue and on nothing behind them.
LEMMA PlacedStill ==
    ASSUME NEW list, NEW index, NEW composing, NEW queue \in Seq(Strokes), NEW pos,
           placed(list, index, composing, queue, pos), NEW r, NEW q, sameJobs(queue, r, q)
    PROVE  placed(list, index, composing, r, pos)
<1>1. PICK p : jobsFirst(queue, p) /\ positioned(list, index, composing, queue, p, pos)
  BY DEF placed
<1>2. jobsFirst(queue, q) /\ jobsFirst(r, q) /\ \A k \in 1 .. q : r[k] = queue[k]
  BY DEF sameJobs
<1>3. p = q
  BY <1>1, <1>2, OneFirst
<1>4. positioned(list, index, composing, r, q, pos)
  BY <1>1, <1>2, <1>3 DEF positioned
<1>5. QED
  BY <1>2, <1>4 DEF placed

\* The document, the events and the files are not told of.
LEMMA UntoldSteps ==
    ASSUME TypedInv, HistoryInv,
           startHandling \/ giveUp \/ deliver \/ save \/ failToSave \/ exportDocument
           \/ saveRemote \/ uploadFinished \/ slotAutoSave
    PROVE  HistoryInv'
<1>1. WellKept(stack) /\ stack.m_command_list \in Seq(Commands)
  BY TypedParts
<1>2. isMarked(stack, setClean(stack)) /\ isMarked(stack, stack)
  <2>1. isMarked(stack, setClean(stack))
    BY <1>1, SetCleanFields
  <2>2. QED
    BY <2>1 DEF isMarked
<1>3. /\ UNCHANGED <<devices, strokes, transaction, mementos, images>>
      /\ stack' = stack \/ stack' = setClean(stack)
      /\ gui' = "macro" <=> gui = "macro"
  BY DEF startHandling, giveUp, deliver, save, failToSave, exportDocument, saveRemote,
         uploadFinished, slotAutoSave, underLock, files
<1>4. isMarked(stack, stack')
  BY <1>2, <1>3
<1>5. stack'.m_command_list = stack.m_command_list /\ stack'.m_index = stack.m_index
  BY <1>4 DEF isMarked
<1>6. redoTail(stack') = redoTail(stack)
  BY <1>5 DEF redoTail, count
<1>7. PICK W, mark, pos : told(W, mark, pos)
  BY DEF HistoryInv
<1>8. PICK m : m = (gui = "macro")
  OBVIOUS
<1>9. (gui' = "macro") = m
  BY <1>3, <1>8
<1>10. /\ recalled(images', mark, W)
       /\ spared(redoTail(stack'), strokes')
       /\ situated(devices', stack'.m_command_list, mark, pos, W, transaction', mementos')
  BY <1>3, <1>5, <1>6, <1>7 DEF told
<1>11. placed(stack'.m_command_list, stack'.m_index, m, strokes', pos)
  BY <1>3, <1>5, <1>7, <1>8 DEF told
<1>12. QED
  BY <1>9, <1>10, <1>11 DEF told, HistoryInv

\* A step that leaves the stack and the images alone.
LEMMA ToldStill ==
    ASSUME UNCHANGED <<stack, gui, images>>, NEW W, NEW mark, NEW pos, NEW old, told(W, mark, old),
           placed(stack.m_command_list, stack.m_index, gui = "macro", strokes', pos),
           spared(redoTail(stack), strokes'),
           situated(devices', stack.m_command_list, mark, pos, W, transaction', mementos')
    PROVE  HistoryInv'
<1>1. recalled(images', mark, W) /\ stack' = stack /\ gui' = gui
  BY DEF told
<1>2. QED
  BY <1>1 DEF told, HistoryInv

\* Strokes are started and closed by their tools.
LEMMA ToolSteps ==
    ASSUME TypedInv, HistoryInv, "revertAfterUndo" \notin Liberties,
           \/ \E d \in Devices : startStroke(d)
           \/ \E i \in 1 .. Len(strokes) : closeStroke(i, "ended") \/ closeStroke(i, "cancelled")
    PROVE  HistoryInv'
<1>1. strokes \in Seq(Strokes) /\ mementos \in Nat
  BY TypedParts
<1>2. PICK q : isQueue(strokes, q, transaction, mementos)
  BY TypedParts
<1>3. PICK W, mark, pos : told(W, mark, pos)
  BY DEF HistoryInv
<1>4. /\ placed(stack.m_command_list, stack.m_index, gui = "macro", strokes, pos)
      /\ spared(redoTail(stack), strokes)
      /\ situated(devices, stack.m_command_list, mark, pos, W, transaction, mementos)
  BY <1>3 DEF told
<1>5. jobsFirst(strokes, q) /\ q \in 0 .. Len(strokes) /\ Len(strokes) \in Nat
      /\ \A k \in 1 .. Len(strokes) : paints(strokes[k]) <=> k > q
  BY <1>1, <1>2 DEF isQueue, jobsFirst
<1>6. SUFFICES /\ UNCHANGED <<stack, gui, images, devices, transaction, mementos>>
               /\ sameJobs(strokes, strokes', q) /\ spared(redoTail(stack), strokes')
  <2>1. SUFFICES ASSUME UNCHANGED <<stack, gui, images, devices, transaction, mementos>>,
                        sameJobs(strokes, strokes', q), spared(redoTail(stack), strokes')
                 PROVE  HistoryInv'
    OBVIOUS
  <2>2. PICK list, index, composing, r :
          /\ list = stack.m_command_list /\ index = stack.m_index /\ composing = (gui = "macro")
          /\ r = strokes'
    OBVIOUS
  <2>3. placed(list, index, composing, strokes, pos) /\ sameJobs(strokes, r, q)
    BY <1>4, <2>1, <2>2
  <2>4. placed(list, index, composing, r, pos)
    BY <1>1, <2>3, PlacedStill
  <2>5. placed(stack.m_command_list, stack.m_index, gui = "macro", strokes', pos)
    BY <2>2, <2>4
  <2>6. situated(devices', stack.m_command_list, mark, pos, W, transaction', mementos')
    BY <1>4, <2>1
  <2>7. QED
    BY <1>3, <2>1, <2>5, <2>6, ToldStill
<1>7. CASE \E d \in Devices : startStroke(d)
  <2>1. PICK d \in Devices : startStroke(d)
    BY <1>7
  <2>2. PICK s, r : s = Paint(d) /\ r = Append(strokes, s)
    OBVIOUS
  <2>3. s \in Strokes /\ paints(s) /\ s.state = "open"
    BY <2>2 DEF Paint, Strokes, paints
  <2>4. r \in Seq(Strokes) /\ isQueue(r, q, transaction, mementos)
    <3>1. mementos + Cardinality(painting(strokes)) < MaxTransactions
      BY <2>1 DEF startStroke
    <3>2. QED
      BY <1>1, <1>2, <2>2, <2>3, <3>1, StrokeStarts
  <2>5. strokes' = r /\ UNCHANGED <<stack, gui, images, devices, transaction, mementos>>
    BY <2>1, <2>2 DEF startStroke
  <2>6. Len(r) = Len(strokes) + 1 /\ r[Len(strokes) + 1] = s /\ \A k \in 1 .. Len(strokes) : r[k] = strokes[k]
    BY <1>1, <1>5, <2>2, <2>3
  <2>7. sameJobs(strokes, r, q)
    <3>1. jobsFirst(r, q)
      BY <2>4 DEF isQueue
    <3>2. \A k \in 1 .. q : r[k] = strokes[k]
      BY <1>5, <2>6
    <3>3. QED
      BY <1>5, <3>1, <3>2 DEF sameJobs
  <2>8. spared(redoTail(stack), r)
    <3>1. ASSUME NEW i \in 1 .. Len(r), paints(r[i]), r[i].state = "cancelled",
                 NEW t \in transactionsIn(redoTail(stack))
          PROVE  t.device # r[i].device
      <4>1. i # Len(strokes) + 1
        BY <2>3, <2>6, <3>1
      <4>2. i \in 1 .. Len(strokes)
        BY <1>5, <2>6, <4>1
      <4>3. r[i] = strokes[i]
        BY <2>6, <4>2
      <4>4. QED
        BY <1>4, <3>1, <4>2, <4>3 DEF spared
    <3>2. QED
      BY <3>1 DEF spared
  <2>9. QED
    BY <2>5, <2>7, <2>8
<1>8. CASE \E i \in 1 .. Len(strokes) : closeStroke(i, "ended") \/ closeStroke(i, "cancelled")
  <2>1. PICK i \in 1 .. Len(strokes), state \in {"ended", "cancelled"} : closeStroke(i, state)
    BY <1>8
  <2>2. PICK s, r : s = [strokes[i] EXCEPT !.state = state] /\ r = [strokes EXCEPT ![i].state = state]
    OBVIOUS
  <2>3. /\ strokes' = r /\ UNCHANGED <<stack, gui, images, devices, transaction, mementos>>
        /\ paints(strokes[i])
        /\ state = "cancelled" => \A t \in transactionsIn(redoTail(stack)) : t.device # strokes[i].device
    BY <2>1, <2>2 DEF closeStroke
  <2>4. r = [strokes EXCEPT ![i] = s]
    BY <2>2
  <2>5. s.state = state /\ s.device = strokes[i].device
    <3>1. strokes[i] \in Strokes /\ strokes[i].kind = "paint"
      BY <1>1, <2>3 DEF paints
    <3>2. strokes[i] \in [kind : {"paint"}, device : Devices, state : {"open", "ended", "cancelled"}]
      BY <3>1 DEF Strokes, Jobs
    <3>3. QED
      BY <2>2, <3>2
  <2>6. jobsFirst(r, q)
    <3>1. isClosed(strokes, i, state, q, transaction, mementos, r)
      BY <1>1, <1>2, <2>2, <2>3, StrokeCloses
    <3>2. QED
      BY <3>1 DEF isClosed, isQueue
  <2>7. Len(r) = Len(strokes) /\ \A k \in 1 .. Len(strokes) : r[k] = IF k = i THEN s ELSE strokes[k]
    BY <1>1, <2>4
  <2>8. sameJobs(strokes, r, q)
    <3>1. i > q
      BY <1>5, <2>3
    <3>2. ASSUME NEW k \in 1 .. q PROVE r[k] = strokes[k]
      <4>1. k \in 1 .. Len(strokes) /\ k # i
        BY <1>5, <3>1
      <4>2. QED
        BY <2>7, <4>1
    <3>3. QED
      BY <1>5, <2>6, <3>2 DEF sameJobs
  <2>9. spared(redoTail(stack), r)
    <3>1. ASSUME NEW k \in 1 .. Len(r), paints(r[k]), r[k].state = "cancelled",
                 NEW t \in transactionsIn(redoTail(stack))
          PROVE  t.device # r[k].device
      <4>1. CASE k = i
        BY <2>3, <2>5, <2>7, <3>1, <4>1
      <4>2. CASE k # i
        <5>1. r[k] = strokes[k] /\ k \in 1 .. Len(strokes)
          BY <2>7, <4>2
        <5>2. QED
          BY <1>4, <3>1, <5>1 DEF spared
      <4>3. QED
        BY <4>1, <4>2
    <3>2. QED
      BY <3>1 DEF spared
  <2>10. QED
    BY <2>3, <2>8, <2>9
<1>9. QED
  BY <1>7, <1>8

\* Where the devices are is a place in the list.
LEMMA SomewhereInTheList ==
    ASSUME NEW managers, NEW list, NEW mark, NEW pos, NEW W, NEW t, NEW taken,
           situated(managers, list, mark, pos, W, t, taken)
    PROVE  marked(list, mark) /\ pos \in 0 .. Len(list) /\ Len(list) \in Nat /\ pos \in Nat
<1>1. marked(list, mark) /\ pos \in 0 .. Len(list)
  BY DEF situated, at, painted
<1>2. Len(list) \in Nat
  BY <1>1, MarkedFields
<1>3. QED
  BY <1>1, <1>2

\* Without jobs in the queue they are at the index of the stack.
LEMMA AtTheIndex ==
    ASSUME NEW list, NEW index \in Nat, NEW composing, ~composing, NEW queue \in Seq(Strokes),
           jobsFirst(queue, 0), NEW pos \in Nat, placed(list, index, composing, queue, pos)
    PROVE  pos = index
<1>1. PICK q : jobsFirst(queue, q) /\ positioned(list, index, composing, queue, q, pos)
  BY DEF placed
<1>2. q = 0
  BY <1>1, OneFirst
<1>3. QED
  BY <1>1, <1>2 DEF positioned

\* There they stay while strokes paint.
LEMMA StillAtTheIndex ==
    ASSUME NEW list, NEW index, NEW composing, ~composing, NEW queue, jobsFirst(queue, 0),
           NEW pos, pos = index
    PROVE  placed(list, index, composing, queue, pos)
  BY DEF placed, positioned

\* The first stroke of the queue is gone.
LEMMA SparedStill ==
    ASSUME NEW tail, NEW queue, spared(tail, queue), NEW r, isRest(Strokes, queue, r)
    PROVE  spared(tail, r)
<1>1. Len(r) = Len(queue) - 1 /\ Len(queue) \in Nat /\ \A k \in 1 .. (Len(queue) - 1) : r[k] = queue[k + 1]
  BY DEF isRest
<1>2. ASSUME NEW i \in 1 .. Len(r), paints(r[i]), r[i].state = "cancelled", NEW t \in transactionsIn(tail)
      PROVE  t.device # r[i].device
  <2>1. PICK k : k = i + 1
    OBVIOUS
  <2>2. k \in 1 .. Len(queue) /\ r[i] = queue[k]
    BY <1>1, <2>1
  <2>3. QED
    BY <1>2, <2>2 DEF spared
<1>3. QED
  BY <1>2 DEF spared

\* What is told, in parts, when nothing waits before the strokes that paint.
LEMMA ToldParts ==
    ASSUME TypedInv, NEW W, NEW mark, NEW pos, told(W, mark, pos)
    PROVE  /\ stack.m_index \in Nat /\ stack.m_index \in 0 .. Len(stack.m_command_list)
           /\ marked(stack.m_command_list, mark) /\ pos \in Nat
           /\ Len(stack.m_command_list) \in Nat /\ pos \in 0 .. Len(stack.m_command_list)
           /\ recalled(images, mark, W) /\ spared(redoTail(stack), strokes)
           /\ situated(devices, stack.m_command_list, mark, pos, W, transaction, mementos)
           /\ gui # "macro" /\ jobsFirst(strokes, 0) => pos = stack.m_index
<1>1. /\ recalled(images, mark, W) /\ spared(redoTail(stack), strokes)
      /\ situated(devices, stack.m_command_list, mark, pos, W, transaction, mementos)
      /\ placed(stack.m_command_list, stack.m_index, gui = "macro", strokes, pos)
  BY DEF told
<1>2. WellKept(stack) /\ stack.m_command_list \in Seq(Commands) /\ strokes \in Seq(Strokes)
  BY TypedParts
<1>3. PICK s, list, index, composing, queue :
        /\ s = stack /\ list = stack.m_command_list /\ index = stack.m_index
        /\ composing = (gui = "macro") /\ queue = strokes
  OBVIOUS
<1>4. index \in Nat /\ index \in 0 .. Len(list)
  <2>1. WellKept(s) /\ s.m_command_list \in Seq(Commands)
    BY <1>2, <1>3
  <2>2. count(s) = Len(s.m_command_list) /\ s.m_index \in Nat /\ s.m_index \in 0 .. count(s)
    BY <2>1, StackFields
  <2>3. QED
    BY <1>3, <2>2
<1>5. marked(list, mark) /\ pos \in 0 .. Len(list) /\ Len(list) \in Nat /\ pos \in Nat
  BY <1>1, <1>3, SomewhereInTheList
<1>6. ASSUME ~composing, jobsFirst(queue, 0) PROVE pos = index
  <2>1. placed(list, index, composing, queue, pos) /\ queue \in Seq(Strokes)
    BY <1>1, <1>2, <1>3
  <2>2. QED
    BY <1>4, <1>5, <1>6, <2>1, AtTheIndex
<1>7. QED
  BY <1>1, <1>3, <1>4, <1>5, <1>6

\* A stroke begins to paint.
LEMMA PaintingBegun ==
    ASSUME TypedInv, HistoryInv, initStrokeCallback
    PROVE  HistoryInv'
<1>1. /\ devices \in [Devices -> Managers] /\ strokes \in Seq(Strokes) /\ mementos \in Nat
  BY TypedParts
<1>2. PICK q : isQueue(strokes, q, transaction, mementos)
  BY TypedParts
<1>3. PICK d : d = Head(strokes).device
  OBVIOUS
<1>4. PICK g, t, n, m : g = getMemento(devices[d], n) /\ t = opened(d, n) /\ n = mementos + 1 /\ m = devices[d]
  OBVIOUS
<1>5. /\ strokes # <<>> /\ paints(Head(strokes)) /\ transaction = NoTransaction
      /\ devices' = [devices EXCEPT ![d] = g] /\ transaction' = t /\ mementos' = n
      /\ UNCHANGED <<stack, strokes, gui, images>>
  BY <1>3, <1>4 DEF initStrokeCallback
<1>6. d \in Devices
  <2>1. Head(strokes) \in Strokes
    BY <1>1, <1>5
  <2>2. QED
    BY <1>3, <1>5, <2>1 DEF paints, Strokes, Jobs
<1>7. n \in Nat /\ m \in Managers
  BY <1>1, <1>4, <1>6
<1>8. /\ t # NoTransaction /\ t.device = d /\ t.memento = n
      /\ t.oldDefaultPixel = m.m_defaultPixel
  <2>1. t = [device |-> d, memento |-> n, oldDefaultPixel |-> m.m_defaultPixel,
             newDefaultPixel |-> m.m_defaultPixel]
    BY <1>4 DEF opened
  <2>2. NoTransaction.device = "none" /\ DOMAIN NoTransaction = {"device"}
    BY DEF NoTransaction
  <2>3. DOMAIN t = {"device", "memento", "oldDefaultPixel", "newDefaultPixel"}
    BY <2>1
  <2>4. QED
    BY <2>1, <2>2, <2>3
<1>9. PICK W, mark, pos : told(W, mark, pos)
  BY DEF HistoryInv
<1>10. /\ placed(stack.m_command_list, stack.m_index, gui = "macro", strokes, pos)
       /\ spared(redoTail(stack), strokes)
       /\ situated(devices, stack.m_command_list, mark, pos, W, transaction, mementos)
  BY <1>9 DEF told
<1>11. PICK list, managers, after : list = stack.m_command_list /\ managers = devices /\ after = devices'
  OBVIOUS
<1>12. at(managers, list, mark, pos, W) /\ mark[Len(list)] <= mementos
  BY <1>5, <1>10, <1>11 DEF situated
<1>13. mark[Len(list)] < n
  <2>1. marked(list, mark)
    BY <1>12 DEF at
  <2>2. mark[Len(list)] \in Nat
    BY <2>1, MarkedFields
  <2>3. QED
    BY <1>1, <1>4, <1>12, <2>2
<1>14. g = getMemento(managers[d], n) /\ after = [managers EXCEPT ![d] = g]
  BY <1>4, <1>5, <1>11
<1>15. opensOn(after, list, mark, pos, W, d, n)
  BY <1>6, <1>7, <1>12, <1>13, <1>14, PaintingStarts
<1>16. painted(after, list, mark, pos, W, d, n) /\ after[d].m_defaultPixel = W[mark[pos]][d].defaultPixel
  BY <1>15 DEF opensOn
<1>17. after[d].m_defaultPixel = m.m_defaultPixel
  <2>1. after[d] = g
    BY <1>1, <1>6, <1>11, <1>14
  <2>2. g = getMemento(m, n)
    BY <1>4
  <2>3. opensTo(m, n, g)
    BY <1>7, <2>2, Opened
  <2>4. QED
    BY <2>1, <2>3 DEF opensTo
<1>18. situated(after, list, mark, pos, W, t, n)
  BY <1>8, <1>16, <1>17 DEF situated
<1>19. QED
  BY <1>5, <1>9, <1>10, <1>11, <1>18, ToldStill

\* A stroke paints.
LEMMA PaintingDone ==
    ASSUME TypedInv, HistoryInv, doStrokeCallback
    PROVE  HistoryInv'
<1>1. transaction # NoTransaction
  BY DEF doStrokeCallback
<1>2. PICK d, m, t, n, managers, after, list :
        /\ t = transaction /\ d = t.device /\ managers = devices /\ m = devices[d] /\ n = mementos
        /\ after = devices' /\ list = stack.m_command_list
  OBVIOUS
<1>3. PICK x \in Changes(m) : after = [managers EXCEPT ![d] = x]
  BY <1>2 DEF doStrokeCallback
<1>4. UNCHANGED <<stack, strokes, transaction, gui, mementos, images>>
  BY DEF doStrokeCallback
<1>5. PICK W, mark, pos : told(W, mark, pos)
  BY DEF HistoryInv
<1>6. /\ placed(stack.m_command_list, stack.m_index, gui = "macro", strokes, pos)
      /\ spared(redoTail(stack), strokes)
      /\ situated(managers, list, mark, pos, W, t, n)
  BY <1>2, <1>5 DEF told
<1>7. /\ painted(managers, list, mark, pos, W, d, n) /\ t.memento = n
      /\ t.oldDefaultPixel = W[mark[pos]][d].defaultPixel
  BY <1>1, <1>2, <1>6 DEF situated
<1>8. m = managers[d]
  BY <1>2
<1>9. painted(after, list, mark, pos, W, d, n)
  BY <1>3, <1>7, <1>8, PaintingGoesOn
<1>10. situated(after, list, mark, pos, W, t, n)
  BY <1>1, <1>2, <1>7, <1>9 DEF situated
<1>11. QED
  BY <1>2, <1>4, <1>5, <1>6, <1>10, ToldStill

\* What can be redone was committed later than what is done.
LEMMA TailIsLater ==
    ASSUME NEW list, NEW mark, marked(list, mark), NEW i \in 0 .. Len(list),
           NEW tail, isTail(Commands, list, i, tail), NEW c, c = mark[i]
    PROVE  transactionsIn(tail) = later(transactionsIn(list), c)
<1>1. mark \in [Nat -> Nat] /\ Len(list) \in Nat
  BY MarkedFields
<1>2. i \in Nat
  BY <1>1
<1>3. PICK more : more = [k \in Nat |-> mark[k + i]]
  OBVIOUS
<1>4. isShifted(mark, i, more)
  <2>1. ASSUME NEW k \in Nat
        PROVE  mark[k + i] \in Nat
    <3>1. k + i \in Nat
      BY <1>2, <2>1
    <3>2. QED
      BY <1>1, <3>1
  <2>2. more \in [Nat -> Nat]
    BY <1>3, <2>1
  <2>3. \A k \in Nat : more[k] = mark[k + i]
    BY <1>3
  <2>4. QED
    BY <2>2, <2>3 DEF isShifted
<1>5. QED
  BY <1>4, ShiftedMarked

\* A stroke that is cancelled takes back what it painted.
LEMMA PaintingCancelled ==
    ASSUME TypedInv, HistoryInv, cancelStrokeCallback
    PROVE  HistoryInv'
<1>1. devices \in [Devices -> Managers] /\ strokes \in Seq(Strokes) /\ mementos \in Nat
      /\ WellKept(stack) /\ stack.m_command_list \in Seq(Commands)
  BY TypedParts
<1>2. transaction # NoTransaction
  BY DEF cancelStrokeCallback
<1>3. /\ transaction \in Transactions /\ transaction.device \in Devices
      /\ strokes # <<>> /\ paints(Head(strokes))
      /\ isQueue(strokes, 0, transaction, mementos)
  BY <1>2, AtWork
<1>4. PICK d, m, c, u, t, r, n, managers, after, list, tail :
        /\ d = transaction.device /\ m = devices[d] /\ c = commit(m) /\ n = transaction.memento
        /\ u = [devices EXCEPT ![d] = c] /\ t = ended(transaction, m) /\ r = Tail(strokes)
        /\ managers = devices /\ after = devices' /\ list = stack.m_command_list
        /\ tail = redoTail(stack)
  OBVIOUS
<1>5. /\ d \in Devices /\ m \in Managers /\ c \in Managers /\ u \in [Devices -> Managers]
      /\ t \in Transactions /\ t.device = d /\ t.memento = n
      /\ t.oldDefaultPixel = transaction.oldDefaultPixel
  <2>1. d \in Devices /\ m \in Managers
    BY <1>1, <1>3, <1>4
  <2>2. c \in Managers
    BY <1>4, <2>1, Committed
  <2>3. /\ t \in Transactions /\ t.device = transaction.device /\ t.memento = transaction.memento
        /\ t.oldDefaultPixel = transaction.oldDefaultPixel
    BY <1>3, <1>4, <2>1, EndedTyped
  <2>4. QED
    BY <1>1, <1>4, <2>1, <2>2, <2>3
<1>6. PICK v, x, z : v = undone(u, t) /\ x = setDefaultPixel(rollback(commit(managers[d])), t.oldDefaultPixel)
                     /\ z = purgeHistory(x, n)
  OBVIOUS
<1>7. /\ devices' = [v EXCEPT ![d] = purgeHistory(v[d], n)]
      /\ transaction' = NoTransaction /\ strokes' = r
      /\ Head(strokes).state = "cancelled"
      /\ UNCHANGED <<stack, gui, mementos, images>>
  <2>1. u = [devices EXCEPT ![d] = commit(devices[d])]
    BY <1>4
  <2>2. QED
    BY <1>4, <1>6, <2>1 DEF cancelStrokeCallback
<1>8. v = [u EXCEPT ![d] = x]
  <2>1. u[d] = commit(managers[d])
    BY <1>1, <1>4, <1>5
  <2>2. QED
    BY <1>5, <1>6, <2>1 DEF undone
<1>9. after = [managers EXCEPT ![d] = z]
  BY <1>1, <1>4, <1>5, <1>6, <1>7, <1>8
<1>10. PICK W, mark, pos : told(W, mark, pos)
  BY DEF HistoryInv
<1>11. gui # "macro" /\ jobsFirst(strokes, 0)
  BY <1>2, <1>3, WorkerIdle DEF isQueue
<1>12. /\ stack.m_index \in Nat /\ pos = stack.m_index /\ pos \in 0 .. Len(list)
       /\ marked(list, mark) /\ spared(tail, strokes)
       /\ situated(managers, list, mark, pos, W, transaction, mementos)
  BY <1>4, <1>10, <1>11, ToldParts
<1>13. /\ painted(managers, list, mark, pos, W, d, n) /\ n = mementos
       /\ t.oldDefaultPixel = W[mark[pos]][d].defaultPixel
       /\ mark[Len(list)] < n
  <2>1. /\ painted(managers, list, mark, pos, W, d, mementos) /\ n = mementos
        /\ t.oldDefaultPixel = W[mark[pos]][d].defaultPixel
    BY <1>2, <1>4, <1>5, <1>12 DEF situated
  <2>2. mark[Len(list)] < mementos
    BY <2>1 DEF painted, underway
  <2>3. QED
    BY <2>1, <2>2
<1>14. \A s \in transactionsIn(list) : s.device = d => s.memento <= mark[pos]
  <2>1. isTail(Commands, list, pos, tail)
    <3>1. PICK s : s = stack
      OBVIOUS
    <3>2. WellKept(s) /\ s.m_command_list \in Seq(Commands) /\ tail = redoTail(s)
      BY <1>1, <1>4, <3>1
    <3>3. isTail(Commands, s.m_command_list, s.m_index, tail)
      BY <3>2, RedoTail
    <3>4. QED
      BY <1>4, <1>12, <3>1, <3>3
  <2>2. transactionsIn(tail) = later(transactionsIn(list), mark[pos])
    BY <1>12, <2>1, TailIsLater
  <2>3. \A s \in transactionsIn(tail) : s.device # d
    <3>1. 1 \in 1 .. Len(strokes) /\ strokes[1] = Head(strokes) /\ strokes[1].device = d
      <4>1. 1 \in 1 .. Len(strokes) /\ strokes[1] = Head(strokes)
        BY <1>1, <1>3
      <4>2. strokes[1].device = d
        BY <1>2, <1>3, <1>4 DEF isQueue
      <4>3. QED
        BY <4>1, <4>2
    <3>2. QED
      BY <1>3, <1>7, <1>12, <3>1 DEF spared
  <2>4. \A s \in transactionsIn(list) : s.memento \in Nat
    <3>1. spells(list, transactionsIn(list))
      BY <1>1, <1>4, TransactionsIn
    <3>2. transactionsIn(list) \subseteq Transactions
      BY <3>1 DEF spells
    <3>3. QED
      BY <3>2, TransactionFields
  <2>5. mark[pos] \in Nat
    <3>1. mark \in [Nat -> Nat]
      BY <1>12, MarkedFields
    <3>2. QED
      BY <1>12, <3>1
  <2>6. QED
    BY <2>2, <2>3, <2>4, <2>5 DEF later
<1>15. at(after, list, mark, pos, W)
  BY <1>5, <1>6, <1>9, <1>13, <1>14, PaintingReverted
<1>16. situated(after, list, mark, pos, W, NoTransaction, mementos)
  <2>1. mark[Len(list)] <= mementos
    <3>1. mark \in [Nat -> Nat] /\ Len(list) \in Nat
      BY <1>12, MarkedFields
    <3>2. mark[Len(list)] \in Nat
      BY <3>1
    <3>3. QED
      BY <1>1, <1>13, <3>2
  <2>2. QED
    BY <1>15, <2>1 DEF situated
<1>17. isRest(Strokes, strokes, r)
  BY <1>1, <1>3, <1>4, Rest
<1>18. spared(tail, r)
  BY <1>12, <1>17, SparedStill
<1>19. jobsFirst(r, 0)
  <2>1. isQueue(r, 0, NoTransaction, mementos)
    BY <1>1, <1>3, <1>4, StrokeGoes
  <2>2. QED
    BY <2>1 DEF isQueue
<1>20. placed(stack.m_command_list, stack.m_index, gui = "macro", r, pos)
  <2>1. PICK index, composing : index = stack.m_index /\ composing = (gui = "macro")
    OBVIOUS
  <2>2. ~composing /\ pos = index
    BY <1>11, <1>12, <2>1
  <2>3. placed(list, index, composing, r, pos)
    BY <1>19, <2>2, StillAtTheIndex
  <2>4. QED
    BY <1>4, <2>1, <2>3
<1>21. QED
  BY <1>4, <1>7, <1>10, <1>16, <1>18, <1>20, ToldStill

\* A stroke that is cancelled before its first job takes nothing back.
LEMMA StrokeDropped ==
    ASSUME TypedInv, HistoryInv, dropStroke
    PROVE  HistoryInv'
<1>1. /\ strokes # <<>> /\ paints(Head(strokes)) /\ transaction = NoTransaction
      /\ strokes' = Tail(strokes)
      /\ UNCHANGED <<devices, stack, transaction, gui, mementos, images>>
  BY DEF dropStroke
<1>2. strokes \in Seq(Strokes) /\ mementos \in Nat
  BY TypedParts
<1>3. PICK q : isQueue(strokes, q, transaction, mementos)
  BY TypedParts
<1>4. PICK r, list : r = Tail(strokes) /\ list = stack.m_command_list
  OBVIOUS
<1>5. gui # "macro" /\ jobsFirst(strokes, 0)
  <2>1. jobsFirst(strokes, q) /\ Head(strokes) = strokes[1] /\ 1 \in 1 .. Len(strokes)
    BY <1>1, <1>2, <1>3 DEF isQueue
  <2>2. q = 0
    BY <1>1, <2>1 DEF jobsFirst
  <2>3. QED
    BY <1>1, <2>1, <2>2, WorkerIdle
<1>6. PICK W, mark, pos : told(W, mark, pos)
  BY DEF HistoryInv
<1>7. /\ pos = stack.m_index /\ spared(redoTail(stack), strokes)
      /\ situated(devices, list, mark, pos, W, transaction, mementos)
  BY <1>4, <1>5, <1>6, ToldParts
<1>8. isRest(Strokes, strokes, r)
  BY <1>1, <1>2, <1>4, Rest
<1>9. spared(redoTail(stack), r)
  BY <1>7, <1>8, SparedStill
<1>10. jobsFirst(r, 0)
  <2>1. isQueue(r, 0, NoTransaction, mementos)
    BY <1>1, <1>2, <1>3, <1>4, StrokeGoes
  <2>2. QED
    BY <2>1 DEF isQueue
<1>11. placed(stack.m_command_list, stack.m_index, gui = "macro", r, pos)
  <2>1. PICK index, composing : index = stack.m_index /\ composing = (gui = "macro")
    OBVIOUS
  <2>2. ~composing /\ pos = index
    BY <1>5, <1>7, <2>1
  <2>3. placed(list, index, composing, r, pos)
    BY <1>10, <2>2, StillAtTheIndex
  <2>4. QED
    BY <1>4, <2>1, <2>3
<1>12. QED
  BY <1>1, <1>4, <1>6, <1>7, <1>9, <1>11, ToldStill

\* The first job of the queue is the next step on the way.
isStep(list, index, composing, job, pos, r) ==
    \/ /\ job.kind = "undo" /\ pos \in 1 .. Len(list) /\ list[pos].parts = <<job.transaction>>
       /\ placed(list, index, composing, r, pos - 1)
    \/ /\ job.kind = "redo" /\ pos + 1 \in 1 .. Len(list) /\ list[pos + 1].parts = <<job.transaction>>
       /\ placed(list, index, composing, r, pos + 1)

\* The job in front undoes the command at the place of the devices, or redoes the next.
LEMMA NextStep ==
    ASSUME NEW list, NEW index \in Nat, NEW composing, NEW queue \in Seq(Strokes), NEW pos \in Nat,
           placed(list, index, composing, queue, pos), Len(list) \in Nat, pos <= Len(list),
           index <= Len(list), NEW job, job = queue[1], ~paints(job), NEW r, isRest(Strokes, queue, r)
    PROVE  isStep(list, index, composing, job, pos, r)
<1>1. PICK q : jobsFirst(queue, q) /\ positioned(list, index, composing, queue, q, pos)
  BY DEF placed
<1>2. /\ Len(queue) \in Nat /\ Len(queue) > 0 /\ Len(r) = Len(queue) - 1
      /\ \A k \in 1 .. (Len(queue) - 1) : r[k] = queue[k + 1]
  BY DEF isRest
<1>3. q \in 0 .. Len(queue) /\ \A k \in 1 .. Len(queue) : paints(queue[k]) <=> k > q
  BY <1>1 DEF jobsFirst
<1>4. q \in Nat /\ q > 0
  BY <1>2, <1>3
<1>5. PICK p : p = q - 1
  OBVIOUS
<1>6. p \in Nat /\ q = p + 1 /\ p \in 0 .. Len(r)
  BY <1>2, <1>3, <1>4, <1>5
<1>7. jobsFirst(r, p)
  <2>1. ASSUME NEW k \in 1 .. Len(r)
        PROVE  paints(r[k]) <=> k > p
    <3>1. PICK j : j = k + 1
      OBVIOUS
    <3>2. j \in 1 .. Len(queue) /\ r[k] = queue[j] /\ (j > q <=> k > p)
      BY <1>2, <1>6, <2>1, <3>1
    <3>3. QED
      BY <1>3, <3>2
  <2>2. QED
    BY <1>6, <2>1 DEF jobsFirst
<1>8. \A k \in 1 .. p : r[k] = queue[k + 1] /\ k + 1 \in 1 .. q
  BY <1>2, <1>3, <1>6
<1>9. 1 \in 1 .. q
  BY <1>4
<1>10. CASE /\ ~composing /\ pos = index + q
            /\ \A k \in 1 .. q : queue[k].kind = "undo" /\ list[pos + 1 - k].parts = <<queue[k].transaction>>
  <2>1. pos \in 1 .. Len(list)
    BY <1>4, <1>10
  <2>2. PICK z : z = pos - 1
    OBVIOUS
  <2>3. z = index + p
    BY <1>6, <1>10, <2>2
  <2>4. ASSUME NEW k \in 1 .. p
        PROVE  r[k].kind = "undo" /\ list[z + 1 - k].parts = <<r[k].transaction>>
    <3>1. PICK j, h : j = k + 1 /\ h = z + 1 - k
      OBVIOUS
    <3>2. j \in 1 .. q /\ r[k] = queue[j]
      BY <1>8, <3>1
    <3>3. h = pos + 1 - j
      BY <2>2, <3>1, <2>1
    <3>4. queue[j].kind = "undo" /\ list[h].parts = <<queue[j].transaction>>
      BY <1>10, <3>2, <3>3
    <3>5. QED
      BY <3>1, <3>2, <3>4
  <2>5. placed(list, index, composing, r, z)
    BY <1>7, <1>10, <2>3, <2>4 DEF placed, positioned
  <2>6. job.kind = "undo" /\ list[pos].parts = <<job.transaction>>
    <3>1. pos + 1 - 1 = pos
      OBVIOUS
    <3>2. queue[1].kind = "undo" /\ list[pos + 1 - 1].parts = <<queue[1].transaction>>
      BY <1>9, <1>10
    <3>3. QED
      BY <3>1, <3>2
  <2>7. QED
    BY <2>1, <2>2, <2>5, <2>6 DEF isStep
<1>11. CASE /\ ~composing /\ pos + q = index
            /\ \A k \in 1 .. q : queue[k].kind = "redo" /\ list[pos + k].parts = <<queue[k].transaction>>
  <2>1. PICK z : z = pos + 1
    OBVIOUS
  <2>2. z \in 1 .. Len(list) /\ z + p = index
    BY <1>6, <1>11, <2>1
  <2>3. ASSUME NEW k \in 1 .. p
        PROVE  r[k].kind = "redo" /\ list[z + k].parts = <<r[k].transaction>>
    <3>1. PICK j, h : j = k + 1 /\ h = z + k
      OBVIOUS
    <3>2. j \in 1 .. q /\ r[k] = queue[j]
      BY <1>8, <3>1
    <3>3. h = pos + j
      BY <2>1, <3>1
    <3>4. queue[j].kind = "redo" /\ list[h].parts = <<queue[j].transaction>>
      BY <1>11, <3>2, <3>3
    <3>5. QED
      BY <3>1, <3>2, <3>4
  <2>4. placed(list, index, composing, r, z)
    BY <1>7, <1>11, <2>2, <2>3 DEF placed, positioned
  <2>5. job.kind = "redo" /\ list[z].parts = <<job.transaction>>
    BY <1>9, <1>11, <2>1
  <2>6. QED
    BY <2>1, <2>2, <2>4, <2>5 DEF isStep
<1>12. q # 0
  BY <1>4
<1>13. QED
  BY <1>1, <1>10, <1>11, <1>12, Zenon DEF positioned

\* A command of one transaction.
LEMMA OneCarried ==
    ASSUME NEW kind, NEW managers, NEW t, NEW ts, ts = <<t>>
    PROVE  carrying(kind, managers, ts)[Len(ts)] = carriedOut(kind, managers, t)
<1>1. Len(ts) = 1 /\ ts[1] = t /\ Len(ts) \in Nat
  OBVIOUS
<1>2. /\ carrying(kind, managers, ts)[0] = managers
      /\ \A n \in 1 .. Len(ts) :
           carrying(kind, managers, ts)[n] = carriedOut(kind, carrying(kind, managers, ts)[n - 1], ts[n])
  BY <1>1, Carrying
<1>3. 1 \in 1 .. Len(ts) /\ 1 - 1 = 0
  BY <1>1
<1>4. carrying(kind, managers, ts)[1] = carriedOut(kind, carrying(kind, managers, ts)[0], ts[1])
  BY <1>2, <1>3
<1>5. QED
  BY <1>1, <1>2, <1>4

\* A list of one is its own reverse.
LEMMA OneReversed ==
    ASSUME NEW t \in Transactions, NEW ts, ts = <<t>>
    PROVE  Reverse(ts) = ts
<1>1. ts \in Seq(Transactions) /\ Len(ts) = 1
  OBVIOUS
<1>2. PICK r : r = Reverse(ts)
  OBVIOUS
<1>3. r \in Seq(Transactions) /\ Len(r) = 1 /\ r[1] = ts[1]
  <2>1. /\ Reverse(ts) \in Seq(Transactions) /\ Len(Reverse(ts)) = Len(ts)
        /\ \A i \in 1 .. Len(ts) : Reverse(ts)[i] = ts[Len(ts) + 1 - i]
    BY <1>1, Reversed
  <2>2. 1 \in 1 .. Len(ts) /\ Len(ts) + 1 - 1 = 1
    BY <1>1
  <2>3. QED
    BY <1>1, <1>2, <2>1, <2>2
<1>4. r = ts
  BY <1>1, <1>3
<1>5. QED
  BY <1>2, <1>4

\* A job carries out the command it was put off for.
LEMMA CommandRun ==
    ASSUME TypedInv, HistoryInv, runCommand
    PROVE  HistoryInv'
<1>1. PICK job, r, list, after :
        job = Head(strokes) /\ r = Tail(strokes) /\ list = stack.m_command_list /\ after = devices'
  OBVIOUS
<1>2. /\ strokes # <<>> /\ ~paints(job) /\ strokes' = r
      /\ after = IF job.kind = "undo" THEN undone(devices, job.transaction)
                 ELSE redone(devices, job.transaction)
      /\ UNCHANGED <<stack, transaction, gui, mementos, images>>
  BY <1>1 DEF runCommand
<1>3. /\ strokes \in Seq(Strokes) /\ mementos \in Nat /\ list \in Seq(Commands)
      /\ transaction \in Transactions \cup {NoTransaction}
  BY <1>1, TypedParts
<1>4. transaction = NoTransaction
  BY <1>1, <1>2, AtWork
<1>5. PICK W, mark, pos : told(W, mark, pos)
  BY DEF HistoryInv
<1>6. PICK index, composing : index = stack.m_index /\ composing = (gui = "macro")
  OBVIOUS
<1>7. /\ index \in Nat /\ index <= Len(list) /\ pos \in Nat /\ pos <= Len(list) /\ Len(list) \in Nat
      /\ spared(redoTail(stack), strokes)
      /\ situated(devices, list, mark, pos, W, transaction, mementos)
  <2>1. /\ stack.m_index \in Nat /\ stack.m_index \in 0 .. Len(stack.m_command_list)
        /\ pos \in Nat /\ Len(stack.m_command_list) \in Nat /\ pos \in 0 .. Len(stack.m_command_list)
        /\ spared(redoTail(stack), strokes)
        /\ situated(devices, stack.m_command_list, mark, pos, W, transaction, mementos)
    BY <1>5, ToldParts
  <2>2. QED
    BY <1>1, <1>6, <2>1
<1>8. placed(list, index, composing, strokes, pos)
  BY <1>1, <1>5, <1>6 DEF told
<1>9. isRest(Strokes, strokes, r)
  BY <1>1, <1>2, <1>3, Rest
<1>10. job = strokes[1]
  BY <1>1, <1>9 DEF isRest
<1>11. isStep(list, index, composing, job, pos, r)
  BY <1>2, <1>3, <1>7, <1>8, <1>9, <1>10, NextStep
<1>12. spared(redoTail(stack), r)
  BY <1>7, <1>9, SparedStill
<1>13. at(devices, list, mark, pos, W) /\ mark[Len(list)] <= mementos
  BY <1>4, <1>7 DEF situated
<1>14. job \in Jobs /\ job.transaction \in Transactions
  <2>1. job \in Strokes
    BY <1>9, <1>10 DEF isRest
  <2>2. QED
    BY <1>2, <2>1 DEF Strokes, Jobs, paints
<1>15. PICK t, kind : t = job.transaction /\ kind = job.kind
  OBVIOUS
<1>16. kind \in {"undo", "redo"} /\ t \in Transactions /\ after = carriedOut(kind, devices, t)
  BY <1>2, <1>14, <1>15 DEF carriedOut, Jobs
<1>17. ASSUME NEW new, at(after, list, mark, new, W), placed(list, index, composing, r, new)
       PROVE  HistoryInv'
  <2>1. situated(after, list, mark, new, W, NoTransaction, mementos)
    BY <1>13, <1>17 DEF situated
  <2>2. QED
    BY <1>1, <1>2, <1>4, <1>5, <1>6, <1>12, <1>17, <2>1, ToldStill
<1>18. CASE /\ job.kind = "undo" /\ pos \in 1 .. Len(list) /\ list[pos].parts = <<job.transaction>>
            /\ placed(list, index, composing, r, pos - 1)
  <2>1. PICK h, command, ts : h = pos - 1 /\ command = list[pos] /\ ts = command.parts
    OBVIOUS
  <2>2. ts = <<t>> /\ kind = "undo"
    BY <1>15, <1>18, <2>1
  <2>3. Reverse(ts) = ts
    BY <1>16, <2>2, OneReversed
  <2>4. carrying("undo", devices, ts)[Len(ts)] = after
    BY <1>16, <2>2, OneCarried
  <2>5. ts = Reverse(command.parts)
    BY <2>1, <2>3
  <2>6. at(after, list, mark, h, W)
    BY <1>13, <1>18, <2>1, <2>4, <2>5, BackOne
  <2>7. QED
    BY <1>17, <1>18, <2>1, <2>6
<1>19. CASE /\ job.kind = "redo" /\ pos + 1 \in 1 .. Len(list) /\ list[pos + 1].parts = <<job.transaction>>
            /\ placed(list, index, composing, r, pos + 1)
  <2>1. PICK j, command, ts : j = pos + 1 /\ command = list[j] /\ ts = command.parts
    OBVIOUS
  <2>2. ts = <<t>> /\ kind = "redo"
    BY <1>15, <1>19, <2>1
  <2>3. carrying("redo", devices, ts)[Len(ts)] = after
    BY <1>16, <2>2, OneCarried
  <2>4. pos = j - 1 /\ j \in 1 .. Len(list)
    BY <1>7, <1>19, <2>1
  <2>5. at(after, list, mark, j, W)
    BY <1>13, <2>1, <2>3, <2>4, ForthOne
  <2>6. QED
    BY <1>17, <1>19, <2>1, <2>5
<1>20. QED
  BY <1>11, <1>18, <1>19 DEF isStep

-----------------------------------------------------------------------------
(***************************************************************************)
(* Moves to another index.                                                 *)
(***************************************************************************)

\* What is told of the next state.
LEMMA ToldAgain ==
    ASSUME NEW W, NEW mark, NEW pos, recalled(images', mark, W),
           placed(stack'.m_command_list, stack'.m_index, gui' = "macro", strokes', pos),
           spared(redoTail(stack'), strokes'),
           situated(devices', stack'.m_command_list, mark, pos, W, transaction', mementos')
    PROVE  HistoryInv'
BY DEF HistoryInv, told

\* The way back and the way forth.
LEMMA WayBack ==
    ASSUME NEW list \in Seq(Commands), NEW j \in 0 .. Len(list), NEW i \in 0 .. j,
           NEW f, f = i + 1, NEW way, way = Reverse(SubSeq(list, f, j))
    PROVE  isWayBack(list, i, j, way)
<1>1. Len(list) \in Nat /\ i \in Nat /\ j \in Nat /\ i <= j /\ j <= Len(list)
  OBVIOUS
<1>2. PICK cut : cut = SubSeq(list, f, j)
  OBVIOUS
<1>3. f \in 1 .. (Len(list) + 1) /\ j \in (f - 1) .. Len(list) /\ j - f + 1 = j - i
  BY <1>1
<1>4. /\ cut \in Seq(Commands) /\ Len(cut) = j - i
      /\ \A k \in 1 .. (j - i) : cut[k] = list[f + k - 1]
  <2>1. /\ SubSeq(list, f, j) \in Seq(Commands) /\ Len(SubSeq(list, f, j)) = j - f + 1
        /\ \A k \in 1 .. (j - f + 1) : SubSeq(list, f, j)[k] = list[f + k - 1]
    BY <1>3, CutOut
  <2>2. QED
    BY <1>2, <1>3, <2>1
<1>5. /\ way \in Seq(Commands) /\ Len(way) = Len(cut)
      /\ \A n \in 1 .. Len(cut) : way[n] = cut[Len(cut) + 1 - n]
  BY <1>2, <1>4, Reversed
<1>6. ASSUME NEW n \in 1 .. (j - i)
      PROVE  way[n] = list[j + 1 - n]
  <2>1. PICK k : k = (j - i) + 1 - n
    OBVIOUS
  <2>2. k \in 1 .. (j - i) /\ f + k - 1 = j + 1 - n
    BY <1>1, <2>1
  <2>3. way[n] = cut[k]
    BY <1>4, <1>5, <2>1
  <2>4. cut[k] = list[f + k - 1]
    BY <1>4, <2>2
  <2>5. QED
    BY <2>2, <2>3, <2>4
<1>7. QED
  BY <1>1, <1>4, <1>5, <1>6 DEF isWayBack

\* SubSeq gives the way from one place of the list forth to another.
LEMMA WayForth ==
    ASSUME NEW list \in Seq(Commands), NEW j \in 0 .. Len(list), NEW i \in 0 .. j,
           NEW f, f = i + 1, NEW way, way = SubSeq(list, f, j)
    PROVE  isWayForth(list, i, j, way)
<1>1. Len(list) \in Nat /\ i \in Nat /\ j \in Nat /\ i <= j /\ j <= Len(list)
  OBVIOUS
<1>2. f \in 1 .. (Len(list) + 1) /\ j \in (f - 1) .. Len(list) /\ j - f + 1 = j - i
  BY <1>1
<1>3. /\ way \in Seq(Commands) /\ Len(way) = j - i
      /\ \A k \in 1 .. (j - i) : way[k] = list[f + k - 1]
  <2>1. /\ SubSeq(list, f, j) \in Seq(Commands) /\ Len(SubSeq(list, f, j)) = j - f + 1
        /\ \A k \in 1 .. (j - f + 1) : SubSeq(list, f, j)[k] = list[f + k - 1]
    BY <1>2, CutOut
  <2>2. QED
    BY <1>2, <2>1
<1>4. ASSUME NEW n \in 1 .. (j - i)
      PROVE  way[n] = list[i + n]
  <2>1. f + n - 1 = i + n
    BY <1>1
  <2>2. way[n] = list[f + n - 1]
    BY <1>3
  <2>3. QED
    BY <2>1, <2>2
<1>5. QED
  BY <1>1, <1>3, <1>4 DEF isWayForth

\* The commands of a way are commands of the list.
onTheWay(list, way) == \A n \in 1 .. Len(way) : \E k \in 1 .. Len(list) : way[n] = list[k]

\* A way back is made of commands of the list.
LEMMA WayBackInside ==
    ASSUME NEW list, Len(list) \in Nat, NEW i, NEW j, j <= Len(list), NEW way, isWayBack(list, i, j, way)
    PROVE  onTheWay(list, way)
<1>1. /\ Len(way) = j - i /\ i \in Nat /\ j \in Nat
      /\ \A n \in 1 .. (j - i) : way[n] = list[j + 1 - n]
  BY DEF isWayBack
<1>2. ASSUME NEW n \in 1 .. Len(way)
      PROVE  \E k \in 1 .. Len(list) : way[n] = list[k]
  <2>1. PICK k : k = j + 1 - n
    OBVIOUS
  <2>2. k \in 1 .. Len(list)
    BY <1>1, <2>1
  <2>3. way[n] = list[k]
    BY <1>1, <2>1
  <2>4. QED
    BY <2>2, <2>3
<1>3. QED
  BY <1>2 DEF onTheWay

\* A way forth is made of commands of the list.
LEMMA WayForthInside ==
    ASSUME NEW list, Len(list) \in Nat, NEW i, NEW j, j <= Len(list), NEW way, isWayForth(list, i, j, way)
    PROVE  onTheWay(list, way)
<1>1. /\ Len(way) = j - i /\ i \in Nat /\ j \in Nat
      /\ \A n \in 1 .. (j - i) : way[n] = list[i + n]
  BY DEF isWayForth
<1>2. ASSUME NEW n \in 1 .. Len(way)
      PROVE  \E k \in 1 .. Len(list) : way[n] = list[k]
  <2>1. PICK k : k = i + n
    OBVIOUS
  <2>2. k \in 1 .. Len(list)
    BY <1>1, <2>1
  <2>3. way[n] = list[k]
    BY <1>1, <2>1
  <2>4. QED
    BY <2>2, <2>3
<1>3. QED
  BY <1>2 DEF onTheWay

\* Commands that are put off have one transaction each.
putsOff(way) == \A n \in 1 .. Len(way) : way[n].saved /\ Len(way[n].parts) = 1

\* Saved commands on a way through a marked list have one transaction each.
LEMMA WaySaved ==
    ASSUME NEW list, NEW mark, marked(list, mark), NEW way, onTheWay(list, way),
           \A n \in 1 .. Len(way) : way[n].saved
    PROVE  putsOff(way)
<1>1. \A i \in 1 .. Len(list) : list[i].saved => Len(list[i].parts) = 1
  BY MarkedFields
<1>2. QED
  BY <1>1 DEF onTheWay, putsOff

\* The jobs that are put off are the way.
LEMMA PutOffBack ==
    ASSUME NEW list, NEW i \in Nat, NEW j \in Nat, i <= j, NEW way, isWayBack(list, i, j, way),
           NEW done, NEW after, postpones("undo", done, after, way, Len(way)),
           NEW queue, queue = after.strokes, jobsFirst(queue, Len(queue)), NEW composing, ~composing
    PROVE  placed(list, i, composing, queue, j)
<1>1. PICK q : q = j - i
  OBVIOUS
<1>2. q \in Nat /\ j = i + q
  BY <1>1
<1>3. Len(way) = q /\ \A n \in 1 .. q : way[n] = list[j + 1 - n]
  BY <1>1 DEF isWayBack
<1>4. /\ Len(queue) = q
      /\ \A k \in 1 .. q : queue[k].kind = "undo" /\ way[k].parts = <<queue[k].transaction>>
  BY <1>3 DEF postpones
<1>5. \A k \in 1 .. q : queue[k].kind = "undo" /\ list[j + 1 - k].parts = <<queue[k].transaction>>
  BY <1>3, <1>4
<1>6. positioned(list, i, composing, queue, q, j)
  BY <1>2, <1>5 DEF positioned
<1>7. QED
  BY <1>4, <1>6 DEF placed

\* After a redo that is put off, the devices are where the jobs begin and the index where they lead.
LEMMA PutOffForth ==
    ASSUME NEW list, NEW i \in Nat, NEW j \in Nat, i <= j, NEW way, isWayForth(list, i, j, way),
           NEW done, NEW after, postpones("redo", done, after, way, Len(way)),
           NEW queue, queue = after.strokes, jobsFirst(queue, Len(queue)), NEW composing, ~composing
    PROVE  placed(list, j, composing, queue, i)
<1>1. PICK q : q = j - i
  OBVIOUS
<1>2. q \in Nat /\ i + q = j
  BY <1>1
<1>3. Len(way) = q /\ \A n \in 1 .. q : way[n] = list[i + n]
  BY <1>1 DEF isWayForth
<1>4. /\ Len(queue) = q
      /\ \A k \in 1 .. q : queue[k].kind = "redo" /\ way[k].parts = <<queue[k].transaction>>
  BY <1>3 DEF postpones
<1>5. \A k \in 1 .. q : queue[k].kind = "redo" /\ list[i + k].parts = <<queue[k].transaction>>
  BY <1>3, <1>4
<1>6. positioned(list, j, composing, queue, q, i)
  BY <1>2, <1>5 DEF positioned
<1>7. QED
  BY <1>4, <1>6 DEF placed

\* Commands carried out, at once or later, lead to the index.
leads(list, mark, W, index, after) ==
    \E pos :
        /\ at(after.devices, list, mark, pos, W) /\ placed(list, index, FALSE, after.strokes, pos)
        /\ jobsFirst(after.strokes, Len(after.strokes))

\* An empty queue.
LEMMA NothingQueued ==
    ASSUME NEW list, NEW index, NEW queue, queue = <<>>
    PROVE  placed(list, index, FALSE, queue, index) /\ jobsFirst(queue, Len(queue))
<1>1. Len(queue) = 0 /\ jobsFirst(queue, 0)
  BY DEF jobsFirst
<1>2. positioned(list, index, FALSE, queue, 0, index)
  BY DEF positioned
<1>3. QED
  BY <1>1, <1>2 DEF placed

\* A queue of jobs.
LEMMA PutOffJobs ==
    ASSUME NEW kind, NEW done, NEW after, NEW way, NEW n, postpones(kind, done, after, way, n)
    PROVE  jobsFirst(after.strokes, Len(after.strokes))
<1>1. after.strokes \in Seq(Jobs)
  BY DEF postpones
<1>2. isQueue(after.strokes, Len(after.strokes), NoTransaction, 0)
  <2>1. PICK queue : queue = after.strokes
    OBVIOUS
  <2>2. 0 \in Nat /\ 0 <= MaxTransactions
    BY UndoAssumption
  <2>3. queue \in Seq(Jobs)
    BY <1>1, <2>1
  <2>4. isQueue(queue, Len(queue), NoTransaction, 0)
    BY <2>2, <2>3, JobsOnly
  <2>5. QED
    BY <2>1, <2>4
<1>3. QED
  BY <1>2 DEF isQueue

\* The way back, all of it at once or all of it later.
LEMMA LeadsBack ==
    ASSUME NEW done \in Affairs, done.strokes = <<>>, NEW list, NEW mark, NEW W,
           NEW j \in 0 .. Len(list), NEW i \in 0 .. j, at(done.devices, list, mark, j, W),
           NEW way, isWayBack(list, i, j, way), NEW saved \in BOOLEAN,
           \A n \in DOMAIN way : way[n].saved = saved,
           NEW after, after = executing("undo", done, way)[Len(way)]
    PROVE  leads(list, mark, W, i, after)
<1>1. marked(list, mark)
  BY DEF at
<1>2. Len(list) \in Nat /\ i \in Nat /\ j \in Nat /\ i <= j /\ j <= Len(list)
  BY <1>1, MarkedFields
<1>3. way \in Seq(Commands) /\ Len(way) \in Nat /\ DOMAIN way = 1 .. Len(way)
  BY DEF isWayBack
<1>4. CASE ~saved
  <2>1. \A n \in 1 .. Len(way) : ~way[n].saved
    BY <1>3, <1>4
  <2>2. reaches(done, after, list, mark, i, W)
    BY <2>1, CommandsUndone
  <2>3. PICK queue : queue = after.strokes
    OBVIOUS
  <2>4. queue = <<>> /\ at(after.devices, list, mark, i, W)
    BY <2>2, <2>3 DEF reaches
  <2>5. placed(list, i, FALSE, queue, i) /\ jobsFirst(queue, Len(queue))
    BY <2>4, NothingQueued
  <2>6. QED
    BY <2>3, <2>4, <2>5 DEF leads
<1>5. CASE saved
  <2>1. onTheWay(list, way)
    BY <1>2, WayBackInside
  <2>2. \A n \in 1 .. Len(way) : way[n].saved
    BY <1>3, <1>5
  <2>3. putsOff(way)
    BY <1>1, <2>1, <2>2, WaySaved
  <2>4. \A n \in 1 .. Len(way) : way[n].saved /\ Len(way[n].parts) = 1
    BY <2>3 DEF putsOff
  <2>5. postpones("undo", done, after, way, Len(way))
    BY <1>3, <2>4, CommandsPostponed
  <2>6. jobsFirst(after.strokes, Len(after.strokes))
    BY <2>5, PutOffJobs
  <2>7. PICK queue : queue = after.strokes
    OBVIOUS
  <2>8. placed(list, i, FALSE, queue, j)
    BY <1>2, <2>5, <2>6, <2>7, PutOffBack
  <2>9. after.devices = done.devices
    BY <2>5 DEF postpones
  <2>10. QED
    BY <2>6, <2>7, <2>8, <2>9 DEF leads
<1>6. QED
  BY <1>4, <1>5

\* The way forth.
LEMMA LeadsForth ==
    ASSUME NEW done \in Affairs, done.strokes = <<>>, NEW list, NEW mark, NEW W,
           NEW j \in 0 .. Len(list), NEW i \in 0 .. j, at(done.devices, list, mark, i, W),
           NEW way, isWayForth(list, i, j, way), NEW saved \in BOOLEAN,
           \A n \in DOMAIN way : way[n].saved = saved,
           NEW after, after = executing("redo", done, way)[Len(way)]
    PROVE  leads(list, mark, W, j, after)
<1>1. marked(list, mark)
  BY DEF at
<1>2. Len(list) \in Nat /\ i \in Nat /\ j \in Nat /\ i <= j /\ j <= Len(list)
  BY <1>1, MarkedFields
<1>3. way \in Seq(Commands) /\ Len(way) \in Nat /\ DOMAIN way = 1 .. Len(way)
  BY DEF isWayForth
<1>4. CASE ~saved
  <2>1. \A n \in 1 .. Len(way) : ~way[n].saved
    BY <1>3, <1>4
  <2>2. reaches(done, after, list, mark, j, W)
    BY <2>1, CommandsRedone
  <2>3. PICK queue : queue = after.strokes
    OBVIOUS
  <2>4. queue = <<>> /\ at(after.devices, list, mark, j, W)
    BY <2>2, <2>3 DEF reaches
  <2>5. placed(list, j, FALSE, queue, j) /\ jobsFirst(queue, Len(queue))
    BY <2>4, NothingQueued
  <2>6. QED
    BY <2>3, <2>4, <2>5 DEF leads
<1>5. CASE saved
  <2>1. onTheWay(list, way)
    BY <1>2, WayForthInside
  <2>2. \A n \in 1 .. Len(way) : way[n].saved
    BY <1>3, <1>5
  <2>3. putsOff(way)
    BY <1>1, <2>1, <2>2, WaySaved
  <2>4. \A n \in 1 .. Len(way) : way[n].saved /\ Len(way[n].parts) = 1
    BY <2>3 DEF putsOff
  <2>5. postpones("redo", done, after, way, Len(way))
    BY <1>3, <2>4, CommandsPostponed
  <2>6. jobsFirst(after.strokes, Len(after.strokes))
    BY <2>5, PutOffJobs
  <2>7. PICK queue : queue = after.strokes
    OBVIOUS
  <2>8. placed(list, j, FALSE, queue, i)
    BY <1>2, <2>5, <2>6, <2>7, PutOffForth
  <2>9. after.devices = done.devices
    BY <2>5 DEF postpones
  <2>10. QED
    BY <2>6, <2>7, <2>8, <2>9 DEF leads
<1>6. QED
  BY <1>4, <1>5

\* Commands that are all carried out at once, or all by strokes.
ofOneKind(way) == \E saved \in BOOLEAN : \A i \in DOMAIN way : way[i].saved = saved

\* A move to another index.
LEMMA HistoryMoves ==
    ASSUME TypedInv, HistoryInv, underLock, NEW idx \in 0 .. count(stack), ofOneKind(wayTo(idx)),
           moveTo(idx), gui' = "idle", UNCHANGED <<transaction, events, mementos, images, files>>
    PROVE  HistoryInv'
<1>1. strokes = <<>> /\ transaction = NoTransaction /\ gui # "macro"
  BY UnderLock
<1>2. /\ devices \in [Devices -> Managers] /\ mementos \in Nat
      /\ WellKept(stack) /\ stack.m_command_list \in Seq(Commands)
  BY TypedParts
<1>3. PICK list, index, way, done, kind :
        /\ list = stack.m_command_list /\ index = stack.m_index /\ way = wayTo(idx)
        /\ done = [devices |-> devices, strokes |-> strokes]
        /\ kind = IF idx < index THEN "undo" ELSE "redo"
  OBVIOUS
<1>4. PICK after : after = executing(kind, done, way)[Len(way)]
  OBVIOUS
<1>5. devices' = after.devices /\ strokes' = after.strokes /\ stack' = indexSet(stack, idx, FALSE)
  BY <1>3, <1>4 DEF moveTo
<1>6. PICK W, mark, pos : told(W, mark, pos)
  BY DEF HistoryInv
<1>7. jobsFirst(strokes, 0)
  BY <1>1 DEF jobsFirst
<1>8. /\ index \in Nat /\ Len(list) \in Nat /\ index <= Len(list) /\ index \in 0 .. Len(list)
      /\ pos = index /\ recalled(images, mark, W)
      /\ situated(devices, list, mark, pos, W, transaction, mementos)
  <2>1. /\ stack.m_index \in Nat /\ stack.m_index \in 0 .. Len(stack.m_command_list)
        /\ Len(stack.m_command_list) \in Nat
        /\ recalled(images, mark, W)
        /\ situated(devices, stack.m_command_list, mark, pos, W, transaction, mementos)
        /\ pos = stack.m_index
    BY <1>1, <1>6, <1>7, ToldParts
  <2>2. QED
    BY <1>3, <2>1
<1>9. at(devices, list, mark, index, W) /\ mark[Len(list)] <= mementos
  BY <1>1, <1>8 DEF situated
<1>10. done \in Affairs /\ done.strokes = <<>> /\ done.devices = devices
  BY <1>1, <1>2, <1>3 DEF Affairs
<1>11. idx \in 0 .. Len(list) /\ list \in Seq(Commands)
  BY <1>2, <1>3 DEF count
<1>12. PICK saved \in BOOLEAN : \A n \in DOMAIN way : way[n].saved = saved
  BY <1>3 DEF ofOneKind
<1>13. leads(list, mark, W, idx, after)
  <2>1. CASE idx < index
    <3>1. PICK f : f = idx + 1
      OBVIOUS
    <3>2. way = Reverse(SubSeq(list, f, index)) /\ idx \in 0 .. index
      BY <1>3, <1>8, <1>11, <2>1, <3>1 DEF wayTo
    <3>3. isWayBack(list, idx, index, way)
      BY <1>8, <1>11, <3>1, <3>2, WayBack
    <3>4. after = executing("undo", done, way)[Len(way)]
      BY <1>3, <1>4, <2>1
    <3>5. at(done.devices, list, mark, index, W)
      BY <1>9, <1>10
    <3>6. QED
      BY <1>8, <1>10, <1>12, <3>2, <3>3, <3>4, <3>5, LeadsBack
  <2>2. CASE ~(idx < index)
    <3>1. PICK f : f = index + 1
      OBVIOUS
    <3>2. way = SubSeq(list, f, idx) /\ index \in 0 .. idx
      <4>1. way = SubSeq(list, f, idx)
        BY <1>3, <2>2, <3>1 DEF wayTo
      <4>2. index \in 0 .. idx
        BY <1>8, <1>11, <2>2
      <4>3. QED
        BY <4>1, <4>2
    <3>3. isWayForth(list, index, idx, way)
      BY <1>11, <3>1, <3>2, WayForth
    <3>4. after = executing("redo", done, way)[Len(way)]
      BY <1>3, <1>4, <2>2
    <3>5. at(done.devices, list, mark, index, W)
      BY <1>9, <1>10
    <3>6. QED
      BY <1>10, <1>11, <1>12, <3>2, <3>3, <3>4, <3>5, LeadsForth
  <2>3. QED
    BY <2>1, <2>2
<1>14. PICK new : /\ at(after.devices, list, mark, new, W) /\ placed(list, idx, FALSE, after.strokes, new)
                  /\ jobsFirst(after.strokes, Len(after.strokes))
  BY <1>13 DEF leads
<1>15. stack'.m_command_list = list /\ stack'.m_index = idx
  <2>1. PICK s : s = stack
    OBVIOUS
  <2>2. s \in StacksOf(Commands)
    BY <1>2, <2>1, StackFields
  <2>6. PICK clean \in BOOLEAN : clean = FALSE
    OBVIOUS
  <2>3. PICK t : t = indexSet(s, idx, clean)
    OBVIOUS
  <2>4. t.m_command_list = s.m_command_list /\ t.m_index = idx
    <3>1. /\ t.m_command_list = s.m_command_list /\ t.m_index = idx
          /\ t.m_clean_index = (IF clean THEN idx ELSE s.m_clean_index)
          /\ t.m_macro = s.m_macro
      BY <2>2, <2>3, IndexSetFields
    <3>2. QED
      BY <3>1
  <2>5. QED
    BY <1>3, <1>5, <2>1, <2>3, <2>4, <2>6
<1>16. spared(redoTail(stack'), strokes')
  BY <1>5, <1>14 DEF spared, jobsFirst
<1>17. situated(devices', list, mark, new, W, transaction', mementos')
  BY <1>1, <1>5, <1>9, <1>14 DEF situated
<1>18. placed(list, idx, gui' = "macro", strokes', new)
  <2>1. (gui' = "macro") = FALSE
    OBVIOUS
  <2>2. QED
    BY <1>5, <1>14, <2>1
<1>19. recalled(images', mark, W)
  BY <1>8
<1>20. QED
  BY <1>15, <1>16, <1>17, <1>18, <1>19, ToldAgain

\* undo(), redo(), and jumps over commands of one kind.
LEMMA MovesAreTold ==
    ASSUME TypedInv, HistoryInv, "jumpMixed" \notin Liberties,
           undo \/ redo \/ \E idx \in 0 .. count(stack) : setIndex(idx)
    PROVE  HistoryInv'
<1>1. WellKept(stack) /\ stack.m_command_list \in Seq(Commands)
  BY TypedParts
<1>2. stack.m_index \in Nat /\ count(stack) \in Nat /\ stack.m_index <= count(stack)
      /\ count(stack) = Len(stack.m_command_list)
  <2>1. PICK s : s = stack
    OBVIOUS
  <2>2. WellKept(s) /\ s.m_command_list \in Seq(Commands)
    BY <1>1, <2>1
  <2>3. count(s) = Len(s.m_command_list) /\ count(s) \in Nat /\ s.m_index \in Nat
        /\ s.m_index \in 0 .. count(s)
    BY <2>2, StackFields
  <2>4. QED
    BY <2>1, <2>3
<1>3. ASSUME NEW way \in Seq(Commands), Len(way) = 1
      PROVE  ofOneKind(way)
  <2>1. way[1].saved \in BOOLEAN
    BY <1>3, CommandFields
  <2>2. DOMAIN way = {1}
    BY <1>3
  <2>3. QED
    BY <2>1, <2>2 DEF ofOneKind
<1>4. PICK list, index : list = stack.m_command_list /\ index = stack.m_index
  OBVIOUS
<1>5. CASE undo
  <2>1. PICK i : i = index - 1
    OBVIOUS
  <2>2. underLock /\ canUndo(stack) /\ moveTo(i) /\ gui' = "idle"
        /\ UNCHANGED <<transaction, events, mementos, images, files>>
    BY <1>4, <1>5, <2>1 DEF undo
  <2>3. i \in 0 .. index /\ index \in 0 .. Len(list) /\ i \in 0 .. count(stack) /\ i < index
    BY <1>2, <1>4, <2>1, <2>2 DEF canUndo
  <2>4. PICK f, way : f = i + 1 /\ way = wayTo(i)
    OBVIOUS
  <2>5. way = Reverse(SubSeq(list, f, index))
    BY <1>4, <2>3, <2>4 DEF wayTo
  <2>6. isWayBack(list, i, index, way)
    BY <1>1, <1>4, <2>3, <2>4, <2>5, WayBack
  <2>7. way \in Seq(Commands) /\ Len(way) = 1
    BY <1>2, <1>4, <2>1, <2>6 DEF isWayBack
  <2>8. ofOneKind(wayTo(i))
    BY <1>3, <2>4, <2>7
  <2>9. QED
    BY <2>2, <2>3, <2>8, HistoryMoves
<1>6. CASE redo
  <2>1. PICK i : i = index + 1
    OBVIOUS
  <2>2. underLock /\ canRedo(stack) /\ moveTo(i) /\ gui' = "idle"
        /\ UNCHANGED <<transaction, events, mementos, images, files>>
    BY <1>4, <1>6, <2>1 DEF redo
  <2>3. index \in 0 .. i /\ i \in 0 .. Len(list) /\ i \in 0 .. count(stack) /\ ~(i < index)
    BY <1>2, <1>4, <2>1, <2>2 DEF canRedo
  <2>4. PICK way : way = wayTo(i)
    OBVIOUS
  <2>5. way = SubSeq(list, i, i)
    BY <1>4, <2>1, <2>3, <2>4 DEF wayTo
  <2>6. isWayForth(list, index, i, way)
    BY <1>1, <1>4, <2>1, <2>3, <2>5, WayForth
  <2>7. way \in Seq(Commands) /\ Len(way) = 1
    BY <1>2, <1>4, <2>1, <2>6 DEF isWayForth
  <2>8. ofOneKind(wayTo(i))
    BY <1>3, <2>4, <2>7
  <2>9. QED
    BY <2>2, <2>3, <2>8, HistoryMoves
<1>7. CASE \E idx \in 0 .. count(stack) : setIndex(idx)
  <2>1. PICK idx \in 0 .. count(stack) : setIndex(idx)
    BY <1>7
  <2>2. underLock /\ moveTo(idx) /\ gui' = "idle"
        /\ UNCHANGED <<transaction, events, mementos, images, files>>
        /\ ofOneKind(wayTo(idx))
    BY <2>1 DEF setIndex, ofOneKind
  <2>3. QED
    BY <2>1, <2>2, HistoryMoves
<1>8. QED
  BY <1>5, <1>6, <1>7

-----------------------------------------------------------------------------
(***************************************************************************)
(* Commands are added to the list.                                         *)
(***************************************************************************)

\* The image is the one of the place in the list.
LEMMA ImageAt ==
    ASSUME NEW managers, NEW list, NEW mark, NEW i, NEW W, at(managers, list, mark, i, W)
    PROVE  imageOf(managers) = W[mark[i]]
<1>1. PICK w, c, floor, S, top : w = W[c] /\ c = mark[i] /\ floor = mark[0] /\ S = transactionsIn(list)
                                 /\ top = mark[Len(list)]
  OBVIOUS
<1>2. story(S, floor, top, W) /\ atRest(managers, Devices, S, c, floor, W)
  BY <1>1 DEF at, stands
<1>3. W \in [Nat -> Images] /\ c \in Nat /\ managers \in [Devices -> Managers]
  BY <1>2 DEF story, atRest
<1>4. w \in Images
  BY <1>1, <1>3
<1>5. ASSUME NEW d \in Devices
      PROVE  w[d] = [tiles |-> managers[d].m_hashTable, defaultPixel |-> managers[d].m_defaultPixel]
  <2>1. calm(managers[d], w[d])
    BY <1>1, <1>2, <1>5 DEF atRest, kept
  <2>2. w[d].tiles = managers[d].m_hashTable /\ w[d].defaultPixel = managers[d].m_defaultPixel
    BY <2>1 DEF calm
  <2>3. w[d] \in [tiles : Contents, defaultPixel : DefaultPixels]
    BY <1>4, <1>5 DEF Images
  <2>4. QED
    BY <2>2, <2>3
<1>6. imageOf(managers) = w
  BY <1>4, <1>5 DEF imageOf, Images
<1>7. QED
  BY <1>1, <1>6

\* When the index is at the end of the list, nothing can be redone.
LEMMA NothingToRedo ==
    ASSUME NEW list, NEW index, Len(list) = index, NEW tail, isTail(Commands, list, index, tail)
    PROVE  transactionsIn(tail) = {}
<1>1. tail \in Seq(Commands) /\ Len(tail) = 0
  BY DEF isTail
<1>2. DOMAIN tail = {}
  BY <1>1
<1>3. QED
  BY <1>2 DEF transactionsIn

\* What can be redone is new to the devices.
isNew(tail, S, lo, c) ==
    \A t \in transactionsIn(tail) :
        lo < t.memento /\ \A s \in S : s.memento <= c => s.memento # t.memento

\* Behind the index, the transactions have later mementos than what was done.
LEMMA TailIsNew ==
    ASSUME NEW list, NEW mark, marked(list, mark), NEW i \in 0 .. Len(list),
           NEW tail, isTail(Commands, list, i, tail), NEW S, S = transactionsIn(list),
           NEW lo, lo = mark[0], NEW c, c = mark[i]
    PROVE  isNew(tail, S, lo, c)
<1>1. transactionsIn(tail) = later(S, c)
  BY TailIsLater
<1>2. lo <= c /\ lo \in Nat /\ c \in Nat
  <2>1. mark \in [Nat -> Nat] /\ Len(list) \in Nat
    BY MarkedFields
  <2>2. 0 \in 0 .. Len(list) /\ i \in 0 .. Len(list)
    BY <2>1
  <2>3. mark[0] <= mark[i]
    BY <2>2, MarksRise
  <2>4. QED
    BY <2>1, <2>3
<1>3. \A s \in S : s.memento \in Nat
  <2>1. spells(list, S)
    BY MarkedFields, TransactionsIn
  <2>2. S \subseteq Transactions
    BY <2>1 DEF spells
  <2>3. QED
    BY <2>2, TransactionFields
<1>4. QED
  BY <1>1, <1>2, <1>3 DEF isNew, later

\* A macro is begun: what could be redone is deleted, and leaves no trace.
LEMMA MacroBegins ==
    ASSUME TypedInv, HistoryInv, beginMacro
    PROVE  HistoryInv'
<1>1. underLock /\ gui' = "macro" /\ UNCHANGED <<strokes, transaction, mementos>>
  BY DEF beginMacro
<1>2. strokes = <<>> /\ transaction = NoTransaction /\ gui # "macro" /\ ~stack.m_macro
      /\ Len(images) = count(stack) + 1
  BY <1>1, UnderLock
<1>3. /\ devices \in [Devices -> Managers] /\ mementos \in Nat /\ images \in Seq(Images)
      /\ WellKept(stack) /\ stack.m_command_list \in Seq(Commands)
  BY TypedParts
<1>4. PICK s, list, index, tail, command, managers, after, longer, pages, new :
        /\ s = stack /\ list = s.m_command_list /\ index = s.m_index /\ tail = redoTail(s)
        /\ command = [saved |-> FALSE, parts |-> <<>>] /\ managers = devices /\ after = devices'
        /\ longer = stack'.m_command_list /\ pages = images' /\ new = stack'
  OBVIOUS
<1>5. new = macroBegun(s, command) /\ after = deleted(managers, tail)
      /\ pages = SubSeq(images, 1, index + 1)
  BY <1>4 DEF beginMacro
<1>6. PICK W, mark, pos : told(W, mark, pos)
  BY DEF HistoryInv
<1>7. jobsFirst(strokes, 0)
  BY <1>2 DEF jobsFirst
<1>8. /\ index \in Nat /\ Len(list) \in Nat /\ index <= Len(list) /\ index \in 0 .. Len(list)
      /\ pos = index /\ recalled(images, mark, W) /\ marked(list, mark)
      /\ situated(managers, list, mark, pos, W, transaction, mementos)
  <2>1. /\ stack.m_index \in Nat /\ stack.m_index \in 0 .. Len(stack.m_command_list)
        /\ Len(stack.m_command_list) \in Nat /\ marked(stack.m_command_list, mark)
        /\ recalled(images, mark, W)
        /\ situated(devices, stack.m_command_list, mark, pos, W, transaction, mementos)
        /\ pos = stack.m_index
    BY <1>2, <1>6, <1>7, ToldParts
  <2>2. QED
    BY <1>4, <2>1
<1>9. at(managers, list, mark, index, W) /\ mark[Len(list)] <= mementos
  BY <1>2, <1>8 DEF situated
<1>10. isTail(Commands, list, index, tail)
  BY <1>3, <1>4, RedoTail
<1>11. after = managers
  <2>1. PICK S, lo, c : S = transactionsIn(list) /\ lo = mark[0] /\ c = mark[index]
    OBVIOUS
  <2>2. isNew(tail, S, lo, c)
    BY <1>8, <1>10, <2>1, TailIsNew
  <2>3. \A t \in transactionsIn(tail) :
            /\ mark[0] < t.memento
            /\ \A u \in transactionsIn(list) : u.memento <= mark[index] => u.memento # t.memento
    BY <2>1, <2>2 DEF isNew
  <2>4. tail \in Seq(Commands)
    BY <1>10 DEF isTail
  <2>5. deleted(managers, tail) = managers
    BY <1>9, <2>3, <2>4, TailDeleted
  <2>6. QED
    BY <1>5, <2>5
<1>12. command \in Commands
  BY <1>4 DEF Commands
<1>13. PICK u : isLonger(s, command, u) /\ new = [u EXCEPT !.m_macro = TRUE]
  <2>1. WellKept(s) /\ s.m_command_list \in Seq(Commands) /\ ~s.m_macro
    BY <1>2, <1>3, <1>4
  <2>2. QED
    BY <1>5, <1>12, <2>1, MacroBegunFields
<1>14. longer = u.m_command_list /\ new.m_index = index
  BY <1>4, <1>13 DEF isLonger, StacksOf
<1>15. isBegun(list, index, longer)
  <2>1. /\ longer \in Seq(Commands) /\ Len(longer) = index + 1
        /\ \A k \in 1 .. index : longer[k] = list[k]
        /\ longer[index + 1] = command
    BY <1>4, <1>13, <1>14 DEF isLonger, StacksOf
  <2>2. QED
    BY <1>4, <1>8, <2>1 DEF isBegun
<1>16. mark \in [Nat -> Nat]
  BY <1>8, MarkedFields
<1>17. PICK more : more = [k \in Nat |-> IF k <= index THEN mark[k] ELSE mark[index]]
  OBVIOUS
<1>18. isMarkedToo(mark, index, more)
  BY <1>8, <1>16, <1>17 DEF isMarkedToo
<1>19. PICK j : j = index + 1
  OBVIOUS
<1>20. at(managers, longer, more, j, W)
  BY <1>9, <1>15, <1>18, <1>19, BeginsAt
<1>21. Len(longer) = j /\ j \in Nat
  BY <1>8, <1>15, <1>19 DEF isBegun
<1>22. situated(after, longer, more, j, W, NoTransaction, mementos)
  <2>1. more[Len(longer)] = mark[index]
    BY <1>8, <1>17, <1>19, <1>21
  <2>2. mark[index] <= mark[Len(list)]
    <3>1. Len(list) \in index .. Len(list)
      BY <1>8
    <3>2. QED
      BY <1>8, <3>1, MarksRise
  <2>3. mark[index] \in Nat /\ mark[Len(list)] \in Nat
    BY <1>8, <1>16
  <2>4. more[Len(longer)] <= mementos
    BY <1>3, <1>9, <2>1, <2>2, <2>3
  <2>5. QED
    BY <1>11, <1>20, <2>4 DEF situated
<1>23. recalled(pages, more, W)
  <2>1. Len(images) = Len(list) + 1
    BY <1>2, <1>4 DEF count
  <2>2. j \in 0 .. Len(images)
    BY <1>8, <1>19, <2>1
  <2>3. isHead(Images, images, j, pages)
    BY <1>3, <1>5, <1>19, <2>2, CutHead
  <2>4. ASSUME NEW k \in 1 .. Len(pages)
        PROVE  pages[k] = W[more[k - 1]]
    <3>1. k \in 1 .. j /\ k \in 1 .. Len(images) /\ pages[k] = images[k]
      BY <2>2, <2>3 DEF isHead
    <3>2. images[k] = W[mark[k - 1]]
      BY <1>8, <3>1 DEF recalled
    <3>3. PICK b : b = k - 1
      OBVIOUS
    <3>4. b \in Nat /\ b <= index
      BY <1>8, <1>19, <1>21, <3>1, <3>3
    <3>5. more[b] = mark[b]
      BY <1>17, <3>4
    <3>6. QED
      BY <3>1, <3>2, <3>3, <3>5
  <2>5. QED
    BY <2>4 DEF recalled
<1>24. placed(longer, index, TRUE, strokes, j)
  BY <1>7, <1>21 DEF placed, positioned
<1>25. spared(redoTail(stack'), strokes')
  BY <1>1, <1>2 DEF spared
<1>26. QED
  <2>1. (gui' = "macro") = TRUE /\ stack'.m_index = index
    BY <1>1, <1>4, <1>14
  <2>2. placed(stack'.m_command_list, stack'.m_index, gui' = "macro", strokes', j)
    BY <1>1, <1>4, <1>24, <2>1
  <2>3. recalled(images', more, W)
    BY <1>4, <1>23
  <2>4. situated(devices', stack'.m_command_list, more, j, W, transaction', mementos')
    BY <1>1, <1>2, <1>4, <1>22
  <2>5. QED
    BY <1>25, <2>2, <2>3, <2>4, ToldAgain

\* The macro that is composed is carried out at once.
Composing == gui = "macro" => ~stack.m_command_list[count(stack)].saved

\* It grows by a transaction.
isFuller(list, i, t, longer) == isFilled(list, t, longer) /\ ~longer[i].saved

\* grown() of the last command adds a transaction to it.
LEMMA Fuller ==
    ASSUME NEW list \in Seq(Commands), NEW i, i = Len(list), i > 0, NEW last, last = list[i],
           last \in Commands, ~last.saved, NEW t, NEW longer, longer \in Seq(Commands),
           longer = [list EXCEPT ![i] = grown(last, t)]
    PROVE  isFuller(list, i, t, longer)
<1>1. i \in Nat /\ Len(longer) = i /\ i \in 1 .. i /\ DOMAIN list = 1 .. i
  OBVIOUS
<1>2. longer[i] = grown(last, t) /\ \A k \in 1 .. (i - 1) : longer[k] = list[k]
  BY <1>1
<1>3. grown(last, t).parts = Append(last.parts, t) /\ grown(last, t).saved = last.saved
  BY DEF grown, Commands
<1>4. QED
  BY <1>1, <1>2, <1>3 DEF isFuller, isFilled

\* Without strokes, where a macro is composed the devices are at its end.
LEMMA AtTheEnd ==
    ASSUME NEW list, NEW index, NEW queue, queue = <<>>, NEW pos, placed(list, index, TRUE, queue, pos)
    PROVE  pos = Len(list)
<1>1. PICK q : jobsFirst(queue, q) /\ positioned(list, index, TRUE, queue, q, pos)
  BY DEF placed
<1>2. QED
  BY <1>1 DEF positioned

\* The marks of a list with a new last command, and with another mark for its
\* last.
LEMMA MarkLast ==
    ASSUME NEW mark \in [Nat -> Nat], NEW i \in Nat, NEW n \in Nat
    PROVE  \E more : isMarkedLast(mark, i, n, more)
<1>1. PICK more : more = [k \in Nat |-> IF k = i THEN n ELSE mark[k]]
  OBVIOUS
<1>2. more \in [Nat -> Nat] /\ more[i] = n
  BY <1>1
<1>3. ASSUME NEW k \in 0 .. (i - 1)
      PROVE  more[k] = mark[k]
  <2>1. k \in Nat /\ k # i
    OBVIOUS
  <2>2. QED
    BY <1>1, <2>1
<1>4. QED
  BY <1>2, <1>3 DEF isMarkedLast

\* What is painted on a device.
paintsOver(open, d, x, after) == x \in Changes(open[d]) /\ after = [open EXCEPT ![d] = x]

\* Painting on the device keeps its transaction open.
LEMMA PaintedOver ==
    ASSUME NEW open, NEW list, NEW mark, NEW i, NEW W, NEW d, NEW n,
           painted(open, list, mark, i, W, d, n), NEW x, NEW after, paintsOver(open, d, x, after)
    PROVE  painted(after, list, mark, i, W, d, n)
BY PaintingGoesOn DEF paintsOver

\* A transaction of the GUI thread opens and fills at once.
paintedBy(managers, list, mark, i, W, d, n, t) ==
    painted(managers, list, mark, i, W, d, n) /\ concludes(t, managers, d, mark[i], W, n)

\* A transaction of the GUI thread is opened, painted and concluded in one step.
LEMMA PaintedAtOnce ==
    ASSUME NEW managers \in [Devices -> Managers], NEW list, NEW mark, NEW i, NEW W,
           at(managers, list, mark, i, W), NEW d \in Devices, NEW n \in Nat, mark[Len(list)] < n,
           NEW g, g = getMemento(managers[d], n), NEW x \in Changes(g),
           NEW t, t \in Transactions, t.device = d, t.memento = n,
           t.oldDefaultPixel = managers[d].m_defaultPixel, t.newDefaultPixel = x.m_defaultPixel,
           NEW after, after = [managers EXCEPT ![d] = x]
    PROVE  paintedBy(after, list, mark, i, W, d, n, t)
<1>1. PICK open : open = [managers EXCEPT ![d] = g]
  OBVIOUS
<1>2. opensOn(open, list, mark, i, W, d, n)
  BY <1>1, PaintingStarts
<1>3. /\ painted(open, list, mark, i, W, d, n)
      /\ open[d].m_defaultPixel = W[mark[i]][d].defaultPixel
  BY <1>2 DEF opensOn
<1>4. open[d] = g /\ after = [open EXCEPT ![d] = x] /\ after[d] = x
  BY <1>1
<1>5. x \in Changes(open[d])
  BY <1>4
<1>6. painted(after, list, mark, i, W, d, n)
  <2>1. paintsOver(open, d, x, after)
    BY <1>4, <1>5 DEF paintsOver
  <2>2. QED
    BY <1>3, <2>1, PaintedOver
<1>7. g.m_defaultPixel = managers[d].m_defaultPixel
  <2>1. PICK m : m = managers[d]
    OBVIOUS
  <2>2. m \in Managers /\ g = getMemento(m, n)
    BY <2>1
  <2>3. opensTo(m, n, g)
    BY <2>2, Opened
  <2>4. QED
    BY <2>1, <2>3 DEF opensTo
<1>8. concludes(t, after, d, mark[i], W, n)
  BY <1>3, <1>4, <1>7 DEF concludes
<1>9. QED
  BY <1>6, <1>8 DEF paintedBy

\* The transaction of the GUI thread.
LEMMA AtOnceTransaction ==
    ASSUME devices \in [Devices -> Managers], NEW d \in Devices, NEW n \in Nat,
           n + 1 <= MaxTransactions, NEW old, old = devices[d], NEW x \in Managers,
           NEW t, t = ended(opened(d, n + 1), x)
    PROVE  /\ t \in Transactions /\ t.device = d /\ t.memento = n + 1
           /\ t.oldDefaultPixel = old.m_defaultPixel /\ t.newDefaultPixel = x.m_defaultPixel
<1>1. PICK o : o = opened(d, n + 1)
  OBVIOUS
<1>2. /\ o \in Transactions /\ o.device = d /\ o.memento = n + 1
      /\ o.oldDefaultPixel = devices[d].m_defaultPixel
  BY <1>1, OpenedTyped
<1>3. t = ended(o, x)
  BY <1>1
<1>4. /\ t \in Transactions /\ t.device = o.device /\ t.memento = o.memento
      /\ t.oldDefaultPixel = o.oldDefaultPixel /\ t.newDefaultPixel = x.m_defaultPixel
  BY <1>2, <1>3, EndedTyped
<1>5. QED
  BY <1>2, <1>4

\* The images of the commands before the last.
LEMMA RecalledBefore ==
    ASSUME NEW list, NEW mark, marked(list, mark), NEW i \in 0 .. Len(list), NEW more,
           \A k \in 0 .. (i - 1) : more[k] = mark[k], NEW c, c = mark[i],
           NEW V, NEW W, agree(V, W, c), NEW pages \in Seq(Images), Len(pages) <= i,
           recalled(pages, mark, W)
    PROVE  recalled(pages, more, V)
<1>1. mark \in [Nat -> Nat] /\ Len(list) \in Nat /\ i \in Nat
  BY SMTT(30), MarkedFields
<1>2. ASSUME NEW k \in 1 .. Len(pages)
      PROVE  pages[k] = V[more[k - 1]]
  <2>1. PICK b : b = k - 1
    OBVIOUS
  <2>2. b \in 0 .. (i - 1) /\ b \in 0 .. Len(list) /\ i \in b .. Len(list) /\ b \in Nat
    BY <1>1, <2>1
  <2>3. more[b] = mark[b]
    BY <2>2
  <2>4. mark[b] <= mark[i]
    BY <2>2, MarksRise
  <2>5. mark[b] \in 0 .. c
    <3>1. mark[b] \in Nat /\ c \in Nat
      BY <1>1, <2>2
    <3>2. QED
      BY <2>4, <3>1
  <2>6. V[mark[b]] = W[mark[b]]
    BY <2>5 DEF agree
  <2>7. pages[k] = W[mark[b]]
    BY <2>1 DEF recalled
  <2>8. QED
    BY <2>1, <2>3, <2>6, <2>7
<1>3. QED
  BY <1>2 DEF recalled

\* The transaction is committed on its device.
commits(managers, d, after) == after = [managers EXCEPT ![d] = commit(@)]

\* PaintingConcludes, for a commit that is given by its effect.
LEMMA PaintingCommitted ==
    ASSUME NEW managers, NEW list, NEW mark, NEW i, i = Len(list), NEW W, NEW d, NEW n,
           painted(managers, list, mark, i, W, d, n), NEW c, c = mark[i],
           NEW t, concludes(t, managers, d, c, W, n),
           NEW longer, isFilled(list, t, longer), NEW more, isMarkedLast(mark, i, n, more),
           NEW after, commits(managers, d, after)
    PROVE  \E V : continues(after, longer, more, V, imageOf(after), W, c)
BY PaintingConcludes DEF commits

\* A transaction more in the macro.
LEMMA MacroIsTold ==
    ASSUME TypedInv, HistoryInv, Composing, NEW d \in Devices, commitInMacro(d)
    PROVE  HistoryInv' /\ Composing'
<1>1. /\ gui = "macro" /\ mementos < MaxTransactions /\ mementos' = mementos + 1
      /\ UNCHANGED <<strokes, transaction, gui, images>>
  BY DEF commitInMacro
<1>2. strokes = <<>> /\ transaction = NoTransaction
  BY <1>1, WorkerIdle
<1>3. /\ devices \in [Devices -> Managers] /\ mementos \in Nat /\ images \in Seq(Images)
      /\ WellKept(stack) /\ stack.m_command_list \in Seq(Commands)
  BY TypedParts
<1>4. stack.m_macro
  BY <1>1 DEF TypedInv, StackInv
<1>5. PICK s, list, index, managers, n, old, final, longer, new, i, last :
        /\ s = stack /\ list = s.m_command_list /\ index = s.m_index /\ managers = devices
        /\ n = mementos + 1 /\ old = managers[d] /\ final = devices' /\ new = stack'
        /\ longer = new.m_command_list /\ i = Len(list) /\ last = list[i]
  OBVIOUS
<1>6. PICK g : g = getMemento(old, n)
  OBVIOUS
<1>7. PICK x \in Changes(g) :
        LET t == ended(opened(d, n), x) IN
        /\ final = [managers EXCEPT ![d] = commit(x)]
        /\ new = [s EXCEPT !.m_command_list[count(s)].parts = Append(@, t)]
  BY <1>5, <1>6 DEF commitInMacro
<1>8. PICK t : t = ended(opened(d, n), x)
  OBVIOUS
<1>9. /\ final = [managers EXCEPT ![d] = commit(x)]
      /\ new = [s EXCEPT !.m_command_list[count(s)].parts = Append(@, t)]
  BY <1>7, <1>8
<1>10. n \in Nat /\ mementos + 1 <= MaxTransactions /\ old \in Managers
  BY <1>1, <1>3, <1>5, UndoAssumption
<1>11. g \in Managers
  BY <1>6, <1>10, Opened
<1>12. x \in Managers
  BY <1>11, ChangesTyped
<1>13. /\ t \in Transactions /\ t.device = d /\ t.memento = n
       /\ t.oldDefaultPixel = old.m_defaultPixel /\ t.newDefaultPixel = x.m_defaultPixel
  BY <1>3, <1>5, <1>8, <1>10, <1>12, AtOnceTransaction
<1>14. PICK W, mark, pos : told(W, mark, pos)
  BY DEF HistoryInv
<1>15. /\ marked(list, mark) /\ i \in Nat /\ recalled(images, mark, W)
       /\ situated(managers, list, mark, pos, W, transaction, mementos)
  <2>1. /\ marked(stack.m_command_list, mark) /\ Len(stack.m_command_list) \in Nat
        /\ recalled(images, mark, W)
        /\ situated(devices, stack.m_command_list, mark, pos, W, transaction, mementos)
    BY <1>14, ToldParts
  <2>2. QED
    BY <1>5, <2>1
<1>16. pos = i
  <2>1. (gui = "macro") = TRUE
    BY <1>1
  <2>2. placed(list, index, TRUE, strokes, pos)
    BY <1>5, <1>14, <2>1 DEF told
  <2>3. QED
    BY <1>2, <1>5, <2>2, AtTheEnd
<1>17. at(managers, list, mark, i, W) /\ mark[Len(list)] < n
  <2>1. at(managers, list, mark, i, W) /\ mark[Len(list)] <= mementos
    BY <1>2, <1>15, <1>16 DEF situated
  <2>2. mark[i] \in Nat /\ i = Len(list)
    BY <1>5, <1>15, MarkedFields
  <2>3. QED
    BY <1>3, <1>5, <2>1, <2>2
<1>18. PICK open : open = [managers EXCEPT ![d] = x]
  OBVIOUS
<1>19. paintedBy(open, list, mark, i, W, d, n, t)
  <2>1. t.oldDefaultPixel = managers[d].m_defaultPixel /\ managers \in [Devices -> Managers]
        /\ g = getMemento(managers[d], n)
    BY <1>3, <1>5, <1>6, <1>13
  <2>2. QED
    BY <1>10, <1>13, <1>17, <1>18, <2>1, PaintedAtOnce
<1>20. painted(open, list, mark, i, W, d, n) /\ concludes(t, open, d, mark[i], W, n)
  BY <1>19 DEF paintedBy
<1>21. commits(open, d, final)
  BY <1>3, <1>5, <1>9, <1>18 DEF commits
<1>22. isComposed(s, t, new)
  BY <1>3, <1>4, <1>5, <1>9, <1>13, ComposedFields
<1>23. i = count(s) /\ i > 0 /\ last \in Commands /\ ~last.saved /\ longer \in Seq(Commands)
       /\ longer = [list EXCEPT ![i] = grown(last, t)] /\ new.m_index = index /\ count(new) = i
  <2>1. i = count(s)
    BY <1>5 DEF count
  <2>2. count(s) \in 1 .. count(s) /\ s.m_command_list[count(s)] \in Commands
        /\ new.m_command_list \in Seq(Commands)
        /\ new.m_command_list = [s.m_command_list EXCEPT ![count(s)] = grown(s.m_command_list[count(s)], t)]
        /\ new.m_index = s.m_index /\ Len(new.m_command_list) = count(s)
    BY <1>22 DEF isComposed
  <2>3. i > 0
    BY <1>15, <2>1, <2>2
  <2>4. ~last.saved
    BY <1>1, <1>5, <2>1 DEF Composing
  <2>5. QED
    BY <1>5, <2>1, <2>2, <2>3, <2>4 DEF count
<1>24. isFuller(list, i, t, longer)
  <2>1. list \in Seq(Commands)
    BY <1>3, <1>5
  <2>2. QED
    BY <1>5, <1>23, <2>1, Fuller
<1>25. isFilled(list, t, longer) /\ ~longer[i].saved
  BY <1>24 DEF isFuller
<1>26. mark \in [Nat -> Nat]
  BY <1>15, MarkedFields
<1>27. PICK more : isMarkedLast(mark, i, n, more)
  BY <1>10, <1>15, <1>26, MarkLast
<1>28. PICK c : c = mark[i]
  OBVIOUS
<1>29. PICK V : continues(final, longer, more, V, imageOf(final), W, c)
  <2>1. concludes(t, open, d, c, W, n)
    BY <1>20, <1>28
  <2>2. QED
    BY <1>5, <1>20, <1>21, <1>25, <1>27, <1>28, <2>1, PaintingCommitted
<1>30. at(final, longer, more, Len(longer), V) /\ agree(V, W, c)
  BY <1>29 DEF continues
<1>31. Len(longer) = i
  BY <1>5, <1>25 DEF isFilled
<1>32. recalled(images, more, V)
  <2>1. Len(images) <= i
    <3>1. Len(images) = index + 1
      BY <1>1, <1>5 DEF TypedInv, PagesInv
    <3>2. count(s) = index + 1
      BY <1>3, <1>4, <1>5, StackFields
    <3>3. QED
      BY <1>15, <1>23, <3>1, <3>2
  <2>2. \A k \in 0 .. (i - 1) : more[k] = mark[k]
    BY <1>27 DEF isMarkedLast
  <2>3. i \in 0 .. Len(list)
    BY <1>5, <1>15
  <2>4. QED
    BY <1>3, <1>15, <1>28, <1>30, <2>1, <2>2, <2>3, RecalledBefore
<1>33. situated(final, longer, more, i, V, NoTransaction, n)
  <2>1. more[i] = n
    BY <1>27 DEF isMarkedLast
  <2>2. QED
    BY <1>10, <1>30, <1>31, <2>1 DEF situated
<1>34. placed(longer, index, TRUE, strokes, i)
  <2>1. jobsFirst(strokes, 0)
    BY <1>2 DEF jobsFirst
  <2>2. QED
    BY <1>31, <2>1 DEF placed, positioned
<1>35. spared(redoTail(stack'), strokes')
  BY <1>1, <1>2 DEF spared
<1>36. HistoryInv'
  <2>1. (gui' = "macro") = TRUE /\ stack'.m_index = index
    BY <1>1, <1>5, <1>23
  <2>2. placed(stack'.m_command_list, stack'.m_index, gui' = "macro", strokes', i)
    BY <1>1, <1>5, <1>34, <2>1
  <2>3. recalled(images', more, V)
    BY <1>1, <1>32
  <2>4. situated(devices', stack'.m_command_list, more, i, V, transaction', mementos')
    BY <1>1, <1>2, <1>5, <1>33
  <2>5. QED
    BY <1>35, <2>2, <2>3, <2>4, ToldAgain
<1>37. Composing'
  BY <1>5, <1>23, <1>25 DEF Composing
<1>38. QED
  BY <1>36, <1>37

\* The macro is counted, and the oldest commands go.
LEMMA MacroEnds ==
    ASSUME TypedInv, HistoryInv, endMacro
    PROVE  HistoryInv'
<1>1. gui = "macro" /\ gui' = "idle" /\ UNCHANGED <<strokes, transaction, mementos>>
  BY DEF endMacro
<1>2. strokes = <<>> /\ transaction = NoTransaction
  BY <1>1, WorkerIdle
<1>3. /\ devices \in [Devices -> Managers] /\ mementos \in Nat /\ images \in Seq(Images)
      /\ WellKept(stack) /\ stack.m_command_list \in Seq(Commands)
  BY TypedParts
<1>4. stack.m_macro
  BY <1>1 DEF TypedInv, StackInv
<1>5. PICK s, list, index, managers, after, rest, new, i, longer, e, oldest, pages, now :
        /\ s = stack /\ list = s.m_command_list /\ index = s.m_index /\ managers = devices
        /\ after = devices' /\ new = stack' /\ rest = new.m_command_list /\ i = Len(list)
        /\ longer = [s EXCEPT !.m_macro = FALSE] /\ e = excess(longer)
        /\ oldest = SubSeq(list, 1, e) /\ pages = images' /\ now = image
  OBVIOUS
<1>6. /\ new = macroEnded(s) /\ after = deleted(managers, oldest)
      /\ pages = SubSeq(Append(images, now), e + 1, Len(images) + 1)
  BY <1>5 DEF endMacro
<1>7. PICK W, mark, pos : told(W, mark, pos)
  BY DEF HistoryInv
<1>8. /\ marked(list, mark) /\ i \in Nat /\ recalled(images, mark, W)
      /\ situated(managers, list, mark, pos, W, transaction, mementos)
  <2>1. /\ marked(stack.m_command_list, mark) /\ Len(stack.m_command_list) \in Nat
        /\ recalled(images, mark, W)
        /\ situated(devices, stack.m_command_list, mark, pos, W, transaction, mementos)
    BY <1>7, ToldParts
  <2>2. QED
    BY <1>5, <2>1
<1>9. pos = i
  <2>1. (gui = "macro") = TRUE
    BY <1>1
  <2>2. placed(list, index, TRUE, strokes, pos)
    BY <1>5, <1>7, <2>1 DEF told
  <2>3. QED
    BY <1>2, <1>5, <2>2, AtTheEnd
<1>10. at(managers, list, mark, i, W) /\ mark[Len(list)] <= mementos
  BY <1>2, <1>8, <1>9 DEF situated
<1>11. isEnded(s, e, new, oldest)
  <2>1. WellKept(s) /\ s.m_command_list \in Seq(Commands) /\ s.m_macro
        /\ oldest = SubSeq(s.m_command_list, 1, e)
    BY <1>3, <1>4, <1>5
  <2>2. QED
    BY <1>5, <1>6, <2>1, MacroEndedFields
<1>12. /\ e \in 0 .. index /\ isTail(Commands, list, e, rest) /\ new.m_index = index + 1 - e
       /\ isHead(Commands, list, e, oldest)
  BY <1>5, <1>11 DEF isEnded
<1>13. index \in Nat /\ i = index + 1 /\ Len(images) = i
  <2>1. s.m_index \in Nat /\ count(s) = s.m_index + 1
    BY <1>3, <1>4, <1>5, StackFields
  <2>2. Len(images) = index + 1
    BY <1>1, <1>5 DEF TypedInv, PagesInv
  <2>3. QED
    BY <1>5, <2>1, <2>2 DEF count
<1>14. mark \in [Nat -> Nat]
  BY <1>8, MarkedFields
<1>15. e \in 0 .. i /\ e \in Nat /\ e <= index
  BY <1>12, <1>13
<1>16. PICK more : more = [k \in Nat |-> mark[k + e]]
  OBVIOUS
<1>17. isShifted(mark, e, more)
  <2>1. ASSUME NEW k \in Nat
        PROVE  mark[k + e] \in Nat
    <3>1. k + e \in Nat
      BY <1>15, <2>1
    <3>2. QED
      BY <1>14, <3>1
  <2>2. more \in [Nat -> Nat] /\ \A k \in Nat : more[k] = mark[k + e]
    BY <1>16, <2>1
  <2>3. QED
    BY <2>2 DEF isShifted
<1>18. PICK j : j = i - e
  OBVIOUS
<1>19. at(after, rest, more, j, W)
  BY <1>6, <1>10, <1>12, <1>15, <1>17, <1>18, OldestGone
<1>20. Len(rest) = j /\ j \in Nat /\ new.m_index = j
  <2>1. Len(rest) = i - e
    BY <1>5, <1>12 DEF isTail
  <2>2. QED
    BY <1>12, <1>13, <1>15, <1>18, <2>1
<1>21. more[j] = mark[i]
  <2>1. j + e = i
    BY <1>13, <1>15, <1>18
  <2>2. QED
    BY <1>17, <1>20, <2>1 DEF isShifted
<1>22. now = W[mark[i]] /\ now \in Images
  <2>1. imageOf(managers) = W[mark[i]]
    BY <1>10, ImageAt
  <2>2. imageOf(managers) \in Images
    BY <1>3, <1>5, ImageTyped
  <2>3. now = imageOf(managers)
    BY <1>5 DEF image, imageOf
  <2>4. QED
    BY <2>1, <2>2, <2>3
<1>23. recalled(pages, more, W)
  <2>1. PICK all, f, last : all = Append(images, now) /\ f = e + 1 /\ last = i + 1
    OBVIOUS
  <2>2. pages = SubSeq(all, f, last)
    BY <1>6, <1>13, <2>1
  <2>3. isGrown(Images, images, i, now, e, pages)
    BY <1>3, <1>13, <1>15, <1>22, <2>1, <2>2, GrownAndCut
  <2>4. /\ Len(pages) = i + 1 - e
        /\ \A k \in 1 .. (i + 1 - e) : pages[k] = IF k + e < i + 1 THEN images[k + e] ELSE now
    BY <2>3 DEF isGrown
  <2>5. ASSUME NEW k \in 1 .. Len(pages)
        PROVE  pages[k] = W[more[k - 1]]
    <3>1. PICK b, h : b = k - 1 /\ h = k + e
      OBVIOUS
    <3>2. b \in Nat /\ h = b + e + 1 /\ h \in 1 .. (i + 1) /\ b + e = h - 1
      BY <1>13, <1>15, <2>4, <2>5, <3>1
    <3>3. more[b] = mark[h - 1]
      BY <1>17, <3>2 DEF isShifted
    <3>4. CASE h < i + 1
      <4>1. h \in 1 .. Len(images)
        BY <1>13, <3>2, <3>4
      <4>2. images[h] = W[mark[h - 1]]
        BY <1>8, <4>1 DEF recalled
      <4>3. pages[k] = images[h]
        BY <2>4, <2>5, <3>1, <3>4
      <4>4. QED
        BY <3>1, <3>3, <4>2, <4>3
    <3>5. CASE ~(h < i + 1)
      <4>1. h - 1 = i
        BY <1>13, <3>2, <3>5
      <4>2. pages[k] = now
        BY <2>4, <2>5, <3>1, <3>5
      <4>3. QED
        BY <1>22, <3>1, <3>3, <4>1, <4>2
    <3>6. QED
      BY <3>4, <3>5
  <2>6. QED
    BY <2>5 DEF recalled
<1>24. situated(after, rest, more, j, W, NoTransaction, mementos)
  <2>1. more[Len(rest)] <= mementos
    BY <1>5, <1>10, <1>20, <1>21
  <2>2. QED
    BY <1>19, <2>1 DEF situated
<1>25. placed(rest, j, FALSE, strokes, j)
  BY <1>2, NothingQueued
<1>26. spared(redoTail(stack'), strokes')
  BY <1>1, <1>2 DEF spared
<1>27. QED
  <2>1. (gui' = "macro") = FALSE /\ stack'.m_index = j
    BY <1>1, <1>5, <1>20
  <2>2. placed(stack'.m_command_list, stack'.m_index, gui' = "macro", strokes', j)
    BY <1>1, <1>5, <1>25, <2>1
  <2>3. recalled(images', more, W)
    BY <1>5, <1>23
  <2>4. situated(devices', stack'.m_command_list, more, j, W, transaction', mementos')
    BY <1>1, <1>2, <1>5, <1>24
  <2>5. QED
    BY <1>26, <2>2, <2>3, <2>4, ToldAgain

\* The list with one command more: before its transaction and after it.
isExtended(list, index, x, longer) ==
    /\ longer \in Seq(Commands) /\ Len(longer) = index + 1 /\ index \in Nat
    /\ \A k \in 1 .. index : longer[k] = list[k]
    /\ longer[index + 1] = x

\* Some list has the first commands and one more.
LEMMA Extended ==
    ASSUME NEW list \in Seq(Commands), NEW index \in 0 .. Len(list), NEW x \in Commands
    PROVE  \E longer : isExtended(list, index, x, longer)
<1>1. Len(list) \in Nat /\ index \in Nat /\ index <= Len(list)
  OBVIOUS
<1>2. PICK longer : longer = [k \in 1 .. (index + 1) |-> IF k <= index THEN list[k] ELSE x]
  OBVIOUS
<1>3. longer \in [1 .. (index + 1) -> Commands]
  BY <1>1, <1>2
<1>4. longer \in Seq(Commands) /\ Len(longer) = index + 1
  BY <1>1, <1>3
<1>5. longer[index + 1] = x /\ \A k \in 1 .. index : longer[k] = list[k]
  BY <1>1, <1>2
<1>6. QED
  BY <1>1, <1>4, <1>5 DEF isExtended

\* With an empty command, that list is a begun one.
LEMMA ExtendedBegins ==
    ASSUME NEW list, NEW index, NEW x, x.parts = <<>>, ~x.saved, NEW begun,
           isExtended(list, index, x, begun)
    PROVE  isBegun(list, index, begun)
BY DEF isExtended, isBegun

\* With the command that was filled, it is the begun one after its transaction.
LEMMA ExtendedFills ==
    ASSUME NEW list, NEW index, NEW x, x.parts = <<>>, NEW begun, isExtended(list, index, x, begun),
           NEW command, NEW t, command.parts = <<t>>, NEW longer, isExtended(list, index, command, longer)
    PROVE  isFilled(begun, t, longer)
<1>1. /\ longer \in Seq(Commands) /\ Len(longer) = index + 1 /\ index \in Nat
      /\ \A k \in 1 .. index : longer[k] = list[k]
      /\ longer[index + 1] = command
  BY DEF isExtended
<1>2. /\ begun \in Seq(Commands) /\ Len(begun) = index + 1
      /\ \A k \in 1 .. index : begun[k] = list[k]
      /\ begun[index + 1] = x
  BY DEF isExtended
<1>3. PICK j : j = index + 1
  OBVIOUS
<1>4. j \in Nat /\ j > 0 /\ j - 1 = index
  BY <1>1, <1>3
<1>5. longer[j].parts = Append(begun[j].parts, t) /\ Len(longer[j].parts) = 1
  <2>1. longer[j].parts = <<t>> /\ begun[j].parts = <<>>
    BY <1>1, <1>2, <1>3
  <2>2. Append(<<>>, t) = <<t>> /\ Len(<<t>>) = 1
    OBVIOUS
  <2>3. QED
    BY <2>1, <2>2
<1>6. Len(longer) = j /\ Len(begun) = j
  BY <1>1, <1>2, <1>3
<1>7. \A k \in 1 .. (j - 1) : longer[k] = begun[k]
  BY <1>1, <1>2, <1>4
<1>8. longer[Len(begun)].parts = Append(begun[Len(begun)].parts, t)
      /\ Len(longer[Len(begun)].parts) = 1
  BY <1>5, <1>6
<1>9. \A k \in 1 .. (Len(begun) - 1) : longer[k] = begun[k]
  BY <1>6, <1>7
<1>10. longer \in Seq(Commands) /\ Len(longer) = Len(begun) /\ Len(begun) \in Nat /\ Len(begun) > 0
  BY <1>1, <1>4, <1>6
<1>11. QED
  BY <1>8, <1>9, <1>10 DEF isFilled

\* push() gives the tail of that list.
LEMMA ExtendedGrows ==
    ASSUME NEW list, NEW index, NEW command, NEW longer, isExtended(list, index, command, longer),
           NEW e, e \in 0 .. index, NEW rest, isGrown(Commands, list, index, command, e, rest),
           NEW oldest, isHead(Commands, list, e, oldest)
    PROVE  isTail(Commands, longer, e, rest) /\ isHead(Commands, longer, e, oldest)
<1>1. /\ longer \in Seq(Commands) /\ Len(longer) = index + 1 /\ index \in Nat
      /\ \A k \in 1 .. index : longer[k] = list[k]
      /\ longer[index + 1] = command
  BY DEF isExtended
<1>2. /\ rest \in Seq(Commands) /\ Len(rest) = index + 1 - e /\ e \in Nat
      /\ \A i \in 1 .. (index + 1 - e) : rest[i] = IF i + e < index + 1 THEN list[i + e] ELSE command
  BY DEF isGrown
<1>3. ASSUME NEW i \in 1 .. (Len(longer) - e)
      PROVE  rest[i] = longer[i + e]
  <2>1. PICK k : k = i + e
    OBVIOUS
  <2>2. i \in 1 .. (index + 1 - e) /\ k \in 1 .. (index + 1)
    BY <1>1, <1>2, <1>3, <2>1
  <2>3. CASE k < index + 1
    <3>1. k \in 1 .. index
      BY <1>1, <2>2, <2>3
    <3>2. rest[i] = list[k] /\ longer[k] = list[k]
      BY <1>1, <1>2, <2>1, <2>2, <2>3, <3>1
    <3>3. QED
      BY <2>1, <3>2
  <2>4. CASE ~(k < index + 1)
    <3>1. k = index + 1
      BY <1>1, <2>2, <2>4
    <3>2. rest[i] = command
      BY <1>2, <2>1, <2>2, <2>4
    <3>3. QED
      BY <1>1, <2>1, <3>1, <3>2
  <2>5. QED
    BY <2>3, <2>4
<1>4. isTail(Commands, longer, e, rest)
  <2>1. Len(rest) = Len(longer) - e /\ Len(longer) \in Nat
    BY <1>1, <1>2
  <2>2. QED
    BY <1>2, <1>3, <2>1 DEF isTail
<1>5. isHead(Commands, longer, e, oldest)
  <2>1. /\ oldest \in Seq(Commands) /\ Len(oldest) = e /\ e \in Nat
        /\ \A i \in 1 .. e : oldest[i] = list[i]
    BY DEF isHead
  <2>2. \A i \in 1 .. e : longer[i] = list[i]
    BY <1>1, <1>2
  <2>3. QED
    BY <2>1, <2>2 DEF isHead
<1>6. QED
  BY <1>4, <1>5

\* The marks can be continued for one command more.
LEMMA MarkedToo ==
    ASSUME NEW mark \in [Nat -> Nat], NEW i \in Nat
    PROVE  \E more : isMarkedToo(mark, i, more)
<1>1. PICK more : more = [k \in Nat |-> IF k <= i THEN mark[k] ELSE mark[i]]
  OBVIOUS
<1>2. isMarkedToo(mark, i, more)
  BY <1>1 DEF isMarkedToo
<1>3. QED
  BY <1>2

\* The marks can be shifted.
LEMMA Shifted ==
    ASSUME NEW mark \in [Nat -> Nat], NEW e \in Nat
    PROVE  \E more : isShifted(mark, e, more)
<1>1. PICK more : more = [k \in Nat |-> mark[k + e]]
  OBVIOUS
<1>2. ASSUME NEW k \in Nat
      PROVE  mark[k + e] \in Nat
  <2>1. k + e \in Nat
    BY <1>2
  <2>2. QED
    BY <2>1
<1>3. more \in [Nat -> Nat] /\ \A k \in Nat : more[k] = mark[k + e]
  BY <1>1, <1>2
<1>4. QED
  BY <1>3 DEF isShifted

\* A place not behind another.
LEMMA NotBehind ==
    ASSUME NEW k \in Nat, NEW e \in Nat, NEW index \in Nat, k + e <= index, NEW b, b = k + e
    PROVE  b \in 0 .. index
OBVIOUS

\* Where the devices are when the transaction is committed, what could be redone
\* is deleted, and the oldest commands are.
lengthened(after, rest, index, e, mark, W, n) ==
    \E V, more :
        /\ at(after, rest, more, index + 1 - e, V) /\ agree(V, W, mark[index])
        /\ more[index + 1 - e] = n
        /\ \A k \in Nat : k + e <= index => more[k] = mark[k + e]

\* push() after a commit: the devices are at the end of the shorter and longer list.
LEMMA Lengthened ==
    ASSUME NEW managers, NEW list, NEW mark, NEW index \in Nat, NEW W, NEW d, NEW n,
           painted(managers, list, mark, index, W, d, n),
           NEW t, concludes(t, managers, d, mark[index], W, n),
           NEW command \in Commands, command.parts = <<t>>, NEW done, commits(managers, d, done),
           NEW tail, isTail(Commands, list, index, tail), NEW e, e \in 0 .. index,
           NEW oldest, isHead(Commands, list, e, oldest),
           NEW rest, isGrown(Commands, list, index, command, e, rest),
           NEW after, after = deleted(deleted(done, tail), oldest)
    PROVE  lengthened(after, rest, index, e, mark, W, n)
<1>1. PICK S, floor, top, c : /\ S = transactionsIn(list) /\ floor = mark[0] /\ top = mark[Len(list)]
                              /\ c = mark[index]
  OBVIOUS
<1>2. /\ marked(list, mark) /\ index \in 0 .. Len(list)
      /\ story(S, floor, top, W) /\ n \in Nat /\ top < n /\ c <= top
  BY <1>1 DEF painted, underway
<1>3. /\ list \in Seq(Commands) /\ mark \in [Nat -> Nat] /\ Len(list) \in Nat /\ index \in Nat
  <2>1. list \in Seq(Commands) /\ mark \in [Nat -> Nat] /\ Len(list) \in Nat
    BY <1>2, MarkedFields
  <2>2. QED
    BY <2>1
<1>4. PICK x : x = [saved |-> FALSE, parts |-> <<>>]
  OBVIOUS
<1>5. x \in Commands /\ x.parts = <<>> /\ ~x.saved
  BY <1>4 DEF Commands
<1>6. PICK begun : isExtended(list, index, x, begun)
  BY <1>2, <1>3, <1>5, Extended
<1>7. PICK longer : isExtended(list, index, command, longer)
  BY <1>2, <1>3, Extended
<1>8. isBegun(list, index, begun)
  BY <1>5, <1>6, ExtendedBegins
<1>9. isFilled(begun, t, longer)
  BY <1>5, <1>6, <1>7, ExtendedFills
<1>10. isTail(Commands, longer, e, rest) /\ isHead(Commands, longer, e, oldest)
  BY <1>7, ExtendedGrows
<1>11. PICK more1 : isMarkedToo(mark, index, more1)
  BY <1>3, MarkedToo
<1>12. PICK j : j = index + 1
  OBVIOUS
<1>13. painted(managers, begun, more1, j, W, d, n)
  BY <1>8, <1>11, <1>12, BeginsPainted
<1>14. /\ more1 \in [Nat -> Nat] /\ \A k \in 0 .. index : more1[k] = mark[k]
       /\ more1[j] = c
  BY <1>1, <1>11, <1>12 DEF isMarkedToo
<1>15. j \in Nat /\ Len(begun) = j /\ Len(longer) = j
  BY <1>3, <1>6, <1>7, <1>12 DEF isExtended
<1>16. PICK more2 : isMarkedLast(more1, j, n, more2)
  BY <1>2, <1>14, <1>15, MarkLast
<1>17. /\ more2 \in [Nat -> Nat] /\ \A k \in 0 .. index : more2[k] = mark[k]
       /\ more2[j] = n
  <2>1. more2 \in [Nat -> Nat] /\ \A k \in 0 .. (j - 1) : more2[k] = more1[k]
        /\ more2[j] = n
    BY <1>16 DEF isMarkedLast
  <2>2. j - 1 = index
    BY <1>3, <1>12
  <2>3. QED
    BY <1>14, <2>1, <2>2
<1>18. PICK V : continues(done, longer, more2, V, imageOf(done), W, c)
  <2>1. concludes(t, managers, d, c, W, n)
    BY <1>1
  <2>2. c = more1[j] /\ j = Len(begun)
    BY <1>14, <1>15
  <2>3. QED
    BY <1>9, <1>13, <1>16, <2>1, <2>2, PaintingCommitted
<1>19. at(done, longer, more2, j, V) /\ agree(V, W, c)
  BY <1>15, <1>18 DEF continues
<1>20. deleted(done, tail) = done
  <2>1. isNew(tail, S, floor, c)
    BY <1>1, <1>2, TailIsNew
  <2>2. transactionsIn(tail) = later(S, c)
    BY <1>1, <1>2, TailIsLater
  <2>3. transactionsIn(longer) = transactionsIn(begun) \cup {t}
    <3>1. marked(begun, more1)
      BY <1>2, <1>8, <1>11, BegunMarked
    <3>2. t \in Transactions /\ t.memento = n
      BY DEF concludes
    <3>3. more1[Len(begun)] < n
      <4>1. top \in Nat /\ c \in Nat
        BY <1>1, <1>3
      <4>2. QED
        BY <1>2, <1>14, <1>15, <4>1
    <3>4. isMarkedLast(more1, Len(begun), n, more2)
      BY <1>15, <1>16
    <3>5. QED
      BY <1>9, <3>1, <3>2, <3>3, <3>4, FilledMarked
  <2>4. transactionsIn(begun) = through(S, c)
    BY <1>1, <1>2, <1>8, BegunSpells
  <2>5. ASSUME NEW u \in transactionsIn(tail)
        PROVE  /\ more2[0] < u.memento
               /\ \A s \in transactionsIn(longer) : s.memento <= more2[j] => s.memento # u.memento
    <3>1. floor < u.memento /\ \A s \in S : s.memento <= c => s.memento # u.memento
      BY <2>1, <2>5 DEF isNew
    <3>2. more2[0] = floor
      BY <1>1, <1>3, <1>17
    <3>3. u \in S
      BY <2>2, <2>5 DEF later
    <3>4. u.memento <= top /\ u.memento \in Nat
      <4>1. u \in Transactions /\ u.memento <= top
        BY <1>2, <3>3 DEF story, singular
      <4>2. QED
        BY <4>1, TransactionFields
    <3>5. t.memento # u.memento
      <4>1. t.memento = n /\ top \in Nat
        BY <1>1, <1>3 DEF concludes
      <4>2. QED
        BY <1>2, <3>4, <4>1
    <3>6. ASSUME NEW s \in transactionsIn(longer)
          PROVE  s.memento # u.memento
      <4>1. s \in through(S, c) \/ s = t
        BY <2>3, <2>4, <3>6
      <4>2. QED
        BY <3>1, <3>5, <4>1 DEF through
    <3>7. QED
      BY <3>1, <3>2, <3>6
  <2>6. tail \in Seq(Commands)
    BY DEF isTail
  <2>7. QED
    BY <1>19, <2>5, <2>6, TailDeleted
<1>21. after = deleted(done, oldest)
  BY <1>20
<1>22. e \in Nat /\ e \in 0 .. j /\ e <= index
  BY <1>3, <1>12
<1>23. PICK more : isShifted(more2, e, more)
  BY <1>17, <1>22, Shifted
<1>24. PICK h : h = j - e
  OBVIOUS
<1>25. at(after, rest, more, h, V)
  BY <1>10, <1>19, <1>21, <1>22, <1>23, <1>24, OldestGone
<1>26. more[h] = n
  <2>1. h \in Nat /\ h + e = j
    BY <1>15, <1>22, <1>24
  <2>2. QED
    BY <1>17, <1>23, <2>1 DEF isShifted
<1>27. ASSUME NEW k \in Nat, k + e <= index
       PROVE  more[k] = mark[k + e]
  <2>1. PICK b : b = k + e
    OBVIOUS
  <2>2. b \in 0 .. index
    BY <1>3, <1>22, <1>27, <2>1, NotBehind
  <2>3. more[k] = more2[b]
    BY <1>23, <2>1 DEF isShifted
  <2>4. QED
    BY <1>17, <2>1, <2>2, <2>3
<1>28. h = index + 1 - e
  BY <1>3, <1>12, <1>22, <1>24
<1>29. agree(V, W, mark[index])
  BY <1>1, <1>19
<1>30. QED
  BY <1>25, <1>26, <1>27, <1>28, <1>29 DEF lengthened

\* The images follow.
follows(more, mark, index, e, n) ==
    more[index + 1 - e] = n /\ \A k \in Nat : k + e <= index => more[k] = mark[k + e]

\* Images are counted from 1, the one before every command first.
inPlace(old, list, index, i, e) ==
    /\ Len(old) = Len(list) + 1
    /\ index \in 0 .. Len(list) /\ i = index + 1 /\ e \in 0 .. index

isThe(now, V, n) == now = V[n]

\* The images that are remembered stay those of the worlds at the marks.
LEMMA RecalledGrown ==
    ASSUME NEW list, NEW mark, marked(list, mark), NEW index, NEW e, NEW c, c = mark[index],
           NEW V, NEW W, agree(V, W, c), NEW n, NEW more, follows(more, mark, index, e, n),
           NEW old, NEW i, inPlace(old, list, index, i, e), recalled(old, mark, W),
           NEW now, isThe(now, V, n),
           NEW pages, isGrown(Images, old, i, now, e, pages)
    PROVE  recalled(pages, more, V)
<1>7. marked(list, mark) => Len(list) \in Nat
  BY MarkedFields
<1>8. /\ index \in Nat /\ index <= Len(list) /\ i = index + 1 /\ Len(old) = Len(list) + 1
      /\ now = V[n]
  BY <1>7 DEF inPlace, isThe
<1>1. e \in Nat /\ e <= index /\ e \in 0 .. index
  BY <1>7 DEF inPlace
<1>5. mark \in [Nat -> Nat] /\ Len(list) \in Nat
  BY MarkedFields
<1>6. more[index + 1 - e] = n /\ \A k \in Nat : k + e <= index => more[k] = mark[k + e]
  BY DEF follows
<1>2. /\ Len(pages) = index + 2 - e
      /\ \A k \in 1 .. (index + 2 - e) : pages[k] = IF k + e < index + 2 THEN old[k + e] ELSE now
  <2>1. i + 1 - e = index + 2 - e /\ i + 1 = index + 2
    BY <1>1, <1>8
  <2>2. QED
    BY <2>1 DEF isGrown
<1>3. ASSUME NEW k \in 1 .. Len(pages)
      PROVE  pages[k] = V[more[k - 1]]
  <2>1. PICK b, h, g : b = k - 1 /\ h = k + e /\ g = b + e
    OBVIOUS
  <2>2. b \in Nat /\ k \in 1 .. (index + 2 - e) /\ h \in Nat /\ h >= 1 /\ h <= index + 2
        /\ g = h - 1 /\ g \in Nat
    BY <1>1, <1>2, <1>8, <2>1
  <2>3. CASE h < index + 2
    <3>1. pages[k] = old[h]
      BY <1>2, <1>8, <2>1, <2>2, <2>3
    <3>2. h \in 1 .. Len(old)
      BY <1>5, <1>8, <2>2, <2>3
    <3>3. old[h] = W[mark[g]]
      BY <2>2, <3>2 DEF recalled
    <3>4. b + e <= index /\ g \in 0 .. index
      BY <1>1, <1>8, <2>1, <2>2, <2>3
    <3>5. more[b] = mark[g]
      BY <1>6, <1>8, <2>1, <2>2, <3>4
    <3>6. mark[g] \in 0 .. c
      <4>1. mark[g] \in Nat /\ c \in Nat
        BY <1>5, <1>8, <2>2
      <4>2. g \in 0 .. Len(list) /\ index \in g .. Len(list)
        BY <1>5, <1>8, <2>2, <3>4
      <4>3. mark[g] <= mark[index]
        BY <4>2, MarksRise
      <4>4. QED
        BY <4>1, <4>3
    <3>7. V[mark[g]] = W[mark[g]]
      BY <3>6 DEF agree
    <3>8. QED
      BY <2>1, <3>1, <3>3, <3>5, <3>7
  <2>4. CASE ~(h < index + 2)
    <3>1. pages[k] = now
      BY <1>2, <2>1, <2>2, <2>4
    <3>2. b = index + 1 - e
      BY <1>1, <1>8, <2>1, <2>2, <2>4
    <3>3. more[b] = n
      BY <1>6, <3>2
    <3>4. QED
      BY <1>8, <2>1, <3>1, <3>3
  <2>5. QED
    BY <2>3, <2>4
<1>4. QED
  BY <1>3 DEF recalled

\* A command is pushed with its transaction, the last that was opened.
LEMMA CommandPushed ==
    ASSUME TypedInv, ~stack.m_macro, Len(images) = count(stack) + 1,
           NEW managers, NEW list, list = stack.m_command_list, NEW index, index = stack.m_index,
           NEW mark, NEW W, NEW d, NEW n, painted(managers, list, mark, index, W, d, n),
           recalled(images, mark, W), NEW t, concludes(t, managers, d, mark[index], W, n),
           NEW command \in Commands, command.parts = <<t>>, NEW done, commits(managers, d, done),
           NEW e, NEW oldest, hasPushed(done, command, e, oldest),
           transaction' = NoTransaction, mementos' = n, gui' # "macro", jobsFirst(strokes', 0)
    PROVE  HistoryInv'
<1>1. /\ WellKept(stack) /\ stack.m_command_list \in Seq(Commands) /\ StackInv /\ Shapes
      /\ images \in Seq(Images)
  BY TypedParts DEF TypedInv
<1>2. PICK s, tail, new, rest, after, now, pages :
        /\ s = stack /\ tail = redoTail(s) /\ new = stack' /\ rest = new.m_command_list
        /\ after = devices' /\ now = image' /\ pages = images'
  OBVIOUS
<1>3. /\ isPushed(s, command, e, new, oldest)
      /\ after = deleted(deleted(done, tail), oldest)
      /\ isGrown(Images, images, index + 1, now, e, pages)
  BY <1>2 DEF hasPushed
<1>4. index \in Nat /\ index \in 0 .. Len(list)
  <2>1. s.m_index \in Nat /\ s.m_index \in 0 .. count(s) /\ count(s) = Len(s.m_command_list)
    BY <1>1, <1>2, StackFields
  <2>2. QED
    BY <1>2, <2>1
<1>5. isTail(Commands, list, index, tail)
  BY <1>1, <1>2, RedoTail
<1>6. /\ e \in 0 .. index /\ isGrown(Commands, list, index, command, e, rest)
      /\ new.m_index = index + 1 - e /\ isHead(Commands, list, e, oldest)
  BY <1>2, <1>3 DEF isPushed
<1>7. lengthened(after, rest, index, e, mark, W, n)
  BY <1>3, <1>4, <1>5, <1>6, Lengthened
<1>8. PICK V, more :
        /\ at(after, rest, more, index + 1 - e, V) /\ agree(V, W, mark[index])
        /\ more[index + 1 - e] = n
        /\ \A k \in Nat : k + e <= index => more[k] = mark[k + e]
  BY <1>7 DEF lengthened
<1>9. PICK j : j = index + 1 - e
  OBVIOUS
<1>10. j \in Nat /\ Len(rest) = j /\ new.m_index = j /\ rest \in Seq(Commands)
  BY <1>4, <1>6, <1>9 DEF isGrown
<1>11. now = V[n]
  <2>1. imageOf(after) = V[more[j]]
    BY <1>8, <1>9, ImageAt
  <2>2. now = imageOf(after)
    BY <1>2 DEF image, imageOf
  <2>3. QED
    BY <1>8, <1>9, <2>1, <2>2
<1>12. marked(list, mark) /\ n \in Nat
  BY DEF painted, underway
<1>13. mark \in [Nat -> Nat] /\ Len(list) \in Nat
  BY <1>12, MarkedFields
<1>16. recalled(pages, more, V)
  <2>1. Len(images) = Len(list) + 1
    BY DEF count
  <2>2. follows(more, mark, index, e, n)
    BY <1>8 DEF follows
  <2>3. PICK c, i : c = mark[index] /\ i = index + 1
    OBVIOUS
  <2>4. agree(V, W, c) /\ isGrown(Images, images, i, now, e, pages)
    BY <1>3, <1>8, <2>3
  <2>5. inPlace(images, list, index, i, e) /\ isThe(now, V, n)
    BY <1>4, <1>6, <1>11, <2>1, <2>3 DEF inPlace, isThe
  <2>6. /\ marked(list, mark) /\ c = mark[index] /\ recalled(images, mark, W)
    BY <1>12, <2>3
  <2>7. QED
    BY <2>2, <2>4, <2>5, <2>6, RecalledGrown
<1>17. situated(after, rest, more, j, V, NoTransaction, n)
  <2>1. more[Len(rest)] = n
    BY <1>8, <1>9, <1>10
  <2>2. more[Len(rest)] <= n
    BY <1>12, <2>1
  <2>3. QED
    BY <1>8, <1>9, <2>2 DEF situated
<1>18. PICK composing, queue : composing = (gui' = "macro") /\ queue = strokes'
  OBVIOUS
<1>19. placed(rest, j, composing, queue, j)
  BY <1>18, StillAtTheIndex
<1>20. spared(redoTail(new), queue)
  <2>1. PICK r, f : r = redoTail(new) /\ f = j + 1
    OBVIOUS
  <2>2. r = SubSeq(rest, f, Len(rest))
    BY <1>2, <1>10, <2>1 DEF redoTail, count
  <2>3. j \in 0 .. Len(rest)
    BY <1>10
  <2>4. isTail(Commands, rest, j, r)
    BY <1>10, <2>1, <2>2, <2>3, CutTail
  <2>5. transactionsIn(r) = {}
    BY <1>10, <2>4, NothingToRedo
  <2>6. QED
    BY <2>1, <2>5 DEF spared
<1>21. QED
  BY <1>2, <1>10, <1>16, <1>17, <1>18, <1>19, <1>20, ToldAgain

\* A transaction of the GUI thread becomes a command.
LEMMA LegacyIsTold ==
    ASSUME TypedInv, HistoryInv, NEW d \in Devices, commitLegacy(d)
    PROVE  HistoryInv'
<1>1. /\ devices \in [Devices -> Managers] /\ mementos \in Nat /\ StackInv /\ Shapes
  BY TypedParts DEF TypedInv
<1>2. /\ underLock /\ mementos < MaxTransactions /\ mementos' = mementos + 1 /\ gui' = "idle"
      /\ UNCHANGED <<strokes, transaction>>
  BY DEF commitLegacy
<1>3. /\ strokes = <<>> /\ transaction = NoTransaction /\ ~stack.m_macro /\ gui # "macro"
      /\ Len(images) = count(stack) + 1
  BY <1>2, UnderLock
<1>4. PICK managers, n, list, index, old :
        /\ managers = devices /\ n = mementos + 1 /\ list = stack.m_command_list
        /\ index = stack.m_index /\ old = managers[d]
  OBVIOUS
<1>5. PICK g : g = getMemento(old, n)
  OBVIOUS
<1>6. PICK x \in Changes(g) :
        LET t == ended(opened(d, n), x)
        IN  push([managers EXCEPT ![d] = commit(x)], [saved |-> FALSE, parts |-> <<t>>])
  BY <1>4, <1>5 DEF commitLegacy
<1>7. PICK t, done, parts, command :
        /\ t = ended(opened(d, n), x) /\ done = [managers EXCEPT ![d] = commit(x)]
        /\ parts = <<t>> /\ command = [saved |-> FALSE, parts |-> parts]
  OBVIOUS
<1>8. push(done, command)
  BY <1>6, <1>7
<1>9. n \in Nat /\ mementos + 1 <= MaxTransactions /\ old \in Managers
  BY <1>1, <1>2, <1>4, UndoAssumption
<1>10. x \in Managers
  <2>1. g \in Managers
    BY <1>5, <1>9, Opened
  <2>2. QED
    BY <2>1, ChangesTyped
<1>11. /\ t \in Transactions /\ t.device = d /\ t.memento = n
       /\ t.oldDefaultPixel = old.m_defaultPixel /\ t.newDefaultPixel = x.m_defaultPixel
  BY <1>1, <1>4, <1>7, <1>9, <1>10, AtOnceTransaction
<1>12. command \in Commands /\ command.parts = <<t>>
  <2>1. parts \in Seq(Transactions)
    BY <1>7, <1>11
  <2>2. QED
    BY <1>7, <2>1 DEF Commands
<1>13. done \in [Devices -> Managers]
  <2>1. PICK y : y = commit(x)
    OBVIOUS
  <2>2. y \in Managers
    BY <1>10, <2>1, Committed
  <2>3. QED
    BY <1>1, <1>4, <1>7, <2>1, <2>2
<1>14. PICK e, oldest : hasPushed(done, command, e, oldest)
  BY <1>1, <1>3, <1>8, <1>12, <1>13, Pushing
<1>15. PICK W, mark, pos : told(W, mark, pos)
  BY DEF HistoryInv
<1>16. jobsFirst(strokes, 0) /\ jobsFirst(strokes', 0)
  BY <1>2, <1>3 DEF jobsFirst
<1>17. /\ pos = index /\ marked(list, mark) /\ recalled(images, mark, W)
       /\ situated(managers, list, mark, pos, W, transaction, mementos)
  <2>1. /\ marked(stack.m_command_list, mark) /\ pos = stack.m_index
        /\ recalled(images, mark, W)
        /\ situated(devices, stack.m_command_list, mark, pos, W, transaction, mementos)
    BY <1>3, <1>15, <1>16, ToldParts
  <2>2. QED
    BY <1>4, <2>1
<1>18. at(managers, list, mark, index, W) /\ mark[Len(list)] < n
  <2>1. at(managers, list, mark, index, W) /\ mark[Len(list)] <= mementos
    BY <1>3, <1>17 DEF situated
  <2>2. mark[Len(list)] \in Nat
    BY <1>17, MarkedFields
  <2>3. QED
    BY <1>1, <1>4, <2>1, <2>2
<1>19. PICK open : open = [managers EXCEPT ![d] = x]
  OBVIOUS
<1>20. paintedBy(open, list, mark, index, W, d, n, t)
  <2>1. t.oldDefaultPixel = managers[d].m_defaultPixel /\ managers \in [Devices -> Managers]
        /\ g = getMemento(managers[d], n)
    BY <1>1, <1>4, <1>5, <1>11
  <2>2. QED
    BY <1>9, <1>11, <1>18, <1>19, <2>1, PaintedAtOnce
<1>21. painted(open, list, mark, index, W, d, n) /\ concludes(t, open, d, mark[index], W, n)
  BY <1>20 DEF paintedBy
<1>22. commits(open, d, done)
  BY <1>1, <1>4, <1>7, <1>19 DEF commits
<1>23. transaction' = NoTransaction /\ mementos' = n /\ gui' # "macro"
  BY <1>2, <1>3, <1>4
<1>24. QED
  BY <1>3, <1>4, <1>12, <1>14, <1>16, <1>17, <1>21, <1>22, <1>23, CommandPushed

\* A finished stroke becomes a command.
LEMMA StrokeIsTold ==
    ASSUME TypedInv, HistoryInv, finishStrokeCallback
    PROVE  HistoryInv'
<1>1. /\ devices \in [Devices -> Managers] /\ strokes \in Seq(Strokes) /\ mementos \in Nat
      /\ StackInv /\ Shapes /\ PagesInv
  BY TypedParts DEF TypedInv
<1>2. transaction # NoTransaction
  BY DEF finishStrokeCallback
<1>3. /\ transaction \in Transactions /\ transaction.device \in Devices
      /\ strokes # <<>> /\ paints(Head(strokes))
      /\ isQueue(strokes, 0, transaction, mementos)
  BY <1>2, AtWork
<1>4. PICK d, m, t, parts, command, r, managers, n, list, index, done :
        /\ d = transaction.device /\ m = devices[d] /\ t = ended(transaction, m)
        /\ r = Tail(strokes) /\ parts = <<t>> /\ command = [saved |-> TRUE, parts |-> parts]
        /\ managers = devices /\ n = mementos /\ list = stack.m_command_list
        /\ index = stack.m_index /\ done = [devices EXCEPT ![d] = commit(@)]
  OBVIOUS
<1>5. /\ push(done, command) /\ transaction' = NoTransaction /\ strokes' = r /\ gui # "macro"
      /\ UNCHANGED <<gui, mementos>>
  BY <1>4 DEF finishStrokeCallback
<1>6. d \in Devices /\ m \in Managers
  BY <1>1, <1>3, <1>4
<1>7. /\ t \in Transactions /\ t.device = d /\ t.memento = transaction.memento
      /\ t.oldDefaultPixel = transaction.oldDefaultPixel /\ t.newDefaultPixel = m.m_defaultPixel
  BY <1>3, <1>4, <1>6, EndedTyped
<1>8. command \in Commands /\ command.parts = <<t>>
  <2>1. parts \in Seq(Transactions)
    BY <1>4, <1>7
  <2>2. QED
    BY <1>4, <2>1 DEF Commands
<1>9. done \in [Devices -> Managers]
  <2>1. PICK y : y = commit(m)
    OBVIOUS
  <2>2. y \in Managers
    BY <1>6, <2>1, Committed
  <2>3. done = [managers EXCEPT ![d] = y]
    BY <1>4, <2>1
  <2>4. QED
    BY <1>1, <1>4, <2>2, <2>3
<1>10. ~stack.m_macro /\ Len(images) = count(stack) + 1
  BY <1>1, <1>5 DEF StackInv, PagesInv
<1>11. PICK e, oldest : hasPushed(done, command, e, oldest)
  BY <1>1, <1>5, <1>8, <1>9, <1>10, Pushing
<1>12. PICK W, mark, pos : told(W, mark, pos)
  BY DEF HistoryInv
<1>13. jobsFirst(strokes, 0)
  BY <1>3 DEF isQueue
<1>14. /\ pos = index /\ recalled(images, mark, W)
       /\ situated(managers, list, mark, pos, W, transaction, mementos)
  <2>1. /\ pos = stack.m_index /\ recalled(images, mark, W)
        /\ situated(devices, stack.m_command_list, mark, pos, W, transaction, mementos)
    BY <1>5, <1>12, <1>13, ToldParts
  <2>2. QED
    BY <1>4, <2>1
<1>15. /\ painted(managers, list, mark, index, W, d, n) /\ transaction.memento = n
       /\ transaction.oldDefaultPixel = W[mark[index]][d].defaultPixel
  BY <1>2, <1>4, <1>14 DEF situated
<1>16. concludes(t, managers, d, mark[index], W, n)
  BY <1>4, <1>7, <1>15 DEF concludes
<1>17. commits(managers, d, done)
  BY <1>4 DEF commits
<1>18. jobsFirst(r, 0)
  <2>1. isQueue(r, 0, NoTransaction, mementos)
    BY <1>1, <1>3, <1>4, StrokeGoes
  <2>2. QED
    BY <2>1 DEF isQueue
<1>19. mementos' = n /\ gui' # "macro" /\ jobsFirst(strokes', 0)
  BY <1>4, <1>5, <1>18
<1>20. list = stack.m_command_list /\ index = stack.m_index /\ transaction' = NoTransaction
       /\ recalled(images, mark, W) /\ painted(managers, list, mark, index, W, d, n)
  BY <1>4, <1>5, <1>14, <1>15
<1>21. QED
  BY <1>8, <1>10, <1>11, <1>16, <1>17, <1>19, <1>20, CommandPushed

-----------------------------------------------------------------------------
(***************************************************************************)
(* The invariant holds.                                                    *)
(***************************************************************************)

\* The macro that is begun is carried out at once.
LEMMA MacroBegunUnsaved ==
    ASSUME TypedInv, beginMacro
    PROVE  Composing'
<1>1. underLock /\ UNCHANGED strokes
  BY DEF beginMacro
<1>2. gui # "macro" /\ ~stack.m_macro
  BY <1>1, UnderLock
<1>3. PICK s, command, new, longer : /\ s = stack /\ command = [saved |-> FALSE, parts |-> <<>>]
                                     /\ new = stack' /\ longer = new.m_command_list
  OBVIOUS
<1>4. WellKept(s) /\ s.m_command_list \in Seq(Commands) /\ ~s.m_macro
  BY <1>2, <1>3, TypedParts
<1>5. new = macroBegun(s, command)
  BY <1>3 DEF beginMacro
<1>6. command \in Commands
  BY <1>3 DEF Commands
<1>7. PICK u : isLonger(s, command, u) /\ new = [u EXCEPT !.m_macro = TRUE]
  BY <1>4, <1>5, <1>6, MacroBegunFields
<1>8. longer = u.m_command_list
  BY <1>3, <1>7 DEF isLonger, StacksOf
<1>9. longer[Len(longer)] = command
  BY <1>7, <1>8 DEF isLonger
<1>10. ~longer[Len(longer)].saved
  BY <1>3, <1>9
<1>11. QED
  BY <1>3, <1>10 DEF Composing, count

\* Every step keeps that.
LEMMA ComposingKept == TypedInv /\ HistoryInv /\ Composing /\ Next => Composing'
<1>1. SUFFICES ASSUME TypedInv, HistoryInv, Composing, Next PROVE Composing'
  OBVIOUS
<1>2. ASSUME gui' # "macro" PROVE Composing'
  BY <1>2 DEF Composing
<1>3. ASSUME gui' = gui, stack' = stack PROVE Composing'
  BY <1>1, <1>3 DEF Composing
<1>4. CASE startHandling \/ giveUp \/ deliver \/ save \/ failToSave \/ exportDocument
           \/ saveRemote \/ uploadFinished \/ slotAutoSave
  BY <1>2, <1>4 DEF startHandling, giveUp, deliver, save, failToSave, exportDocument,
                    saveRemote, uploadFinished, slotAutoSave
<1>5. CASE \/ \E d \in Devices : startStroke(d)
           \/ \E i \in 1 .. Len(strokes) : closeStroke(i, "ended") \/ closeStroke(i, "cancelled")
  BY <1>3, <1>5 DEF startStroke, closeStroke
<1>6. CASE undo \/ redo \/ \E idx \in 0 .. count(stack) : setIndex(idx)
  BY <1>2, <1>6 DEF undo, redo, setIndex
<1>7. CASE \E d \in Devices : commitLegacy(d)
  BY <1>2, <1>7 DEF commitLegacy
<1>8. CASE \E d \in Devices : commitInMacro(d)
  BY <1>1, <1>8, MacroIsTold
<1>9. CASE beginMacro
  BY <1>1, <1>9, MacroBegunUnsaved
<1>10. CASE endMacro
  BY <1>2, <1>10 DEF endMacro
<1>11. CASE initStrokeCallback \/ doStrokeCallback \/ cancelStrokeCallback \/ dropStroke \/ runCommand
  BY <1>3, <1>11 DEF initStrokeCallback, doStrokeCallback, cancelStrokeCallback, dropStroke, runCommand
<1>12. CASE finishStrokeCallback
  BY <1>2, <1>12 DEF finishStrokeCallback
<1>13. QED
  BY <1>1, <1>4, <1>5, <1>6, <1>7, <1>8, <1>9, <1>10, <1>11, <1>12 DEF Next, GUI, Worker

\* A device as it was loaded.
LEMMA LoadedDevice ==
    ASSUME NEW contents, NEW pixel, NEW m, m = Loaded(contents, pixel), NEW W, NEW w,
           w.tiles = contents, w.defaultPixel = pixel
    PROVE  kept(m, {}, 0, 0, W, w)
<1>1. /\ m.m_hashTable = contents /\ m.m_defaultPixel = pixel
      /\ m.m_index = {p \in Positions : contents[p] # NoTile}
      /\ m.m_headsHashTable = [p \in Positions |-> NoTile]
      /\ m.m_revisions = <<>> /\ m.m_cancelledRevisions = <<>> /\ m.m_currentMemento = NoMemento
  BY DEF Loaded
<1>2. behind(m.m_revisions, {}, 0, 0, W) /\ ahead(m.m_cancelledRevisions, {}, 0, W)
  BY <1>1, NothingTyped DEF behind, ahead, rising
<1>3. calm(m, w)
  BY <1>1 DEF calm
<1>4. QED
  BY <1>2, <1>3 DEF kept

\* No command, no transaction.
LEMMA NoCommands ==
    ASSUME NEW list, list = <<>>
    PROVE  transactionsIn(list) = {} /\ Len(list) = 0 /\ list \in Seq(Commands)
BY DEF transactionsIn

\* How it begins.
LEMMA HistoryBegins == Init => HistoryInv /\ Composing
<1>1. SUFFICES ASSUME Init PROVE HistoryInv /\ Composing
  OBVIOUS
<1>2. PICK contents \in [Positions -> Pixels], pixel \in DefaultPixels :
        /\ devices = [d \in Devices |-> Loaded(contents, pixel)]
        /\ stack = EmptyStack /\ strokes = <<>> /\ transaction = NoTransaction /\ gui = "idle"
        /\ events = <<>> /\ document = NewDocument /\ mementos = 0 /\ images = <<image>>
        /\ onDisk = image /\ autosaved = NoImage /\ uploading = NoImage
  BY <1>1 DEF Init
<1>3. devices \in [Devices -> Managers]
  BY <1>1, TypedFromTheStart, TypedParts
<1>4. PICK now : now = image
  OBVIOUS
<1>5. now \in Images
  <2>1. imageOf(devices) \in Images
    BY <1>3, ImageTyped
  <2>2. QED
    BY <1>4, <2>1 DEF image, imageOf
<1>6. PICK W, mark, list : W = [n \in Nat |-> now] /\ mark = [k \in Nat |-> 0] /\ list = <<>>
  OBVIOUS
<1>7. /\ stack.m_command_list = list /\ stack.m_index = 0 /\ list \in Seq(Commands)
      /\ transactionsIn(list) = {} /\ Len(list) = 0
  BY <1>2, <1>6, NoCommands DEF EmptyStack
<1>8. W \in [Nat -> Images] /\ W[0] = now /\ mark \in [Nat -> Nat] /\ mark[0] = 0
  BY <1>5, <1>6
<1>9. marked(list, mark)
  BY <1>7, <1>8, NothingTyped DEF marked
<1>10. story({}, 0, 0, W)
  <2>1. (0 + 1) .. 0 = {}
    OBVIOUS
  <2>2. QED
    BY <1>8, <2>1 DEF story, singular
<1>11. atRest(devices, Devices, {}, 0, 0, W)
  <2>1. ASSUME NEW d \in Devices PROVE kept(devices[d], ours({}, d), 0, 0, W, W[0][d])
    <3>1. PICK m, w : m = devices[d] /\ w = W[0][d]
      OBVIOUS
    <3>2. m = Loaded(contents, pixel)
      BY <1>2, <3>1
    <3>3. w.tiles = m.m_hashTable /\ w.defaultPixel = m.m_defaultPixel
      BY <1>4, <1>8, <3>1 DEF image
    <3>4. w.tiles = contents /\ w.defaultPixel = pixel
      BY <3>2, <3>3 DEF Loaded
    <3>5. kept(m, {}, 0, 0, W, w)
      BY <3>2, <3>4, LoadedDevice
    <3>6. ours({}, d) = {}
      BY DEF ours
    <3>7. QED
      BY <3>1, <3>5, <3>6
  <2>2. QED
    BY <1>3, <2>1 DEF atRest
<1>12. at(devices, list, mark, 0, W)
  <2>1. stands(devices, transactionsIn(list), mark[0], mark[0], mark[Len(list)], W)
    BY <1>7, <1>8, <1>10, <1>11 DEF stands
  <2>2. 0 \in 0 .. Len(list)
    BY <1>7
  <2>3. QED
    BY <1>9, <2>1, <2>2 DEF at
<1>13. situated(devices, list, mark, 0, W, transaction, mementos)
  <2>1. mark[Len(list)] <= mementos
    BY <1>2, <1>7, <1>8
  <2>2. QED
    BY <1>2, <1>12, <2>1 DEF situated
<1>14. recalled(images, mark, W)
  <2>1. Len(images) = 1 /\ images[1] = now
    BY <1>2, <1>4
  <2>2. ASSUME NEW j \in 1 .. Len(images) PROVE images[j] = W[mark[j - 1]]
    <3>1. j = 1 /\ j - 1 = 0
      BY <2>1
    <3>2. QED
      BY <1>8, <2>1, <3>1
  <2>3. QED
    BY <2>2 DEF recalled
<1>15. placed(list, 0, gui = "macro", strokes, 0)
  <2>1. PICK composing, queue : composing = (gui = "macro") /\ queue = strokes
    OBVIOUS
  <2>2. ~composing /\ queue = <<>> /\ jobsFirst(queue, 0)
    <3>1. ~composing
      BY <1>2, <2>1
    <3>2. queue = <<>> /\ Len(queue) = 0
      BY <1>2, <2>1
    <3>3. jobsFirst(queue, 0)
      BY <3>2 DEF jobsFirst
    <3>4. QED
      BY <3>1, <3>2, <3>3
  <2>3. placed(list, 0, composing, queue, 0)
    BY <2>2, StillAtTheIndex
  <2>4. QED
    BY <2>1, <2>3
<1>16. spared(redoTail(stack), strokes)
  BY <1>2 DEF spared
<1>17. told(W, mark, 0)
  BY <1>7, <1>13, <1>14, <1>15, <1>16 DEF told
<1>18. Composing
  BY <1>2 DEF Composing
<1>19. QED
  BY <1>17, <1>18 DEF HistoryInv

\* Every step keeps it: undo and redo, strokes and macros, the limit.
LEMMA HistoryNext ==
    ASSUME "jumpMixed" \notin Liberties, "revertAfterUndo" \notin Liberties
    PROVE  TypedInv /\ HistoryInv /\ Composing /\ Next => HistoryInv'
<1>1. SUFFICES ASSUME TypedInv, HistoryInv, Composing, Next PROVE HistoryInv'
  OBVIOUS
<1>2. CASE startHandling \/ giveUp \/ deliver \/ save \/ failToSave \/ exportDocument
           \/ saveRemote \/ uploadFinished \/ slotAutoSave
  BY <1>1, <1>2, UntoldSteps
<1>3. CASE \/ \E d \in Devices : startStroke(d)
           \/ \E i \in 1 .. Len(strokes) : closeStroke(i, "ended") \/ closeStroke(i, "cancelled")
  BY <1>1, <1>3, ToolSteps
<1>4. CASE undo \/ redo \/ \E idx \in 0 .. count(stack) : setIndex(idx)
  BY <1>1, <1>4, MovesAreTold
<1>5. CASE \E d \in Devices : commitLegacy(d)
  BY <1>1, <1>5, LegacyIsTold
<1>6. CASE \E d \in Devices : commitInMacro(d)
  BY <1>1, <1>6, MacroIsTold
<1>7. CASE beginMacro
  BY <1>1, <1>7, MacroBegins
<1>8. CASE endMacro
  BY <1>1, <1>8, MacroEnds
<1>9. CASE initStrokeCallback
  BY <1>1, <1>9, PaintingBegun
<1>10. CASE doStrokeCallback
  BY <1>1, <1>10, PaintingDone
<1>11. CASE cancelStrokeCallback
  BY <1>1, <1>11, PaintingCancelled
<1>12. CASE finishStrokeCallback
  BY <1>1, <1>12, StrokeIsTold
<1>13. CASE dropStroke
  BY <1>1, <1>13, StrokeDropped
<1>14. CASE runCommand
  BY <1>1, <1>14, CommandRun
<1>15. QED
  BY <1>1, <1>2, <1>3, <1>4, <1>5, <1>6, <1>7, <1>8, <1>9, <1>10, <1>11, <1>12, <1>13, <1>14
  DEF Next, GUI, Worker

\* Nothing changes.
LEMMA HistoryStutters == HistoryInv /\ Composing /\ UNCHANGED vars => HistoryInv' /\ Composing'
<1>1. SUFFICES ASSUME HistoryInv, Composing, UNCHANGED vars PROVE HistoryInv' /\ Composing'
  OBVIOUS
<1>2. PICK W, mark, pos : told(W, mark, pos)
  BY <1>1 DEF HistoryInv
<1>3. UNCHANGED <<stack, gui, images, devices, strokes, transaction, mementos>>
  BY <1>1 DEF vars
<1>4. told(W, mark, pos)'
  BY <1>2, <1>3 DEF told
<1>5. HistoryInv'
  BY <1>4 DEF HistoryInv
<1>6. Composing'
  BY <1>1, <1>3 DEF Composing
<1>7. QED
  BY <1>5, <1>6

\* What jumps over commands of both kinds, and strokes that are cancelled after
\* an undo on their device, would break.
historyMeantFor == "jumpMixed" \notin Liberties /\ "revertAfterUndo" \notin Liberties

\* Every step keeps the invariant of the history.
LEMMA AlwaysTold == historyMeantFor => (Spec => [](TypedInv /\ HistoryInv /\ Composing))
<1>1. SUFFICES ASSUME historyMeantFor PROVE Spec => [](TypedInv /\ HistoryInv /\ Composing)
  OBVIOUS
<1>2. Init => HistoryInv /\ Composing
  BY HistoryBegins
<1>3. TypedInv /\ HistoryInv /\ Composing /\ Next => HistoryInv' /\ Composing'
  <2>1. TypedInv /\ HistoryInv /\ Composing /\ Next => HistoryInv'
    BY <1>1, HistoryNext DEF historyMeantFor
  <2>2. QED
    BY <2>1, ComposingKept
<1>4. HistoryInv /\ Composing /\ UNCHANGED vars => HistoryInv' /\ Composing'
  BY HistoryStutters
<1>5. QED
  BY <1>2, <1>3, <1>4, AlwaysTyped, PTL DEF Spec

\* When all is quiet the devices are at the index of the stack.
LEMMA QuietPlace ==
    ASSUME TypedInv, HistoryInv, quiet
    PROVE  \E W, mark : /\ at(devices, stack.m_command_list, mark, stack.m_index, W)
                        /\ recalled(images, mark, W)
<1>2. PICK W, mark, pos : told(W, mark, pos)
  BY DEF HistoryInv
<1>3. strokes = <<>> /\ gui # "macro"
  BY DEF quiet
<1>4. PICK q : isQueue(strokes, q, transaction, mementos)
  BY TypedParts
<1>5. transaction = NoTransaction
  BY <1>3, <1>4 DEF isQueue
<1>6. jobsFirst(strokes, 0)
  BY <1>3 DEF jobsFirst
<1>7. /\ pos = stack.m_index /\ recalled(images, mark, W)
      /\ situated(devices, stack.m_command_list, mark, pos, W, transaction, mementos)
  BY <1>2, <1>3, <1>6, ToldParts
<1>8. at(devices, stack.m_command_list, mark, stack.m_index, W)
  BY <1>5, <1>7 DEF situated
<1>9. QED
  BY <1>7, <1>8

\* The image is the one of the index.
LEMMA QuietImage == TypedInv /\ HistoryInv => ImageFollowsHistory
<1>1. SUFFICES ASSUME TypedInv, HistoryInv, quiet PROVE image = images[stack.m_index + 1]
  BY DEF ImageFollowsHistory
<1>2. PICK W, mark : /\ at(devices, stack.m_command_list, mark, stack.m_index, W)
                     /\ recalled(images, mark, W)
  BY <1>1, QuietPlace
<1>3. PICK managers, list, index, pages :
        /\ managers = devices /\ list = stack.m_command_list /\ index = stack.m_index /\ pages = images
  OBVIOUS
<1>4. at(managers, list, mark, index, W) /\ recalled(pages, mark, W)
  BY <1>2, <1>3
<1>5. imageOf(managers) = W[mark[index]]
  BY <1>4, ImageAt
<1>6. index \in 0 .. Len(list) /\ Len(list) \in Nat
  BY <1>1, <1>3, <1>4, TypedParts DEF at
<1>7. Len(pages) = Len(list) + 1
  BY <1>1, <1>3 DEF TypedInv, PagesInv, count, quiet
<1>8. PICK j : j = index + 1
  OBVIOUS
<1>9. j \in 1 .. Len(pages) /\ j - 1 = index
  BY <1>6, <1>7, <1>8
<1>10. pages[j] = W[mark[index]]
  BY <1>4, <1>9 DEF recalled
<1>11. QED
  BY <1>3, <1>5, <1>8, <1>10 DEF image, imageOf

\* ImageFollowsHistory: with nothing running, the devices show what they showed
\* when the command at the index was complete, whatever was undone, redone and
\* thrown away between. KisTransactionData undoes and redoes by rollback() and
\* rollforward() of the memento manager, which takes the next revision and never
\* asks which one a command means; KisImage runs the commands of strokes later.
\* All limits, macros, numbers of devices, tiles and pixels; without jumps over
\* commands of both kinds and without a cancel over an undo on the same device.
THEOREM HistoryFollowed == historyMeantFor => (Spec => []ImageFollowsHistory)
BY AlwaysTold, QuietImage, PTL

-----------------------------------------------------------------------------
(***************************************************************************)
(* The revision of each transaction, counted from an end of the history.   *)
(***************************************************************************)

\* The part of a command at a place, and the places of a device.
partOf(list, a) == list[a[1]].parts[a[2]]
isPlace(list, d, a) ==
    /\ a[1] \in 1 .. Len(list) /\ a[2] \in 1 .. Len(list[a[1]].parts) /\ a = <<a[1], a[2]>>
    /\ partOf(list, a).device = d

\* What is at a place was committed between two marks.
betweenMarks(list, mark, a) ==
    /\ a[1] \in Nat /\ a[2] \in Nat /\ a[1] - 1 \in Nat /\ partOf(list, a).memento \in Nat
    /\ mark[a[1] - 1] < partOf(list, a).memento /\ partOf(list, a).memento <= mark[a[1]]

\* Places and transactions.
LEMMA PlaceTaken ==
    ASSUME NEW list, NEW mark, marked(list, mark), NEW d, NEW a, isPlace(list, d, a)
    PROVE  partOf(list, a) \in ours(transactionsIn(list), d) /\ betweenMarks(list, mark, a)
<1>1. PICK i, k : i = a[1] /\ k = a[2]
  OBVIOUS
<1>2. i \in 1 .. Len(list) /\ k \in 1 .. Len(list[i].parts) /\ partOf(list, a).device = d
  BY <1>1 DEF isPlace
<1>3. PICK t : t = list[i].parts[k]
  OBVIOUS
<1>4. partOf(list, a) = t
  BY <1>1, <1>3 DEF partOf
<1>5. PICK S : S = transactionsIn(list)
  OBVIOUS
<1>6. spells(list, S) /\ Len(list) \in Nat
  <2>1. list \in Seq(Commands) /\ Len(list) \in Nat
    BY MarkedFields
  <2>2. QED
    BY <1>5, <2>1, TransactionsIn
<1>7. t \in S /\ S \subseteq Transactions /\ list[i].parts \in Seq(Transactions)
  BY <1>2, <1>3, <1>6 DEF spells
<1>8. t.memento \in Nat
  BY <1>7, TransactionFields
<1>9. mark[i - 1] < t.memento /\ t.memento <= mark[i]
  <2>1. inOrder(list[i].parts, mark[i - 1], mark[i])
    BY <1>2, MarkedFields
  <2>2. QED
    BY <1>2, <1>3, <2>1 DEF inOrder
<1>10. i \in Nat /\ k \in Nat /\ i - 1 \in Nat
  <2>1. Len(list[i].parts) \in Nat
    BY <1>7
  <2>2. QED
    BY <1>2, <1>6, <2>1
<1>11. t \in ours(S, d)
  BY <1>2, <1>4, <1>7 DEF ours
<1>12. QED
  BY <1>1, <1>4, <1>5, <1>8, <1>9, <1>10, <1>11 DEF betweenMarks

\* Each transaction on the device has its place.
LEMMA PlaceFound ==
    ASSUME NEW list \in Seq(Commands), NEW d, NEW S, S = transactionsIn(list), NEW t \in ours(S, d)
    PROVE  \E a : isPlace(list, d, a) /\ partOf(list, a) = t
<1>1. spells(list, S)
  BY TransactionsIn
<1>2. t \in S /\ t.device = d
  BY DEF ours
<1>3. PICK i \in 1 .. Len(list) : \E k \in 1 .. Len(list[i].parts) : t = list[i].parts[k]
  BY <1>1, <1>2 DEF spells
<1>4. PICK k \in 1 .. Len(list[i].parts) : t = list[i].parts[k]
  BY <1>3
<1>5. PICK a : a = <<i, k>>
  OBVIOUS
<1>6. a[1] = i /\ a[2] = k
  BY <1>5
<1>7. partOf(list, a) = t
  BY <1>4, <1>6 DEF partOf
<1>8. QED
  BY <1>2, <1>3, <1>4, <1>5, <1>6, <1>7 DEF isPlace

\* A place before another has the earlier transaction.
LEMMA PlacesRise ==
    ASSUME NEW list, NEW mark, marked(list, mark), NEW d, NEW a, isPlace(list, d, a),
           NEW e, NEW b, isPlace(list, e, b), before(a, b)
    PROVE  partOf(list, a).memento < partOf(list, b).memento
<1>1. betweenMarks(list, mark, a) /\ betweenMarks(list, mark, b)
  BY PlaceTaken
<1>2. PICK i, j, k, l : i = a[1] /\ k = a[2] /\ j = b[1] /\ l = b[2]
  OBVIOUS
<1>3. PICK m, n : m = partOf(list, a).memento /\ n = partOf(list, b).memento
  OBVIOUS
<1>4. /\ i \in Nat /\ j \in Nat /\ j - 1 \in Nat /\ m \in Nat /\ n \in Nat
      /\ m <= mark[i] /\ mark[j - 1] < n
  BY <1>1, <1>2, <1>3 DEF betweenMarks
<1>5. i \in 1 .. Len(list) /\ j \in 1 .. Len(list) /\ k \in 1 .. Len(list[i].parts)
      /\ l \in 1 .. Len(list[j].parts)
  BY <1>2 DEF isPlace
<1>6. mark \in [Nat -> Nat] /\ Len(list) \in Nat
  BY MarkedFields
<1>7. CASE i < j
  <2>1. PICK p : p = j - 1
    OBVIOUS
  <2>2. i \in 0 .. Len(list) /\ p \in i .. Len(list)
    BY <1>4, <1>5, <1>6, <1>7, <2>1
  <2>3. mark[i] <= mark[p]
    BY <2>2, MarksRise
  <2>4. mark[i] \in Nat /\ mark[p] \in Nat
    BY <1>4, <1>6, <2>1
  <2>5. m < n
    BY <1>4, <2>1, <2>3, <2>4
  <2>6. QED
    BY <1>3, <2>5
<1>8. CASE i = j /\ k < l
  <2>1. inOrder(list[i].parts, mark[i - 1], mark[i])
    BY <1>5, MarkedFields
  <2>2. list[i].parts[k].memento < list[i].parts[l].memento
    BY <1>5, <1>8, <2>1 DEF inOrder
  <2>3. QED
    BY <1>2, <1>8, <2>2 DEF partOf
<1>9. QED
  BY <1>2, <1>7, <1>8 DEF before

\* Two places are the same or one is before the other.
LEMMA PlacesCompare ==
    ASSUME NEW list, NEW mark, marked(list, mark), NEW d, NEW a, isPlace(list, d, a),
           NEW e, NEW b, isPlace(list, e, b)
    PROVE  a = b \/ before(a, b) \/ before(b, a)
<1>1. betweenMarks(list, mark, a) /\ betweenMarks(list, mark, b)
  BY PlaceTaken
<1>2. PICK i, j, k, l : i = a[1] /\ k = a[2] /\ j = b[1] /\ l = b[2]
  OBVIOUS
<1>3. i \in Nat /\ j \in Nat /\ k \in Nat /\ l \in Nat
  BY <1>1, <1>2 DEF betweenMarks
<1>4. a = <<i, k>> /\ b = <<j, l>>
  BY <1>2 DEF isPlace
<1>5. (i = j /\ k = l) \/ (i < j \/ (i = j /\ k < l)) \/ (j < i \/ (j = i /\ l < k))
  BY <1>3
<1>6. QED
  BY <1>2, <1>4, <1>5 DEF before

\* The places up to the index are those of the transactions that are done.
LEMMA PlacesDone ==
    ASSUME NEW list, NEW mark, marked(list, mark), NEW d, NEW a, isPlace(list, d, a),
           NEW index \in 0 .. Len(list), NEW c, c = mark[index]
    PROVE  a[1] <= index <=> partOf(list, a).memento <= c
<1>1. betweenMarks(list, mark, a)
  BY PlaceTaken
<1>2. PICK i, m : i = a[1] /\ m = partOf(list, a).memento
  OBVIOUS
<1>3. /\ i \in Nat /\ i - 1 \in Nat /\ m \in Nat /\ mark[i - 1] < m /\ m <= mark[i]
  BY <1>1, <1>2 DEF betweenMarks
<1>4. i \in 1 .. Len(list)
  BY <1>2 DEF isPlace
<1>5. mark \in [Nat -> Nat] /\ Len(list) \in Nat /\ index \in Nat /\ index <= Len(list)
  BY MarkedFields
<1>6. mark[i] \in Nat /\ mark[i - 1] \in Nat /\ c \in Nat
  BY <1>3, <1>5
<1>7. ASSUME i <= index PROVE m <= c
  <2>1. i \in 0 .. Len(list) /\ index \in i .. Len(list)
    BY <1>3, <1>5, <1>7
  <2>2. mark[i] <= mark[index]
    BY <2>1, MarksRise
  <2>3. QED
    BY <1>3, <1>6, <2>2
<1>8. ASSUME ~(i <= index) PROVE ~(m <= c)
  <2>1. PICK p : p = i - 1
    OBVIOUS
  <2>2. index \in 0 .. Len(list) /\ p \in index .. Len(list)
    BY <1>3, <1>4, <1>5, <1>8, <2>1
  <2>3. mark[index] <= mark[p]
    BY <2>2, MarksRise
  <2>4. QED
    BY <1>3, <1>6, <2>1, <2>3
<1>9. QED
  BY <1>2, <1>7, <1>8

\* Places and revisions, one to one.
matches(list, R, P, lo, hi) ==
    /\ \A l \in lo .. hi : \E a \in P : partOf(list, a).memento = R[l].memento
    /\ \A a \in P : \E l \in lo .. hi : partOf(list, a).memento = R[l].memento
    /\ \A a, b \in P : partOf(list, a).memento = partOf(list, b).memento => a = b
    /\ \A k, l \in lo .. hi : R[k].memento = R[l].memento => k = l

\* Two things matched one to one are equally many.
LEMMA Matched ==
    ASSUME NEW list, NEW R, NEW P, NEW lo \in Nat, NEW hi \in Nat, lo <= hi,
           matches(list, R, P, lo, hi)
    PROVE  Cardinality(P) = hi - lo + 1
<1>1. PICK Q : Q = lo .. hi
  OBVIOUS
<1>2. IsFiniteSet(Q) /\ Cardinality(Q) = hi - lo + 1
  BY <1>1, FS_Interval
<1>3. PICK f : f = [l \in Q |-> CHOOSE a \in P : partOf(list, a).memento = R[l].memento]
  OBVIOUS
<1>4. ASSUME NEW l \in Q PROVE f[l] \in P /\ partOf(list, f[l]).memento = R[l].memento
  BY <1>1, <1>3 DEF matches
<1>5. f \in [Q -> P]
  BY <1>3, <1>4
<1>6. ASSUME NEW k \in Q, NEW l \in Q, f[k] = f[l] PROVE k = l
  BY <1>1, <1>4, <1>6 DEF matches
<1>7. ASSUME NEW a \in P PROVE \E l \in Q : f[l] = a
  <2>1. PICK l \in Q : partOf(list, a).memento = R[l].memento
    BY <1>1 DEF matches
  <2>2. f[l] \in P /\ partOf(list, f[l]).memento = partOf(list, a).memento
    BY <1>4, <2>1
  <2>3. QED
    BY <2>2 DEF matches
<1>8. f \in Bijection(Q, P)
  <2>1. DOMAIN f = Q
    BY <1>5
  <2>2. f \in Injection(Q, P)
    BY <1>5, <1>6, <2>1 DEF Injection, IsInjective
  <2>3. f \in Surjection(Q, P)
    BY <1>5, <1>7 DEF Surjection
  <2>4. QED
    BY <2>2, <2>3 DEF Bijection
<1>9. ExistsBijection(Q, P)
  BY <1>8 DEF ExistsBijection
<1>10. QED
  BY <1>2, <1>9, FS_Bijection

\* A transaction at two places is at one.
LEMMA OnePlace ==
    ASSUME NEW list, NEW mark, marked(list, mark), NEW d, NEW a, isPlace(list, d, a),
           NEW b, isPlace(list, d, b)
    PROVE  /\ partOf(list, a).memento = partOf(list, b).memento => a = b
           /\ partOf(list, a).memento < partOf(list, b).memento => before(a, b)
           /\ before(a, b) => partOf(list, a).memento < partOf(list, b).memento
           /\ partOf(list, a).memento \in Nat /\ partOf(list, b).memento \in Nat
<1>1. PICK m, n : m = partOf(list, a).memento /\ n = partOf(list, b).memento
  OBVIOUS
<1>2. m \in Nat /\ n \in Nat
  <2>1. betweenMarks(list, mark, a) /\ betweenMarks(list, mark, b)
    BY PlaceTaken
  <2>2. QED
    BY <1>1, <2>1 DEF betweenMarks
<1>3. a = b \/ before(a, b) \/ before(b, a)
  BY PlacesCompare
<1>4. before(a, b) => m < n
  BY <1>1, PlacesRise
<1>5. before(b, a) => n < m
  BY <1>1, PlacesRise
<1>6. a = b => m = n
  BY <1>1
<1>7. (m = n => a = b) /\ (m < n => before(a, b)) /\ (before(a, b) => m < n)
  BY <1>2, <1>3, <1>4, <1>5, <1>6
<1>8. QED
  BY <1>1, <1>2, <1>7

\* The places from a done one on are matched by the last revisions.
sincePlaces(P, list, d, index, a) ==
    \A b : b \in P <=> isPlace(list, d, b) /\ b[1] <= index /\ ~before(b, a)
revisedSince(R, list, a, P, k) ==
    k \in 1 .. Len(R) /\ R[k].memento = partOf(list, a).memento /\ Cardinality(P) = Len(R) - k + 1

\* A done part and its revision: as many parts follow as revisions.
LEMMA DoneMatched ==
    ASSUME NEW list, NEW mark, marked(list, mark), NEW d, NEW index \in 0 .. Len(list),
           NEW c, c = mark[index], NEW T, T = ours(transactionsIn(list), d), NEW floor \in Nat,
           singular(T, floor), NEW W, NEW R \in Seq(Revisions), behind(R, T, c, floor, W),
           NEW a, isPlace(list, d, a), a[1] <= index, NEW P, sincePlaces(P, list, d, index, a)
    PROVE  \E k : revisedSince(R, list, a, P, k)
<1>1. /\ list \in Seq(Commands) /\ mark \in [Nat -> Nat] /\ Len(list) \in Nat
  BY MarkedFields
<1>2. c \in Nat
  BY <1>1
<1>3. Len(R) \in Nat /\ \A k \in 1 .. Len(R) : R[k].memento \in Nat
  BY Mementos
<1>4. \A s \in T : s.memento \in Nat
  <2>1. T \subseteq Transactions
    BY DEF singular
  <2>2. QED
    BY <2>1, TransactionFields
<1>5. /\ \A k, l \in 1 .. Len(R) : k < l => R[k].memento < R[l].memento
      /\ \A s \in T : s.memento <= c => \E k \in 1 .. Len(R) : R[k].memento = s.memento
      /\ \A k \in 1 .. Len(R) :
           R[k].memento <= floor \/ \E s \in T : s.memento <= c /\ R[k].memento = s.memento
      /\ \A s \in T : floor < s.memento
  BY DEF behind, rising, revises, singular
<1>6. PICK t : t = partOf(list, a)
  OBVIOUS
<1>7. t \in T
  BY <1>6, PlaceTaken
<1>8. t.memento <= c
  BY <1>6, PlacesDone
<1>9. PICK k \in 1 .. Len(R) : R[k].memento = t.memento
  BY <1>5, <1>7, <1>8
<1>10. PICK N : N = Len(R)
  OBVIOUS
<1>11. ASSUME NEW l \in k .. N
       PROVE  \E b \in P : partOf(list, b).memento = R[l].memento
  <2>1. l \in 1 .. Len(R)
    BY <1>3, <1>10
  <2>2. R[k].memento <= R[l].memento
    <3>1. CASE k = l
      BY <1>3, <3>1
    <3>2. CASE k < l
      BY <1>3, <1>5, <2>1, <3>2
    <3>3. QED
      BY <1>3, <1>10, <3>1, <3>2
  <2>3. ~(R[l].memento <= floor)
    BY <1>3, <1>4, <1>5, <1>7, <1>9, <2>1, <2>2
  <2>4. PICK s \in T : s.memento <= c /\ R[l].memento = s.memento
    BY <1>5, <2>1, <2>3
  <2>5. PICK b : isPlace(list, d, b) /\ partOf(list, b) = s
    BY <1>1, PlaceFound
  <2>6. b[1] <= index
    BY <2>4, <2>5, PlacesDone
  <2>7. before(b, a) => s.memento < t.memento
    BY <1>6, <2>5, OnePlace
  <2>8. ~before(b, a)
    BY <1>4, <1>7, <1>9, <2>2, <2>4, <2>7
  <2>9. QED
    BY <2>4, <2>5, <2>6, <2>8 DEF sincePlaces
<1>12. ASSUME NEW b \in P
       PROVE  \E l \in k .. N : partOf(list, b).memento = R[l].memento
  <2>1. isPlace(list, d, b) /\ b[1] <= index /\ ~before(b, a)
    BY DEF sincePlaces
  <2>2. PICK s : s = partOf(list, b)
    OBVIOUS
  <2>3. s \in T
    BY <2>1, <2>2, PlaceTaken
  <2>4. s.memento <= c
    BY <2>1, <2>2, PlacesDone
  <2>5. PICK l \in 1 .. Len(R) : R[l].memento = s.memento
    BY <1>5, <2>3, <2>4
  <2>6. s.memento < t.memento => before(b, a)
    BY <1>6, <2>1, <2>2, OnePlace
  <2>7. ~(l < k)
    BY <1>3, <1>4, <1>5, <1>7, <1>9, <2>1, <2>3, <2>5, <2>6
  <2>8. l \in k .. N
    BY <1>3, <1>10, <2>7
  <2>9. QED
    BY <2>2, <2>5, <2>8
<1>13. \A b, e \in P : partOf(list, b).memento = partOf(list, e).memento => b = e
  <2>1. SUFFICES ASSUME NEW b \in P, NEW e \in P
                 PROVE  partOf(list, b).memento = partOf(list, e).memento => b = e
    OBVIOUS
  <2>2. isPlace(list, d, b) /\ isPlace(list, d, e)
    BY DEF sincePlaces
  <2>3. QED
    BY <2>2, OnePlace
<1>14. \A h, l \in k .. N : R[h].memento = R[l].memento => h = l
  <2>1. SUFFICES ASSUME NEW h \in k .. N, NEW l \in k .. N, R[h].memento = R[l].memento
                 PROVE  h = l
    OBVIOUS
  <2>2. h \in 1 .. Len(R) /\ l \in 1 .. Len(R)
    BY <1>3, <1>10
  <2>3. ~(h < l) /\ ~(l < h)
    BY <1>3, <1>5, <2>1, <2>2
  <2>4. QED
    BY <2>2, <2>3
<1>15. matches(list, R, P, k, N)
  BY <1>11, <1>12, <1>13, <1>14 DEF matches
<1>16. k \in Nat /\ N \in Nat /\ k <= N
  BY <1>3, <1>10
<1>17. Cardinality(P) = N - k + 1
  BY <1>15, <1>16, Matched
<1>18. QED
  BY <1>6, <1>9, <1>10, <1>17 DEF revisedSince

\* The places up to an undone one are matched by the first cancelled revisions.
upToPlaces(P, list, d, index, a) ==
    \A b : b \in P <=> isPlace(list, d, b) /\ ~(b[1] <= index) /\ ~before(a, b)
revisedUpTo(C, list, a, P, k) ==
    k \in 1 .. Len(C) /\ C[k].memento = partOf(list, a).memento /\ Cardinality(P) = k

\* An undone part and its cancelled revision: as many parts precede as revisions.
LEMMA UndoneMatched ==
    ASSUME NEW list, NEW mark, marked(list, mark), NEW d, NEW index \in 0 .. Len(list),
           NEW c, c = mark[index], NEW T, T = ours(transactionsIn(list), d), NEW floor \in Nat,
           singular(T, floor), NEW W, NEW C \in Seq(Revisions), ahead(C, T, c, W),
           NEW a, isPlace(list, d, a), ~(a[1] <= index), NEW P, upToPlaces(P, list, d, index, a)
    PROVE  \E k : revisedUpTo(C, list, a, P, k)
<1>1. /\ list \in Seq(Commands) /\ mark \in [Nat -> Nat] /\ Len(list) \in Nat
  BY MarkedFields
<1>2. c \in Nat
  BY <1>1
<1>3. Len(C) \in Nat /\ \A k \in 1 .. Len(C) : C[k].memento \in Nat
  BY Mementos
<1>4. \A s \in T : s.memento \in Nat
  <2>1. T \subseteq Transactions
    BY DEF singular
  <2>2. QED
    BY <2>1, TransactionFields
<1>5. /\ \A k, l \in 1 .. Len(C) : k < l => C[k].memento < C[l].memento
      /\ \A s \in T : s.memento > c => \E k \in 1 .. Len(C) : C[k].memento = s.memento
      /\ \A k \in 1 .. Len(C) : \/ \E s \in T : s.memento > c /\ C[k].memento = s.memento
                                \/ \A s \in T : s.memento < C[k].memento
  BY DEF ahead, rising, revises
<1>6. PICK t : t = partOf(list, a)
  OBVIOUS
<1>7. t \in T
  BY <1>6, PlaceTaken
<1>8. t.memento > c
  <2>1. ~(t.memento <= c)
    BY <1>6, PlacesDone
  <2>2. QED
    BY <1>2, <1>4, <1>7, <2>1
<1>9. PICK k \in 1 .. Len(C) : C[k].memento = t.memento
  BY <1>5, <1>7, <1>8
<1>11. ASSUME NEW l \in 1 .. k
       PROVE  \E b \in P : partOf(list, b).memento = C[l].memento
  <2>1. l \in 1 .. Len(C)
    BY <1>3
  <2>2. C[l].memento <= C[k].memento
    <3>1. CASE k = l
      BY <1>3, <3>1
    <3>2. CASE l < k
      BY <1>3, <1>5, <2>1, <3>2
    <3>3. QED
      BY <1>3, <3>1, <3>2
  <2>3. ~\A s \in T : s.memento < C[l].memento
    BY <1>3, <1>4, <1>7, <1>9, <2>1, <2>2
  <2>4. PICK s \in T : s.memento > c /\ C[l].memento = s.memento
    BY <1>5, <2>1, <2>3
  <2>5. PICK b : isPlace(list, d, b) /\ partOf(list, b) = s
    BY <1>1, PlaceFound
  <2>6. b[1] <= index <=> s.memento <= c
    BY <2>5, PlacesDone
  <2>7. before(a, b) => t.memento < s.memento
    BY <1>6, <2>5, OnePlace
  <2>8. ~before(a, b) /\ ~(b[1] <= index)
    BY <1>2, <1>4, <1>7, <1>9, <2>2, <2>4, <2>6, <2>7
  <2>9. QED
    BY <2>4, <2>5, <2>8 DEF upToPlaces
<1>12. ASSUME NEW b \in P
       PROVE  \E l \in 1 .. k : partOf(list, b).memento = C[l].memento
  <2>1. isPlace(list, d, b) /\ ~(b[1] <= index) /\ ~before(a, b)
    BY DEF upToPlaces
  <2>2. PICK s : s = partOf(list, b)
    OBVIOUS
  <2>3. s \in T
    BY <2>1, <2>2, PlaceTaken
  <2>4. ~(s.memento <= c)
    BY <2>1, <2>2, PlacesDone
  <2>5. PICK l \in 1 .. Len(C) : C[l].memento = s.memento
    BY <1>2, <1>4, <1>5, <2>3, <2>4
  <2>6. t.memento < s.memento => before(a, b)
    BY <1>6, <2>1, <2>2, OnePlace
  <2>7. ~(k < l)
    BY <1>3, <1>4, <1>5, <1>7, <1>9, <2>1, <2>3, <2>5, <2>6
  <2>8. l \in 1 .. k
    BY <1>3, <2>7
  <2>9. QED
    BY <2>2, <2>5, <2>8
<1>13. \A b, e \in P : partOf(list, b).memento = partOf(list, e).memento => b = e
  <2>1. SUFFICES ASSUME NEW b \in P, NEW e \in P
                 PROVE  partOf(list, b).memento = partOf(list, e).memento => b = e
    OBVIOUS
  <2>2. isPlace(list, d, b) /\ isPlace(list, d, e)
    BY DEF upToPlaces
  <2>3. QED
    BY <2>2, OnePlace
<1>14. \A h, l \in 1 .. k : C[h].memento = C[l].memento => h = l
  <2>1. SUFFICES ASSUME NEW h \in 1 .. k, NEW l \in 1 .. k, C[h].memento = C[l].memento
                 PROVE  h = l
    OBVIOUS
  <2>2. h \in 1 .. Len(C) /\ l \in 1 .. Len(C)
    BY <1>3
  <2>3. ~(h < l) /\ ~(l < h)
    BY <1>3, <1>5, <2>1, <2>2
  <2>4. QED
    BY <2>2, <2>3
<1>15. PICK lo : lo = 1
  OBVIOUS
<1>16. matches(list, C, P, lo, k)
  BY <1>11, <1>12, <1>13, <1>14, <1>15 DEF matches
<1>17. lo \in Nat /\ k \in Nat /\ lo <= k /\ k - lo + 1 = k
  BY <1>3, <1>15
<1>18. Cardinality(P) = k
  BY <1>16, <1>17, Matched
<1>19. QED
  BY <1>6, <1>9, <1>18 DEF revisedUpTo

\* The places on a device, as the property has them.
LEMMA PlacesOf ==
    ASSUME stack.m_command_list \in Seq(Commands), NEW list, list = stack.m_command_list, NEW d
    PROVE  \A a : a \in places(d) <=> isPlace(list, d, a)
<1>1. DOMAIN list = 1 .. Len(list)
  OBVIOUS
<1>2. ASSUME NEW i \in 1 .. Len(list) PROVE DOMAIN list[i].parts = 1 .. Len(list[i].parts)
  <2>1. spells(list, transactionsIn(list))
    BY TransactionsIn
  <2>2. list[i].parts \in Seq(Transactions)
    BY <2>1 DEF spells
  <2>3. QED
    BY <2>2
<1>3. PICK U : U = UNION {{j} \X DOMAIN list[j].parts : j \in DOMAIN list}
  OBVIOUS
<1>4. ASSUME NEW a
      PROVE  a \in U <=> /\ a[1] \in 1 .. Len(list) /\ a[2] \in 1 .. Len(list[a[1]].parts)
                         /\ a = <<a[1], a[2]>>
  <2>1. ASSUME a \in U
        PROVE  a[1] \in 1 .. Len(list) /\ a[2] \in 1 .. Len(list[a[1]].parts) /\ a = <<a[1], a[2]>>
    <3>1. PICK j \in 1 .. Len(list) : a \in {j} \X (1 .. Len(list[j].parts))
      BY <1>1, <1>2, <1>3, <2>1
    <3>2. QED
      BY <3>1
  <2>2. ASSUME a[1] \in 1 .. Len(list), a[2] \in 1 .. Len(list[a[1]].parts), a = <<a[1], a[2]>>
        PROVE  a \in U
    <3>1. PICK j, k : j = a[1] /\ k = a[2]
      OBVIOUS
    <3>2. a \in {j} \X DOMAIN list[j].parts
      BY <1>2, <2>2, <3>1
    <3>3. QED
      BY <1>1, <1>3, <2>2, <3>1, <3>2
  <2>3. QED
    BY <2>1, <2>2
<1>5. places(d) = {a \in U : partAt(a).device = d}
  BY <1>3 DEF places
<1>6. \A a : partAt(a) = partOf(list, a)
  BY DEF partAt, partOf
<1>7. QED
  BY <1>4, <1>5, <1>6 DEF isPlace

\* When all is quiet the revisions are where rollback() and rollforward() look.
LEMMA QuietRevisions == TypedInv /\ HistoryInv => RevisionsMatchCommands
<1>1. SUFFICES ASSUME TypedInv, HistoryInv, quiet, NEW d \in Devices, NEW a \in places(d)
               PROVE  LET m == devices[d]
                          since == Cardinality({b \in places(d) : isDone(b) /\ ~before(b, a)})
                          upTo == Cardinality({b \in places(d) : ~isDone(b) /\ ~before(a, b)})
                          revisions == IF isDone(a) THEN m.m_revisions ELSE m.m_cancelledRevisions
                          k == IF isDone(a) THEN Len(revisions) + 1 - since ELSE upTo
                      IN  k \in DOMAIN revisions /\ revisions[k].memento = partAt(a).memento
  BY DEF RevisionsMatchCommands
<1>2. PICK W, mark : at(devices, stack.m_command_list, mark, stack.m_index, W)
  BY <1>1, QuietPlace
<1>3. /\ devices \in [Devices -> Managers] /\ stack.m_command_list \in Seq(Commands)
  BY <1>1, TypedParts
<1>4. PICK managers, list, index, c, floor, S :
        /\ managers = devices /\ list = stack.m_command_list /\ index = stack.m_index
        /\ c = mark[index] /\ floor = mark[0] /\ S = transactionsIn(list)
  OBVIOUS
<1>5. /\ marked(list, mark) /\ index \in 0 .. Len(list)
      /\ stands(managers, S, c, floor, mark[Len(list)], W)
  BY <1>2, <1>4 DEF at
<1>6. PICK m, T, R, C : /\ m = managers[d] /\ T = ours(S, d) /\ R = m.m_revisions
                        /\ C = m.m_cancelledRevisions
  OBVIOUS
<1>7. /\ floor \in Nat /\ singular(S, floor) /\ kept(m, T, c, floor, W, W[c][d])
  BY <1>5, <1>6 DEF stands, story, atRest
<1>8. singular(T, floor)
  BY <1>6, <1>7, OursAlone
<1>9. behind(R, T, c, floor, W) /\ ahead(C, T, c, W)
  BY <1>6, <1>7 DEF kept
<1>10. R \in Seq(Revisions) /\ C \in Seq(Revisions)
  <2>1. m \in Managers
    BY <1>3, <1>4, <1>6
  <2>2. QED
    BY <1>6, <2>1, ManagerFields
<1>11. \A b : b \in places(d) <=> isPlace(list, d, b)
  BY <1>3, <1>4, PlacesOf
<1>12. isPlace(list, d, a)
  BY <1>1, <1>11
<1>13. partAt(a) = partOf(list, a) /\ (isDone(a) <=> a[1] <= index)
  BY <1>4 DEF partAt, partOf, isDone
<1>14. PICK P, Q : /\ P = {b \in places(d) : isDone(b) /\ ~before(b, a)}
                   /\ Q = {b \in places(d) : ~isDone(b) /\ ~before(a, b)}
  OBVIOUS
<1>15. CASE isDone(a)
  <2>1. sincePlaces(P, list, d, index, a)
    BY <1>4, <1>11, <1>14 DEF sincePlaces, isDone
  <2>2. a[1] <= index /\ T = ours(transactionsIn(list), d)
    BY <1>4, <1>6, <1>13, <1>15
  <2>3. PICK k : revisedSince(R, list, a, P, k)
    BY <1>4, <1>5, <1>7, <1>8, <1>9, <1>10, <1>12, <2>1, <2>2, DoneMatched
  <2>4. k \in 1 .. Len(R) /\ R[k].memento = partOf(list, a).memento /\ Cardinality(P) = Len(R) - k + 1
    BY <2>3 DEF revisedSince
  <2>5. Len(R) \in Nat /\ DOMAIN R = 1 .. Len(R)
    BY <1>10
  <2>6. Len(R) + 1 - Cardinality(P) = k
    BY <2>4, <2>5
  <2>7. QED
    BY <1>4, <1>6, <1>13, <1>14, <1>15, <2>4, <2>5, <2>6
<1>16. CASE ~isDone(a)
  <2>1. upToPlaces(Q, list, d, index, a)
    BY <1>4, <1>11, <1>14 DEF upToPlaces, isDone
  <2>2. ~(a[1] <= index) /\ T = ours(transactionsIn(list), d)
    BY <1>4, <1>6, <1>13, <1>16
  <2>3. PICK k : revisedUpTo(C, list, a, Q, k)
    BY <1>4, <1>5, <1>7, <1>8, <1>9, <1>10, <1>12, <2>1, <2>2, UndoneMatched
  <2>4. k \in 1 .. Len(C) /\ C[k].memento = partOf(list, a).memento /\ Cardinality(Q) = k
    BY <2>3 DEF revisedUpTo
  <2>5. DOMAIN C = 1 .. Len(C)
    BY <1>10
  <2>6. QED
    BY <1>4, <1>6, <1>13, <1>14, <1>16, <2>4, <2>5
<1>17. QED
  BY <1>15, <1>16

\* RevisionsMatchCommands: counted from the index, the revision that rollback() or
\* rollforward() will take for a part of a command is the revision that the part
\* committed, on every device. purgeHistory(), getMemento() and checkUndoLimit()
\* take revisions and commands from both ends of the two lists, and nothing in
\* the code compares their lengths. For the same instances as HistoryFollowed.
THEOREM RevisionsMatched == historyMeantFor => (Spec => []RevisionsMatchCommands)
BY AlwaysTold, QuietRevisions, PTL

-----------------------------------------------------------------------------
(***************************************************************************)
(* The document: what it was told of the index of the stack, and which     *)
(* images are where.                                                       *)
(***************************************************************************)

\* The last signal on its way tells of an index after the clean one, or else the
\* stack is at the clean index; a handler that waited for the worker knows more.
announced(i, c, posted, g) ==
    posted # <<>> =>
        /\ c < Last(posted) \/ c = i
        /\ g = "handling" => i = Last(posted) /\ c < Last(posted)
        /\ g = "macro" => c < Last(posted)

\* The flags fit each other.
flagsFit(doc) == doc.modifiedAfterAutosave => doc.modified /\ doc.autoSaveTimer

\* Once all signals are delivered the flag is that of the index.
flagged(i, c, posted, doc) ==
    /\ flagsFit(doc)
    /\ posted = <<>> /\ ~doc.modified => i = c

\* The image of the clean index is in the file, or on its way there; the present
\* one is somewhere if the next autosave leaves it out.
stored(i, c, posted, doc, pages, disk, auto, upload) ==
    /\ c # -1 => pages[c + 1] = upload \/ (upload = NoImage /\ pages[c + 1] = disk)
    /\ posted = <<>> /\ doc.modified /\ ~doc.modifiedAfterAutosave =>
           pages[i + 1] \in {auto, disk, upload}

\* Nothing is edited during an upload; what is composed follows the clean state.
unedited(i, c, g, queue, upload) ==
    /\ upload # NoImage => queue = <<>> /\ g = "idle" /\ i = c
    /\ g = "macro" => c <= i

safe(i, c, posted, g, doc, pages, disk, auto, queue, upload) ==
    /\ announced(i, c, posted, g) /\ flagged(i, c, posted, doc)
    /\ stored(i, c, posted, doc, pages, disk, auto, upload) /\ unedited(i, c, g, queue, upload)

DocumentInv ==
    safe(stack.m_index, stack.m_clean_index, events, gui, document, images, onDisk, autosaved,
         strokes, uploading)

\* Exporting a document that is modified, editing during an upload and uploads
\* that fail would break this.
savingMeantFor == Liberties \cap {"exportModified", "editWhileUploading", "uploadFails"} = {}

\* What the flags are set to.
setTo(doc, mod, r) ==
    /\ r \in Documents /\ r.modified = mod /\ r.modifiedAfterAutosave = mod
    /\ flagsFit(doc) => flagsFit(r)

\* setModified() sets both flags.
LEMMA SetTo ==
    ASSUME NEW doc \in Documents, NEW mod \in BOOLEAN, NEW r, r = setModified(doc, mod)
    PROVE  setTo(doc, mod, r)
<1>1. CASE mod
  BY <1>1 DEF setModified, setTo, flagsFit, Documents
<1>2. CASE ~mod
  BY <1>2 DEF setModified, setTo, flagsFit, Documents
<1>3. QED
  BY <1>1, <1>2

\* The flag that an index gives.
setByIndex(doc, i, c, r) == \E mod \in BOOLEAN : (mod <=> i # c) /\ setTo(doc, mod, r)

\* slotUndoStackIndexChanged() flags the document when the index is not the clean one.
LEMMA SetByIndex ==
    ASSUME NEW doc \in Documents, NEW s, NEW i, NEW c, c = s.m_clean_index,
           NEW r, r = slotUndoStackIndexChanged(doc, s, i)
    PROVE  setByIndex(doc, i, c, r)
<1>1. PICK mod \in BOOLEAN : mod = (i # c)
  OBVIOUS
<1>2. r = setModified(doc, mod)
  BY <1>1 DEF slotUndoStackIndexChanged
<1>3. setTo(doc, mod, r)
  BY <1>2, SetTo
<1>4. QED
  BY <1>1, <1>3 DEF setByIndex

\* The timer is started, and nothing else.
LEMMA TimerSet ==
    ASSUME NEW doc \in Documents, NEW r, r = setAutoSave(doc)
    PROVE  /\ r \in Documents /\ r.modified = doc.modified
           /\ r.modifiedAfterAutosave = doc.modifiedAfterAutosave
           /\ flagsFit(doc) => flagsFit(r)
BY DEF setAutoSave, Documents, flagsFit

\* The indices are numbers.
LEMMA IndexNumbers ==
    ASSUME TypedInv
    PROVE  /\ stack.m_index \in Nat /\ stack.m_clean_index \in Nat \cup {-1}
           /\ document \in Documents /\ events \in Seq(Nat)
<1>1. PICK s : s = stack
  OBVIOUS
<1>2. WellKept(s) /\ s.m_command_list \in Seq(Commands)
  BY <1>1, TypedParts
<1>3. s.m_index \in Nat /\ s.m_clean_index \in Nat \cup {-1}
  BY <1>2, StackFields
<1>4. QED
  BY <1>1, <1>3 DEF TypedInv, Shapes

\* The worker works, and the GUI thread waits or gives up: all in time.
LEMMA NothingSaved ==
    ASSUME DocumentInv, stack'.m_index = stack.m_index,
           stack'.m_clean_index = stack.m_clean_index,
           UNCHANGED <<events, document, images, files>>, uploading = NoImage,
           gui' = gui \/ gui' = "idle" \/ (gui' = "handling" /\ events = <<>>)
    PROVE  DocumentInv'
<1>1. PICK i, c, posted, g, doc, pages, disk, auto, queue, upload :
        /\ i = stack.m_index /\ c = stack.m_clean_index /\ posted = events /\ g = gui
        /\ doc = document /\ pages = images /\ disk = onDisk /\ auto = autosaved
        /\ queue = strokes /\ upload = uploading
  OBVIOUS
<1>2. safe(i, c, posted, g, doc, pages, disk, auto, queue, upload) /\ upload = NoImage
  BY <1>1 DEF DocumentInv
<1>3. PICK h, strokesThen : h = gui' /\ strokesThen = strokes'
  OBVIOUS
<1>4. h = g \/ h = "idle" \/ (h = "handling" /\ posted = <<>>)
  BY <1>1, <1>3
<1>5. safe(i, c, posted, h, doc, pages, disk, auto, strokesThen, upload)
  BY <1>2, <1>4 DEF safe, announced, flagged, stored, unedited
<1>6. QED
  BY <1>1, <1>3, <1>5 DEF DocumentInv, files

\* While somebody works, waits or composes nothing is on its way to the file.
LEMMA NoUpload ==
    ASSUME DocumentInv, strokes # <<>> \/ gui # "idle"
    PROVE  uploading = NoImage
BY DEF DocumentInv, safe, unedited

\* Under the lock as well.
LEMMA NoUploadUnderLock ==
    ASSUME DocumentInv, savingMeantFor, underLock
    PROVE  /\ uploading = NoImage /\ strokes = <<>> /\ gui # "macro"
           /\ events # <<>> => gui = "handling"
<1>1. strokes = <<>> /\ (gui = "handling" \/ (gui = "idle" /\ events = <<>> /\ mayEdit))
  BY DEF underLock
<1>2. mayEdit => uploading = NoImage
  BY DEF mayEdit, savingMeantFor
<1>3. QED
  BY <1>1, <1>2, NoUpload

\* Those steps.
LEMMA WorkSaved ==
    ASSUME TypedInv, DocumentInv, savingMeantFor,
           \/ startHandling \/ giveUp
           \/ \E d \in Devices : startStroke(d) \/ commitInMacro(d)
           \/ \E i \in 1 .. Len(strokes) : closeStroke(i, "ended") \/ closeStroke(i, "cancelled")
           \/ initStrokeCallback \/ doStrokeCallback \/ cancelStrokeCallback \/ dropStroke
           \/ runCommand
    PROVE  DocumentInv'
<1>1. CASE startHandling
  <2>1. uploading = NoImage
    BY <1>1 DEF startHandling, mayEdit, savingMeantFor
  <2>2. QED
    BY <1>1, <2>1, NothingSaved DEF startHandling
<1>2. CASE giveUp
  <2>1. uploading = NoImage
    BY <1>2, NoUpload DEF giveUp
  <2>2. QED
    BY <1>2, <2>1, NothingSaved DEF giveUp
<1>3. ASSUME NEW d \in Devices, startStroke(d) PROVE DocumentInv'
  <2>1. uploading = NoImage
    BY <1>3 DEF startStroke, mayEdit, savingMeantFor
  <2>2. QED
    BY <1>3, <2>1, NothingSaved DEF startStroke
<1>4. ASSUME NEW d \in Devices, commitInMacro(d) PROVE DocumentInv'
  <2>1. gui = "macro" /\ UNCHANGED <<gui, events, document, images, files>>
    BY <1>4 DEF commitInMacro
  <2>2. uploading = NoImage
    BY <2>1, NoUpload
  <2>3. PICK t : stack' = [stack EXCEPT !.m_command_list[count(stack)].parts = Append(@, t)]
    BY <1>4 DEF commitInMacro
  <2>4. stack \in StacksOf(Commands)
    BY StackFields, TypedParts
  <2>5. stack'.m_index = stack.m_index /\ stack'.m_clean_index = stack.m_clean_index
    BY <2>3, <2>4 DEF StacksOf
  <2>6. QED
    BY <2>1, <2>2, <2>5, NothingSaved
<1>5. ASSUME NEW i \in 1 .. Len(strokes), NEW state, closeStroke(i, state) PROVE DocumentInv'
  <2>1. strokes # <<>>
    BY <1>5, TypedParts
  <2>2. uploading = NoImage
    BY <2>1, NoUpload
  <2>3. QED
    BY <1>5, <2>2, NothingSaved DEF closeStroke
<1>6. ASSUME strokes # <<>>, UNCHANGED <<stack, gui, events, document, images, files>>
      PROVE  DocumentInv'
  BY <1>6, NoUpload, NothingSaved
<1>7. CASE initStrokeCallback
  BY <1>6, <1>7 DEF initStrokeCallback
<1>8. CASE doStrokeCallback
  BY <1>6, <1>8, AtWork DEF doStrokeCallback
<1>9. CASE cancelStrokeCallback
  BY <1>6, <1>9, AtWork DEF cancelStrokeCallback
<1>10. CASE dropStroke
  BY <1>6, <1>10 DEF dropStroke
<1>11. CASE runCommand
  BY <1>6, <1>11 DEF runCommand
<1>12. QED
  BY <1>1, <1>2, <1>3, <1>4, <1>5, <1>7, <1>8, <1>9, <1>10, <1>11

\* The first and the last of the signals.
LEMMA SignalTaken ==
    ASSUME NEW posted \in Seq(Nat), posted # <<>>, NEW x, x = Head(posted), NEW r, r = Tail(posted)
    PROVE  /\ x \in Nat /\ Last(posted) \in Nat
           /\ r = <<>> => x = Last(posted)
           /\ r # <<>> => Last(r) = Last(posted)
<1>1. PICK n : n = Len(posted)
  OBVIOUS
<1>2. isRest(Nat, posted, r)
  BY Rest
<1>3. /\ r \in Seq(Nat) /\ Len(r) = n - 1 /\ n \in Nat /\ n > 0 /\ x = posted[1]
      /\ \A k \in 1 .. (n - 1) : r[k] = posted[k + 1]
  BY <1>1, <1>2 DEF isRest
<1>4. x \in Nat /\ posted[n] \in Nat
  BY <1>1, <1>3
<1>5. Last(posted) = posted[n]
  BY <1>1 DEF Last
<1>6. ASSUME r = <<>> PROVE x = Last(posted)
  <2>1. Len(r) = 0
    BY <1>6, NothingTyped
  <2>2. n = 1
    BY <1>3, <2>1
  <2>3. QED
    BY <1>3, <1>5, <2>2
<1>7. ASSUME r # <<>> PROVE Last(r) = Last(posted)
  <2>1. Len(r) # 0
    BY <1>3, <1>7
  <2>2. n - 1 \in 1 .. (n - 1) /\ (n - 1) + 1 = n
    BY <1>3, <2>1
  <2>3. PICK k : k = n - 1
    OBVIOUS
  <2>4. r[k] = posted[n]
    BY <1>3, <2>2, <2>3
  <2>5. Last(r) = r[k]
    BY <1>3, <2>3 DEF Last
  <2>6. QED
    BY <1>5, <2>4, <2>5
<1>8. QED
  BY <1>4, <1>5, <1>6, <1>7

\* A signal is delivered.
LEMMA SignalSaved ==
    ASSUME TypedInv, DocumentInv, deliver
    PROVE  DocumentInv'
<1>1. PICK i, c, posted, g, doc, pages, disk, auto, queue, upload :
        /\ i = stack.m_index /\ c = stack.m_clean_index /\ posted = events /\ g = gui
        /\ doc = document /\ pages = images /\ disk = onDisk /\ auto = autosaved
        /\ queue = strokes /\ upload = uploading
  OBVIOUS
<1>2. safe(i, c, posted, g, doc, pages, disk, auto, queue, upload)
  BY <1>1 DEF DocumentInv
<1>3. PICK x, rest, docThen : x = Head(events) /\ rest = events' /\ docThen = document'
  OBVIOUS
<1>4. /\ g = "idle" /\ posted # <<>> /\ rest = Tail(posted)
      /\ docThen = slotUndoStackIndexChanged(doc, stack, x)
      /\ UNCHANGED <<stack, strokes, gui, images, files>>
  BY <1>1, <1>3 DEF deliver
<1>5. i \in Nat /\ c \in Nat \cup {-1} /\ doc \in Documents /\ posted \in Seq(Nat)
  BY <1>1, IndexNumbers
<1>6. PICK last : last = Last(posted)
  OBVIOUS
<1>7. x \in Nat /\ last \in Nat /\ (rest = <<>> => x = last) /\ (rest # <<>> => Last(rest) = last)
  BY <1>1, <1>3, <1>4, <1>5, <1>6, SignalTaken
<1>8. PICK mod \in BOOLEAN : (mod <=> x # c) /\ setTo(doc, mod, docThen)
  <2>1. PICK s : s = stack
    OBVIOUS
  <2>2. c = s.m_clean_index /\ docThen = slotUndoStackIndexChanged(doc, s, x)
    BY <1>1, <1>4, <2>1
  <2>3. setByIndex(doc, x, c, docThen)
    BY <1>5, <2>2, SetByIndex
  <2>4. QED
    BY <2>3 DEF setByIndex
<1>9. c < last \/ c = i
  BY <1>2, <1>4, <1>6 DEF safe, announced
<1>10. announced(i, c, rest, g)
  BY <1>4, <1>7, <1>9 DEF announced
<1>11. flagged(i, c, rest, docThen)
  <2>1. rest = <<>> /\ ~mod => i = c
    BY <1>5, <1>7, <1>8, <1>9
  <2>2. QED
    BY <1>2, <1>8, <2>1 DEF safe, flagged, setTo
<1>12. stored(i, c, rest, docThen, pages, disk, auto, upload)
  BY <1>2, <1>8 DEF safe, stored, setTo
<1>13. safe(i, c, rest, g, docThen, pages, disk, auto, queue, upload)
  BY <1>2, <1>10, <1>11, <1>12 DEF safe
<1>14. QED
  BY <1>1, <1>3, <1>4, <1>13 DEF DocumentInv, files

\* The index moves.
LEMMA MoveSaved ==
    ASSUME TypedInv, DocumentInv, savingMeantFor, underLock, NEW idx \in Nat, moveTo(idx),
           gui' = "idle", UNCHANGED <<events, images, files>>
    PROVE  DocumentInv'
<1>1. PICK i, c, posted, g, doc, pages, disk, auto, queue, upload :
        /\ i = stack.m_index /\ c = stack.m_clean_index /\ posted = events /\ g = gui
        /\ doc = document /\ pages = images /\ disk = onDisk /\ auto = autosaved
        /\ queue = strokes /\ upload = uploading
  OBVIOUS
<1>2. safe(i, c, posted, g, doc, pages, disk, auto, queue, upload)
  BY <1>1 DEF DocumentInv
<1>3. upload = NoImage /\ (posted # <<>> => g = "handling")
  BY <1>1, NoUploadUnderLock
<1>4. i \in Nat /\ c \in Nat \cup {-1} /\ doc \in Documents
  BY <1>1, IndexNumbers
<1>5. PICK s, t, docThen, queueThen :
        s = stack /\ t = stack' /\ docThen = document' /\ queueThen = strokes'
  OBVIOUS
<1>6. t = indexSet(s, idx, FALSE) /\ docThen = slotUndoStackIndexChanged(doc, t, idx)
  BY <1>1, <1>5 DEF moveTo
<1>7. t.m_index = idx /\ t.m_clean_index = c
  <2>1. s \in StacksOf(Commands)
    BY <1>5, StackFields, TypedParts
  <2>2. PICK clean \in BOOLEAN : clean = FALSE
    OBVIOUS
  <2>3. t = indexSet(s, idx, clean)
    BY <1>6, <2>2
  <2>4. t.m_index = idx /\ t.m_clean_index = (IF clean THEN idx ELSE s.m_clean_index)
    BY <2>1, <2>3, IndexSetFields
  <2>5. QED
    BY <1>1, <1>5, <2>2, <2>4
<1>8. PICK mod \in BOOLEAN : (mod <=> idx # c) /\ setTo(doc, mod, docThen)
  <2>1. setByIndex(doc, idx, c, docThen)
    BY <1>4, <1>6, <1>7, SetByIndex
  <2>2. QED
    BY <2>1 DEF setByIndex
<1>9. announced(idx, c, posted, "idle")
  BY <1>2, <1>3 DEF safe, announced
<1>10. flagged(idx, c, posted, docThen)
  BY <1>2, <1>8 DEF safe, flagged, setTo
<1>11. stored(idx, c, posted, docThen, pages, disk, auto, upload)
  BY <1>2, <1>8 DEF safe, stored, setTo
<1>12. unedited(idx, c, "idle", queueThen, upload)
  BY <1>3 DEF unedited
<1>13. safe(idx, c, posted, "idle", docThen, pages, disk, auto, queueThen, upload)
  BY <1>9, <1>10, <1>11, <1>12 DEF safe
<1>14. QED
  BY <1>1, <1>5, <1>7, <1>13 DEF DocumentInv, files

\* Undo, redo, and jumps.
LEMMA MovesSaved ==
    ASSUME TypedInv, DocumentInv, savingMeantFor,
           undo \/ redo \/ \E idx \in 0 .. count(stack) : setIndex(idx)
    PROVE  DocumentInv'
<1>1. PICK i, n : i = stack.m_index /\ n = count(stack)
  OBVIOUS
<1>2. i \in Nat /\ n \in Nat
  <2>1. PICK s : s = stack
    OBVIOUS
  <2>2. WellKept(s) /\ s.m_command_list \in Seq(Commands)
    BY <2>1, TypedParts
  <2>3. QED
    BY <1>1, <2>1, <2>2, StackFields
<1>3. CASE undo
  <2>1. PICK idx : idx = i - 1
    OBVIOUS
  <2>2. idx \in Nat
    <3>1. i > 0
      BY <1>1, <1>3 DEF undo, canUndo
    <3>2. QED
      BY <1>2, <2>1, <3>1
  <2>3. underLock /\ moveTo(idx) /\ gui' = "idle" /\ UNCHANGED <<events, images, files>>
    BY <1>1, <1>3, <2>1 DEF undo
  <2>4. QED
    BY <2>2, <2>3, MoveSaved
<1>4. CASE redo
  <2>1. PICK idx : idx = i + 1
    OBVIOUS
  <2>2. idx \in Nat
    BY <1>2, <2>1
  <2>3. underLock /\ moveTo(idx) /\ gui' = "idle" /\ UNCHANGED <<events, images, files>>
    BY <1>1, <1>4, <2>1 DEF redo
  <2>4. QED
    BY <2>2, <2>3, MoveSaved
<1>5. ASSUME NEW idx \in 0 .. count(stack), setIndex(idx) PROVE DocumentInv'
  <2>1. idx \in Nat
    BY <1>1, <1>2
  <2>2. underLock /\ moveTo(idx) /\ gui' = "idle" /\ UNCHANGED <<events, images, files>>
    BY <1>5 DEF setIndex
  <2>3. QED
    BY <2>1, <2>2, MoveSaved
<1>6. QED
  BY <1>3, <1>4, <1>5

\* The image under the lock is that of the index.
LEMMA PageUnderLock ==
    ASSUME TypedInv, HistoryInv, underLock
    PROVE  image = images[stack.m_index + 1]
<1>1. quiet
  BY UnderLock DEF quiet
<1>2. QED
  BY <1>1, QuietImage DEF ImageFollowsHistory

\* setClean() outside a macro.
LEMMA CleanUnderLock ==
    ASSUME TypedInv, underLock, stack' = setClean(stack)
    PROVE  stack'.m_index = stack.m_index /\ stack'.m_clean_index = stack.m_index
<1>1. PICK s, t : s = stack /\ t = stack'
  OBVIOUS
<1>2. WellKept(s) /\ s.m_command_list \in Seq(Commands) /\ ~s.m_macro /\ t = setClean(s)
  BY <1>1, UnderLock, TypedParts
<1>3. isMarked(s, t) /\ t.m_clean_index = s.m_index
  BY <1>2, SetCleanFields
<1>4. QED
  BY <1>1, <1>3 DEF isMarked

\* Two settings of the flags, after the timer was set.
LEMMA TimerSetTo ==
    ASSUME NEW doc \in Documents, NEW mod \in BOOLEAN, NEW r, r = setModified(setAutoSave(doc), mod)
    PROVE  setTo(doc, mod, r)
<1>1. PICK d : d = setAutoSave(doc)
  OBVIOUS
<1>2. d \in Documents /\ (flagsFit(doc) => flagsFit(d))
  BY <1>1, TimerSet
<1>3. setTo(d, mod, r)
  BY <1>1, <1>2, SetTo
<1>4. QED
  BY <1>2, <1>3 DEF setTo

\* The document is saved, to a file or on its way to one.
LEMMA SavesSaved ==
    ASSUME TypedInv, HistoryInv, DocumentInv, savingMeantFor, save \/ saveRemote
    PROVE  DocumentInv'
<1>1. PICK i, c, posted, g, doc, pages, disk, auto, queue, upload :
        /\ i = stack.m_index /\ c = stack.m_clean_index /\ posted = events /\ g = gui
        /\ doc = document /\ pages = images /\ disk = onDisk /\ auto = autosaved
        /\ queue = strokes /\ upload = uploading
  OBVIOUS
<1>2. safe(i, c, posted, g, doc, pages, disk, auto, queue, upload)
  BY <1>1 DEF DocumentInv
<1>3. underLock /\ stack' = setClean(stack) /\ gui' = "idle" /\ UNCHANGED <<strokes, events, images>>
  BY DEF save, saveRemote
<1>4. upload = NoImage /\ queue = <<>>
  BY <1>1, <1>3, NoUploadUnderLock
<1>5. doc \in Documents
  BY <1>1, IndexNumbers
<1>6. stack'.m_index = i /\ stack'.m_clean_index = i
  BY <1>1, <1>3, CleanUnderLock
<1>7. PICK page, docThen, diskThen, autoThen, uploadThen :
        /\ page = image /\ docThen = document' /\ diskThen = onDisk' /\ autoThen = autosaved'
        /\ uploadThen = uploading'
  OBVIOUS
<1>8. page = pages[i + 1]
  BY <1>1, <1>3, <1>7, PageUnderLock
<1>9. announced(i, i, posted, "idle")
  BY DEF announced
<1>10. unedited(i, i, "idle", queue, uploadThen)
  BY <1>4 DEF unedited
<1>11. flagged(i, i, posted, docThen) /\ stored(i, i, posted, docThen, pages, diskThen, autoThen, uploadThen)
  <2>1. CASE save
    <3>1. docThen = setModified(setAutoSave(doc), FALSE) /\ diskThen = page /\ uploadThen = upload
      BY <1>1, <1>7, <2>1 DEF save
    <3>2. setTo(doc, FALSE, docThen)
      <4>1. PICK mod \in BOOLEAN : mod = FALSE
        OBVIOUS
      <4>2. setTo(doc, mod, docThen)
        BY <1>5, <3>1, <4>1, TimerSetTo
      <4>3. QED
        BY <4>1, <4>2
    <3>3. flagged(i, i, posted, docThen)
      BY <1>2, <3>2 DEF safe, flagged, setTo
    <3>4. stored(i, i, posted, docThen, pages, diskThen, autoThen, uploadThen)
      BY <1>4, <1>8, <3>1, <3>2 DEF stored, setTo
    <3>5. QED
      BY <3>3, <3>4
  <2>2. CASE saveRemote
    <3>1. docThen = setAutoSave(doc) /\ uploadThen = page
      BY <1>1, <1>7, <2>2 DEF saveRemote
    <3>2. flagsFit(doc) => flagsFit(docThen)
      BY <1>5, <3>1, TimerSet
    <3>3. flagged(i, i, posted, docThen)
      BY <1>2, <3>2 DEF safe, flagged
    <3>4. stored(i, i, posted, docThen, pages, diskThen, autoThen, uploadThen)
      BY <1>8, <3>1 DEF stored
    <3>5. QED
      BY <3>3, <3>4
  <2>3. QED
    BY <2>1, <2>2
<1>12. safe(i, i, posted, "idle", docThen, pages, diskThen, autoThen, queue, uploadThen)
  BY <1>9, <1>10, <1>11 DEF safe
<1>13. QED
  BY <1>1, <1>3, <1>6, <1>7, <1>12 DEF DocumentInv

\* It could not be saved: the flags say what they said.
LEMMA FailureSaved ==
    ASSUME TypedInv, DocumentInv, savingMeantFor, failToSave
    PROVE  DocumentInv'
<1>1. PICK i, c, posted, g, doc, pages, disk, auto, queue, upload :
        /\ i = stack.m_index /\ c = stack.m_clean_index /\ posted = events /\ g = gui
        /\ doc = document /\ pages = images /\ disk = onDisk /\ auto = autosaved
        /\ queue = strokes /\ upload = uploading
  OBVIOUS
<1>2. safe(i, c, posted, g, doc, pages, disk, auto, queue, upload)
  BY <1>1 DEF DocumentInv
<1>3. PICK docThen, mod : docThen = document' /\ mod = doc.modified
  OBVIOUS
<1>4. doc \in Documents /\ mod \in BOOLEAN
  BY <1>1, <1>3, IndexNumbers, DocumentTyped
<1>5. setTo(doc, mod, docThen)
  <2>1. docThen = setModified(doc, mod) \/ docThen = setModified(setAutoSave(doc), mod)
    BY <1>1, <1>3 DEF failToSave
  <2>2. QED
    BY <1>4, <2>1, SetTo, TimerSetTo
<1>6. upload = NoImage
  <2>1. gui = "handling" \/ underLock
    BY DEF failToSave
  <2>2. QED
    BY <1>1, <2>1, NoUpload, NoUploadUnderLock
<1>7. gui' = "idle" /\ UNCHANGED <<stack, strokes, events, images, files>>
  BY DEF failToSave
<1>8. announced(i, c, posted, "idle")
  BY <1>2 DEF safe, announced
<1>9. flagged(i, c, posted, docThen)
  BY <1>2, <1>3, <1>5 DEF safe, flagged, setTo
<1>10. stored(i, c, posted, docThen, pages, disk, auto, upload)
  BY <1>2, <1>5 DEF safe, stored, setTo
<1>11. unedited(i, c, "idle", queue, upload)
  BY <1>6 DEF unedited
<1>12. safe(i, c, posted, "idle", docThen, pages, disk, auto, queue, upload)
  BY <1>8, <1>9, <1>10, <1>11 DEF safe
<1>13. QED
  BY <1>1, <1>3, <1>7, <1>12 DEF DocumentInv, files

\* A document that is not modified is exported.
LEMMA ExportSaved ==
    ASSUME TypedInv, DocumentInv, savingMeantFor, exportDocument
    PROVE  DocumentInv'
<1>1. PICK i, c, posted, g, doc, pages, disk, auto, queue, upload :
        /\ i = stack.m_index /\ c = stack.m_clean_index /\ posted = events /\ g = gui
        /\ doc = document /\ pages = images /\ disk = onDisk /\ auto = autosaved
        /\ queue = strokes /\ upload = uploading
  OBVIOUS
<1>2. safe(i, c, posted, g, doc, pages, disk, auto, queue, upload)
  BY <1>1 DEF DocumentInv
<1>3. /\ underLock /\ stack' = setClean(stack) /\ gui' = "idle"
      /\ UNCHANGED <<strokes, events, images, files>>
  BY DEF exportDocument
<1>4. i = c
  BY <1>1 DEF exportDocument, savingMeantFor, isClean
<1>5. PICK docThen, mod, between : /\ docThen = document' /\ mod = doc.modified
                                   /\ between = setModified(setAutoSave(doc), FALSE)
  OBVIOUS
<1>6. doc \in Documents /\ mod \in BOOLEAN
  BY <1>1, <1>5, IndexNumbers, DocumentTyped
<1>7. setTo(doc, FALSE, between)
  <2>1. PICK no \in BOOLEAN : no = FALSE
    OBVIOUS
  <2>2. setTo(doc, no, between)
    BY <1>5, <1>6, <2>1, TimerSetTo
  <2>3. QED
    BY <2>1, <2>2
<1>8. setTo(between, mod, docThen)
  <2>1. between \in Documents /\ docThen = setModified(between, mod)
    BY <1>1, <1>5, <1>7 DEF exportDocument, setTo
  <2>2. QED
    BY <1>6, <2>1, SetTo
<1>9. upload = NoImage
  BY <1>1, <1>3, NoUploadUnderLock
<1>10. stack'.m_index = i /\ stack'.m_clean_index = c
  BY <1>1, <1>3, <1>4, CleanUnderLock
<1>11. announced(i, c, posted, "idle")
  BY <1>2 DEF safe, announced
<1>12. flagged(i, c, posted, docThen)
  BY <1>2, <1>4, <1>7, <1>8 DEF safe, flagged, setTo
<1>13. stored(i, c, posted, docThen, pages, disk, auto, upload)
  BY <1>2, <1>8 DEF safe, stored, setTo
<1>14. unedited(i, c, "idle", queue, upload)
  BY <1>9 DEF unedited
<1>15. safe(i, c, posted, "idle", docThen, pages, disk, auto, queue, upload)
  BY <1>11, <1>12, <1>13, <1>14 DEF safe
<1>16. QED
  BY <1>1, <1>3, <1>5, <1>10, <1>15 DEF DocumentInv, files

\* The upload ends: the file is there.
LEMMA UploadSaved ==
    ASSUME TypedInv, DocumentInv, savingMeantFor, uploadFinished
    PROVE  DocumentInv'
<1>1. PICK i, c, posted, g, doc, pages, disk, auto, queue, upload :
        /\ i = stack.m_index /\ c = stack.m_clean_index /\ posted = events /\ g = gui
        /\ doc = document /\ pages = images /\ disk = onDisk /\ auto = autosaved
        /\ queue = strokes /\ upload = uploading
  OBVIOUS
<1>2. safe(i, c, posted, g, doc, pages, disk, auto, queue, upload)
  BY <1>1 DEF DocumentInv
<1>3. PICK docThen, diskThen : docThen = document' /\ diskThen = onDisk'
  OBVIOUS
<1>4. /\ g = "idle" /\ upload # NoImage /\ uploading' = NoImage
      /\ UNCHANGED <<stack, strokes, gui, events, images, autosaved>>
  BY <1>1 DEF uploadFinished
<1>5. doc \in Documents
  BY <1>1, IndexNumbers
<1>6. diskThen = upload
  BY <1>1, <1>3 DEF uploadFinished, savingMeantFor
<1>7. (docThen = doc /\ disk = upload) \/ setTo(doc, FALSE, docThen)
  <2>1. PICK no \in BOOLEAN : no = FALSE
    OBVIOUS
  <2>2. (docThen = doc /\ disk = upload) \/ docThen = setModified(doc, no)
    BY <1>1, <1>3, <2>1 DEF uploadFinished, savingMeantFor
  <2>3. (docThen = doc /\ disk = upload) \/ setTo(doc, no, docThen)
    BY <1>5, <2>2, SetTo
  <2>4. QED
    BY <2>1, <2>3
<1>8. i = c
  BY <1>2, <1>4 DEF safe, unedited
<1>9. flagged(i, c, posted, docThen)
  BY <1>2, <1>7, <1>8 DEF safe, flagged, setTo
<1>10. stored(i, c, posted, docThen, pages, diskThen, auto, NoImage)
  <2>1. c # -1 => pages[c + 1] = diskThen
    BY <1>2, <1>4, <1>6 DEF safe, stored
  <2>2. ASSUME posted = <<>>, docThen.modified, ~docThen.modifiedAfterAutosave
        PROVE  pages[i + 1] \in {auto, diskThen, NoImage}
    <3>1. docThen = doc /\ disk = upload
      BY <1>7, <2>2 DEF setTo
    <3>2. pages[i + 1] \in {auto, disk, upload}
      BY <1>2, <2>2, <3>1 DEF safe, stored
    <3>3. QED
      BY <1>6, <3>1, <3>2
  <2>3. QED
    BY <2>1, <2>2 DEF stored
<1>11. unedited(i, c, g, queue, NoImage)
  BY <1>4 DEF unedited
<1>12. safe(i, c, posted, g, docThen, pages, diskThen, auto, queue, NoImage)
  BY <1>2, <1>9, <1>10, <1>11 DEF safe
<1>13. QED
  BY <1>1, <1>3, <1>4, <1>12 DEF DocumentInv

\* The document is autosaved.
LEMMA AutosaveSaved ==
    ASSUME TypedInv, HistoryInv, DocumentInv, savingMeantFor, slotAutoSave
    PROVE  DocumentInv'
<1>1. PICK i, c, posted, g, doc, pages, disk, auto, queue, upload :
        /\ i = stack.m_index /\ c = stack.m_clean_index /\ posted = events /\ g = gui
        /\ doc = document /\ pages = images /\ disk = onDisk /\ auto = autosaved
        /\ queue = strokes /\ upload = uploading
  OBVIOUS
<1>2. safe(i, c, posted, g, doc, pages, disk, auto, queue, upload)
  BY <1>1 DEF DocumentInv
<1>3. PICK page, docThen : page = image /\ docThen = document'
  OBVIOUS
<1>4. /\ underLock /\ docThen = autoSaved(doc) /\ autosaved' = page /\ gui' = "idle"
      /\ UNCHANGED <<stack, strokes, events, images, onDisk, uploading>>
  BY <1>1, <1>3 DEF slotAutoSave
<1>5. upload = NoImage
  BY <1>1, <1>4, NoUploadUnderLock
<1>6. page = pages[i + 1]
  BY <1>1, <1>3, <1>4, PageUnderLock
<1>7. docThen.modified = doc.modified /\ ~docThen.modifiedAfterAutosave
  <2>1. doc \in Documents
    BY <1>1, IndexNumbers
  <2>2. QED
    BY <1>4, <2>1 DEF autoSaved, Documents
<1>8. announced(i, c, posted, "idle")
  BY <1>2 DEF safe, announced
<1>9. flagged(i, c, posted, docThen)
  BY <1>2, <1>7 DEF safe, flagged, flagsFit
<1>10. stored(i, c, posted, docThen, pages, disk, page, upload)
  BY <1>2, <1>6 DEF safe, stored
<1>11. unedited(i, c, "idle", queue, upload)
  BY <1>5 DEF unedited
<1>12. safe(i, c, posted, "idle", docThen, pages, disk, page, queue, upload)
  BY <1>8, <1>9, <1>10, <1>11 DEF safe
<1>13. QED
  BY <1>1, <1>3, <1>4, <1>12 DEF DocumentInv

\* Where the clean index goes, and its image, when a command is counted and the
\* oldest e are gone.
cleanMoves(i, c, pages, j, k, then) ==
    /\ k \in Nat \cup {-1} /\ j \in Nat /\ k < j /\ k <= c
    /\ k # -1 => c # -1 /\ then[k + 1] = pages[c + 1]

\* When the list grows and the oldest go, a clean index that is left marks the same image.
LEMMA CleanMoves ==
    ASSUME NEW i \in Nat, NEW c \in Nat \cup {-1}, NEW e \in 0 .. i, NEW f \in Nat \cup {-1},
           f <= c, f <= i, f # -1 => f = c, NEW T, NEW pages, NEW x, NEW then,
           isGrown(T, pages, i + 1, x, e, then), NEW j, j = i + 1 - e,
           NEW k, k = (IF f < e THEN -1 ELSE f - e)
    PROVE  cleanMoves(i, c, pages, j, k, then)
<1>1. j \in Nat /\ j > 0 /\ e \in Nat /\ e <= i
  OBVIOUS
<1>2. k \in Nat \cup {-1} /\ k < j /\ k <= c
  <2>1. CASE f < e
    BY <1>1, <2>1
  <2>2. CASE ~(f < e)
    BY <1>1, <2>2
  <2>3. QED
    BY <2>1, <2>2
<1>3. ASSUME k # -1 PROVE c # -1 /\ then[k + 1] = pages[c + 1]
  <2>1. ~(f < e) /\ k = f - e
    BY <1>3
  <2>2. f = c /\ c \in Nat /\ k = c - e
    BY <1>1, <2>1
  <2>3. PICK n : n = k + 1
    OBVIOUS
  <2>4. n \in 1 .. (i + 1 + 1 - e) /\ n + e = c + 1 /\ n + e < i + 1 + 1
    BY <1>1, <2>1, <2>2, <2>3
  <2>5. then[n] = pages[n + e]
    BY <2>4 DEF isGrown
  <2>6. QED
    BY <2>2, <2>3, <2>4, <2>5
<1>4. QED
  BY <1>1, <1>2, <1>3 DEF cleanMoves

\* That of a push.
LEMMA PushMoves ==
    ASSUME TypedInv, NEW managers, NEW command, NEW e, NEW oldest,
           hasPushed(managers, command, e, oldest)
    PROVE  cleanMoves(stack.m_index, stack.m_clean_index, images, stack'.m_index,
                      stack'.m_clean_index, images')
<1>1. PICK s, t, pages, then, x, i, c, j, k :
        /\ s = stack /\ t = stack' /\ pages = images /\ then = images' /\ x = image'
        /\ i = stack.m_index /\ c = stack.m_clean_index
        /\ j = stack'.m_index /\ k = stack'.m_clean_index
  OBVIOUS
<1>2. i \in Nat /\ c \in Nat \cup {-1}
  BY <1>1, IndexNumbers
<1>3. isPushed(s, command, e, t, oldest) /\ isGrown(Images, pages, i + 1, x, e, then)
  BY <1>1 DEF hasPushed
<1>4. PICK f \in Nat \cup {-1} : /\ f = (IF c > i THEN -1 ELSE c)
                                 /\ k = (IF f < e THEN -1 ELSE f - e)
  BY <1>1, <1>3 DEF isPushed
<1>5. e \in 0 .. i /\ j = i + 1 - e
  BY <1>1, <1>3 DEF isPushed
<1>6. f <= c /\ f <= i /\ (f # -1 => f = c)
  BY <1>2, <1>4
<1>7. cleanMoves(i, c, pages, j, k, then)
  BY <1>2, <1>3, <1>4, <1>5, <1>6, CleanMoves
<1>8. QED
  BY <1>1, <1>7

\* A command is counted under the lock: the document is told at once that it is
\* modified.
LEMMA CountedSaved ==
    ASSUME TypedInv, DocumentInv, uploading = NoImage, events # <<>> => gui # "idle",
           cleanMoves(stack.m_index, stack.m_clean_index, images, stack'.m_index,
                      stack'.m_clean_index, images'),
           document' = slotUndoStackIndexChanged(document, stack', stack'.m_index),
           gui' = "idle", UNCHANGED <<events, files>>
    PROVE  DocumentInv'
<1>1. PICK i, c, posted, g, doc, pages, disk, auto, queue, upload :
        /\ i = stack.m_index /\ c = stack.m_clean_index /\ posted = events /\ g = gui
        /\ doc = document /\ pages = images /\ disk = onDisk /\ auto = autosaved
        /\ queue = strokes /\ upload = uploading
  OBVIOUS
<1>2. safe(i, c, posted, g, doc, pages, disk, auto, queue, upload)
  BY <1>1 DEF DocumentInv
<1>3. PICK j, k, then, docThen, queueThen, t :
        /\ j = stack'.m_index /\ k = stack'.m_clean_index /\ then = images' /\ docThen = document'
        /\ queueThen = strokes' /\ t = stack'
  OBVIOUS
<1>4. cleanMoves(i, c, pages, j, k, then)
  BY <1>1, <1>3
<1>5. i \in Nat /\ c \in Nat \cup {-1} /\ doc \in Documents /\ posted \in Seq(Nat)
      /\ g \in {"idle", "handling", "macro"}
  BY <1>1, IndexNumbers DEF TypedInv, Shapes
<1>6. upload = NoImage /\ docThen = slotUndoStackIndexChanged(doc, t, j) /\ k = t.m_clean_index
  BY <1>1, <1>3
<1>7. PICK mod \in BOOLEAN : (mod <=> j # k) /\ setTo(doc, mod, docThen)
  <2>1. setByIndex(doc, j, k, docThen)
    BY <1>5, <1>6, SetByIndex
  <2>2. QED
    BY <2>1 DEF setByIndex
<1>8. mod /\ docThen.modified /\ docThen.modifiedAfterAutosave
  <2>1. j # k
    BY <1>4 DEF cleanMoves
  <2>2. QED
    BY <1>7, <2>1 DEF setTo
<1>9. announced(j, k, posted, "idle")
  <2>1. ASSUME posted # <<>> PROVE k < Last(posted)
    <3>1. PICK x, r, last : x = Head(posted) /\ r = Tail(posted) /\ last = Last(posted)
      OBVIOUS
    <3>2. last \in Nat
      BY <1>5, <2>1, <3>1, SignalTaken
    <3>3. c < last
      BY <1>1, <1>2, <1>5, <2>1, <3>1 DEF safe, announced
    <3>4. k < last
      BY <1>4, <1>5, <3>2, <3>3 DEF cleanMoves
    <3>5. QED
      BY <3>1, <3>4
  <2>2. QED
    BY <2>1 DEF announced
<1>10. flagged(j, k, posted, docThen)
  BY <1>2, <1>7, <1>8 DEF safe, flagged, setTo
<1>11. stored(j, k, posted, docThen, then, disk, auto, upload)
  BY <1>2, <1>4, <1>6, <1>8 DEF safe, stored, cleanMoves
<1>12. unedited(j, k, "idle", queueThen, upload)
  BY <1>6 DEF unedited
<1>13. safe(j, k, posted, "idle", docThen, then, disk, auto, queueThen, upload)
  BY <1>9, <1>10, <1>11, <1>12 DEF safe
<1>14. QED
  BY <1>1, <1>3, <1>13 DEF DocumentInv, files

\* A transaction of the GUI thread is counted.
LEMMA LegacySaved ==
    ASSUME TypedInv, DocumentInv, savingMeantFor, NEW d \in Devices, commitLegacy(d)
    PROVE  DocumentInv'
<1>1. /\ devices \in [Devices -> Managers] /\ mementos \in Nat /\ StackInv /\ Shapes
  BY TypedParts DEF TypedInv
<1>2. /\ underLock /\ mementos < MaxTransactions /\ gui' = "idle" /\ UNCHANGED <<events, files>>
      /\ document' = slotUndoStackIndexChanged(document, stack', stack'.m_index)
  BY DEF commitLegacy
<1>3. PICK change \in Changes(getMemento(devices[d], mementos + 1)) :
        LET t == ended(opened(d, mementos + 1), change)
        IN  push([devices EXCEPT ![d] = commit(change)], [saved |-> FALSE, parts |-> <<t>>])
  BY DEF commitLegacy
<1>4. PICK t, u, parts, command :
        /\ t = ended(opened(d, mementos + 1), change)
        /\ u = [devices EXCEPT ![d] = commit(change)]
        /\ parts = <<t>> /\ command = [saved |-> FALSE, parts |-> parts]
  OBVIOUS
<1>5. push(u, command)
  BY <1>3, <1>4
<1>6. mementos + 1 <= MaxTransactions
  BY <1>1, <1>2, UndoAssumption
<1>7. t \in Transactions /\ u \in [Devices -> Managers]
  BY <1>1, <1>4, <1>6, LegacyTransaction
<1>8. command \in Commands
  <2>1. parts \in Seq(Transactions)
    BY <1>4, <1>7
  <2>2. QED
    BY <1>4, <2>1 DEF Commands
<1>9. ~stack.m_macro /\ Len(images) = count(stack) + 1
  BY <1>2, UnderLock
<1>10. \E e, oldest : hasPushed(u, command, e, oldest)
  BY <1>1, <1>5, <1>7, <1>8, <1>9, Pushing
<1>11. cleanMoves(stack.m_index, stack.m_clean_index, images, stack'.m_index,
                  stack'.m_clean_index, images')
  BY <1>10, PushMoves
<1>12. uploading = NoImage /\ (events # <<>> => gui # "idle")
  BY <1>2, NoUploadUnderLock
<1>13. QED
  BY <1>2, <1>11, <1>12, CountedSaved

\* A stroke is finished: the index is posted.
LEMMA StrokeSaved ==
    ASSUME TypedInv, DocumentInv, finishStrokeCallback
    PROVE  DocumentInv'
<1>1. /\ devices \in [Devices -> Managers] /\ StackInv /\ Shapes
      /\ transaction # NoTransaction /\ gui # "macro" /\ UNCHANGED <<gui, document, files>>
      /\ events' = Append(events, stack'.m_index)
  BY TypedParts DEF TypedInv, finishStrokeCallback
<1>2. transaction \in Transactions /\ transaction.device \in Devices /\ strokes # <<>>
  BY <1>1, AtWork
<1>3. PICK d, m, n, u, t, parts, command :
        /\ d = transaction.device /\ m = devices[d] /\ n = commit(m)
        /\ u = [devices EXCEPT ![d] = n] /\ t = ended(transaction, m)
        /\ parts = <<t>> /\ command = [saved |-> TRUE, parts |-> parts]
  OBVIOUS
<1>4. u \in [Devices -> Managers] /\ command \in Commands
  <2>1. d \in Devices /\ m \in Managers
    BY <1>1, <1>2, <1>3
  <2>2. n \in Managers
    BY <1>3, <2>1, Committed
  <2>3. t \in Transactions
    BY <1>2, <1>3, <2>1, EndedTyped
  <2>4. parts \in Seq(Transactions)
    BY <1>3, <2>3
  <2>5. QED
    BY <1>1, <1>3, <2>1, <2>2, <2>4 DEF Commands
<1>5. push(u, command)
  <2>1. u = [devices EXCEPT ![d] = commit(devices[d])]
    BY <1>3
  <2>2. QED
    BY <1>3, <2>1 DEF finishStrokeCallback
<1>6. ~stack.m_macro /\ Len(images) = count(stack) + 1
  BY <1>1 DEF TypedInv, StackInv, PagesInv
<1>7. \E e, oldest : hasPushed(u, command, e, oldest)
  BY <1>1, <1>4, <1>5, <1>6, Pushing
<1>8. PICK i, c, posted, g, doc, pages, disk, auto, queue, upload :
        /\ i = stack.m_index /\ c = stack.m_clean_index /\ posted = events /\ g = gui
        /\ doc = document /\ pages = images /\ disk = onDisk /\ auto = autosaved
        /\ queue = strokes /\ upload = uploading
  OBVIOUS
<1>9. safe(i, c, posted, g, doc, pages, disk, auto, queue, upload)
  BY <1>8 DEF DocumentInv
<1>10. PICK j, k, then, postedThen, queueThen :
         /\ j = stack'.m_index /\ k = stack'.m_clean_index /\ then = images'
         /\ postedThen = events' /\ queueThen = strokes'
  OBVIOUS
<1>11. cleanMoves(i, c, pages, j, k, then)
  <2>1. cleanMoves(stack.m_index, stack.m_clean_index, images, stack'.m_index,
                   stack'.m_clean_index, images')
    BY <1>7, PushMoves
  <2>2. QED
    BY <1>8, <1>10, <2>1
<1>12. upload = NoImage /\ g # "macro"
  BY <1>1, <1>2, <1>8, NoUpload
<1>13. postedThen # <<>> /\ Last(postedThen) = j
  <2>1. posted \in Seq(Nat) /\ j \in Nat /\ postedThen = Append(posted, j)
    BY <1>1, <1>8, <1>10, <1>11, IndexNumbers DEF cleanMoves
  <2>2. Len(postedThen) = Len(posted) + 1 /\ postedThen[Len(posted) + 1] = j /\ Len(posted) \in Nat
    BY <2>1
  <2>3. Len(postedThen) # 0
    BY <2>2
  <2>4. postedThen # <<>>
    BY <2>3, NothingTyped
  <2>5. QED
    BY <2>2, <2>4 DEF Last
<1>14. announced(j, k, postedThen, g)
  BY <1>11, <1>12, <1>13 DEF announced, cleanMoves
<1>15. flagged(j, k, postedThen, doc)
  BY <1>9, <1>13 DEF safe, flagged
<1>16. stored(j, k, postedThen, doc, then, disk, auto, upload)
  BY <1>9, <1>11, <1>12, <1>13 DEF safe, stored, cleanMoves
<1>17. unedited(j, k, g, queueThen, upload)
  BY <1>12 DEF unedited
<1>18. safe(j, k, postedThen, g, doc, then, disk, auto, queueThen, upload)
  BY <1>14, <1>15, <1>16, <1>17 DEF safe
<1>19. QED
  BY <1>1, <1>8, <1>10, <1>18 DEF DocumentInv, files

\* A macro is begun: what could be redone is forgotten, and with it perhaps the
\* clean state.
LEMMA MacroBegunSaved ==
    ASSUME TypedInv, DocumentInv, savingMeantFor, beginMacro
    PROVE  DocumentInv'
<1>1. /\ WellKept(stack) /\ stack.m_command_list \in Seq(Commands) /\ images \in Seq(Images)
  BY TypedParts
<1>2. PICK command : command = [saved |-> FALSE, parts |-> <<>>]
  OBVIOUS
<1>3. /\ underLock /\ stack' = macroBegun(stack, command)
      /\ images' = SubSeq(images, 1, stack.m_index + 1) /\ gui' = "macro"
      /\ UNCHANGED <<strokes, events, document, files>>
  BY <1>2 DEF beginMacro
<1>4. ~stack.m_macro /\ Len(images) = count(stack) + 1
  BY <1>3, UnderLock
<1>5. PICK s, t : s = stack /\ t = stack'
  OBVIOUS
<1>6. WellKept(s) /\ s.m_command_list \in Seq(Commands) /\ ~s.m_macro
  BY <1>1, <1>4, <1>5
<1>7. command \in Commands
  <2>1. <<>> \in Seq(Transactions)
    OBVIOUS
  <2>2. QED
    BY <1>2, <2>1 DEF Commands
<1>8. PICK longer : isLonger(s, command, longer) /\ t = [longer EXCEPT !.m_macro = TRUE]
  <2>1. t = macroBegun(s, command)
    BY <1>3, <1>5
  <2>2. QED
    BY <1>6, <1>7, <2>1, MacroBegunFields
<1>9. PICK i, c, posted, g, doc, pages, disk, auto, queue, upload :
        /\ i = stack.m_index /\ c = stack.m_clean_index /\ posted = events /\ g = gui
        /\ doc = document /\ pages = images /\ disk = onDisk /\ auto = autosaved
        /\ queue = strokes /\ upload = uploading
  OBVIOUS
<1>10. safe(i, c, posted, g, doc, pages, disk, auto, queue, upload)
  BY <1>9 DEF DocumentInv
<1>11. PICK k, then : k = stack'.m_clean_index /\ then = images'
  OBVIOUS
<1>12. t.m_index = i /\ k = (IF c > i THEN -1 ELSE c)
  <2>1. /\ longer \in StacksOf(Commands) /\ longer.m_index = i
        /\ longer.m_clean_index = (IF c > i THEN -1 ELSE c)
    BY <1>5, <1>8, <1>9 DEF isLonger
  <2>2. QED
    BY <1>5, <1>8, <1>11, <2>1 DEF StacksOf
<1>13. i \in Nat /\ c \in Nat \cup {-1}
  BY <1>9, IndexNumbers
<1>14. isHead(Images, pages, i + 1, then)
  <2>1. s.m_index \in 0 .. count(s) /\ count(s) \in Nat /\ Len(pages) = count(s) + 1
    BY <1>4, <1>5, <1>6, <1>9, StackFields
  <2>2. PICK l, n : l = count(s) /\ n = i + 1
    OBVIOUS
  <2>3. n \in 0 .. Len(pages)
    BY <1>5, <1>9, <1>13, <2>1, <2>2
  <2>4. pages \in Seq(Images) /\ then = SubSeq(pages, 1, n)
    BY <1>1, <1>3, <1>9, <1>11, <2>2
  <2>5. isHead(Images, pages, n, then)
    BY <2>3, <2>4, CutHead
  <2>6. QED
    BY <2>2, <2>5
<1>15. upload = NoImage /\ (posted # <<>> => g = "handling")
  BY <1>3, <1>9, NoUploadUnderLock
<1>16. announced(i, k, posted, "macro")
  <2>1. ASSUME posted # <<>> PROVE k < Last(posted)
    <3>1. PICK x, r, last : x = Head(posted) /\ r = Tail(posted) /\ last = Last(posted)
      OBVIOUS
    <3>2. last \in Nat
      <4>1. posted \in Seq(Nat)
        BY <1>9, IndexNumbers
      <4>2. QED
        BY <2>1, <3>1, <4>1, SignalTaken
    <3>3. c < last
      BY <1>10, <1>15, <2>1, <3>1 DEF safe, announced
    <3>4. k < last
      BY <1>12, <1>13, <3>2, <3>3
    <3>5. QED
      BY <3>1, <3>4
  <2>2. QED
    BY <2>1 DEF announced
<1>17. flagged(i, k, posted, doc)
  <2>1. posted = <<>> /\ ~doc.modified => i = k
    BY <1>10, <1>12, <1>13 DEF safe, flagged
  <2>2. QED
    BY <1>10, <2>1 DEF safe, flagged
<1>18. stored(i, k, posted, doc, then, disk, auto, upload)
  <2>1. then[i + 1] = pages[i + 1]
    <3>1. PICK n : n = i + 1
      OBVIOUS
    <3>2. n \in 1 .. n
      BY <1>13, <3>1
    <3>3. then[n] = pages[n]
      BY <1>14, <3>1, <3>2 DEF isHead
    <3>4. QED
      BY <3>1, <3>3
  <2>2. ASSUME k # -1 PROVE k = c /\ then[k + 1] = pages[c + 1]
    <3>1. k = c /\ c \in Nat /\ c <= i
      BY <1>12, <1>13, <2>2
    <3>2. PICK n, l : n = c + 1 /\ l = i + 1
      OBVIOUS
    <3>3. n \in 1 .. l
      BY <1>13, <3>1, <3>2
    <3>4. then[n] = pages[n]
      BY <1>14, <3>2, <3>3 DEF isHead
    <3>5. QED
      BY <3>1, <3>2, <3>4
  <2>3. QED
    BY <1>10, <2>1, <2>2 DEF safe, stored
<1>19. unedited(i, k, "macro", queue, upload)
  BY <1>12, <1>13, <1>15 DEF unedited
<1>20. safe(i, k, posted, "macro", doc, then, disk, auto, queue, upload)
  BY <1>16, <1>17, <1>18, <1>19 DEF safe
<1>21. QED
  BY <1>3, <1>5, <1>9, <1>11, <1>12, <1>20 DEF DocumentInv, files

\* A macro is ended, and counted.
LEMMA MacroEndedSaved ==
    ASSUME TypedInv, DocumentInv, endMacro
    PROVE  DocumentInv'
<1>1. /\ WellKept(stack) /\ stack.m_command_list \in Seq(Commands) /\ images \in Seq(Images)
      /\ StackInv /\ Shapes /\ PagesInv /\ devices \in [Devices -> Managers]
  BY TypedParts DEF TypedInv
<1>2. PICK longer : longer = [stack EXCEPT !.m_macro = FALSE]
  OBVIOUS
<1>3. PICK e : e = excess(longer)
  OBVIOUS
<1>4. PICK oldest : oldest = SubSeq(stack.m_command_list, 1, e)
  OBVIOUS
<1>5. /\ gui = "macro" /\ stack' = macroEnded(stack)
      /\ images' = SubSeq(Append(images, image), e + 1, Len(images) + 1)
      /\ document' = slotUndoStackIndexChanged(document, stack', stack'.m_index)
      /\ gui' = "idle" /\ UNCHANGED <<events, files>>
  BY <1>2, <1>3 DEF endMacro
<1>6. stack.m_macro /\ Len(images) = stack.m_index + 1
  BY <1>1, <1>5 DEF StackInv, PagesInv
<1>7. PICK s, t : s = stack /\ t = stack'
  OBVIOUS
<1>8. WellKept(s) /\ s.m_command_list \in Seq(Commands) /\ s.m_macro
  BY <1>1, <1>6, <1>7
<1>9. isEnded(s, e, t, oldest)
  <2>1. longer = [s EXCEPT !.m_macro = FALSE] /\ t = macroEnded(s)
        /\ oldest = SubSeq(s.m_command_list, 1, e)
    BY <1>2, <1>4, <1>5, <1>7
  <2>2. QED
    BY <1>3, <1>8, <2>1, MacroEndedFields
<1>10. PICK i, c, j, k : /\ i = stack.m_index /\ c = stack.m_clean_index
                         /\ j = stack'.m_index /\ k = stack'.m_clean_index
  OBVIOUS
<1>11. i \in Nat /\ c \in Nat \cup {-1}
  BY <1>10, IndexNumbers
<1>12. e \in 0 .. i /\ j = i + 1 - e /\ k = (IF c < e THEN -1 ELSE c - e)
  BY <1>7, <1>9, <1>10 DEF isEnded
<1>13. c <= i
  BY <1>5, <1>10 DEF DocumentInv, safe, unedited
<1>14. image \in Images
  <2>1. imageOf(devices) \in Images
    BY <1>1, ImageTyped
  <2>2. QED
    BY <2>1 DEF image, imageOf
<1>15. PICK pages, n, x, more, first, last, then :
         /\ pages = images /\ n = Len(pages) /\ x = image /\ more = Append(pages, x)
         /\ first = e + 1 /\ last = n + 1 /\ then = SubSeq(more, first, last)
  OBVIOUS
<1>16. isGrown(Images, pages, i + 1, x, e, then)
  <2>1. pages \in Seq(Images) /\ x \in Images
    BY <1>1, <1>14, <1>15
  <2>2. n = i + 1
    BY <1>6, <1>10, <1>15
  <2>3. e \in 0 .. n
    BY <1>11, <1>12, <2>2
  <2>4. isGrown(Images, pages, n, x, e, then)
    BY <1>15, <2>1, <2>3, GrownAndCut
  <2>5. QED
    BY <2>2, <2>4
<1>17. cleanMoves(i, c, pages, j, k, then)
  <2>1. PICK f \in Nat \cup {-1} : f = c
    BY <1>11
  <2>2. f <= c /\ f <= i /\ (f # -1 => f = c) /\ k = (IF f < e THEN -1 ELSE f - e)
    BY <1>11, <1>12, <1>13, <2>1
  <2>3. QED
    BY <1>11, <1>12, <1>16, <2>2, CleanMoves
<1>18. then = images'
  BY <1>5, <1>15
<1>19. cleanMoves(stack.m_index, stack.m_clean_index, images, stack'.m_index,
                  stack'.m_clean_index, images')
  BY <1>10, <1>15, <1>17, <1>18
<1>20. uploading = NoImage /\ gui # "idle"
  BY <1>5, NoUpload
<1>21. QED
  BY <1>5, <1>19, <1>20, CountedSaved

\* A document that is opened is in the file.
LEMMA OpenedSaved == Init => DocumentInv
<1>1. SUFFICES ASSUME Init PROVE DocumentInv
  OBVIOUS
<1>2. /\ stack = EmptyStack /\ strokes = <<>> /\ gui = "idle" /\ events = <<>>
      /\ document = NewDocument /\ images = <<image>> /\ onDisk = image /\ autosaved = NoImage
      /\ uploading = NoImage
  BY <1>1 DEF Init
<1>3. PICK x : x = image
  OBVIOUS
<1>4. images[1] = onDisk
  BY <1>2, <1>3
<1>5. stack.m_index = 0 /\ stack.m_clean_index = 0
  BY <1>2 DEF EmptyStack
<1>6. announced(0, 0, events, gui) /\ unedited(0, 0, gui, strokes, uploading)
  BY <1>2 DEF announced, unedited
<1>7. flagged(0, 0, events, document)
  BY <1>2 DEF flagged, flagsFit, NewDocument
<1>8. stored(0, 0, events, document, images, onDisk, autosaved, uploading)
  BY <1>2, <1>4 DEF stored, NewDocument
<1>9. QED
  BY <1>5, <1>6, <1>7, <1>8 DEF DocumentInv, safe

\* Every step keeps that.
LEMMA DocumentNext ==
    savingMeantFor /\ TypedInv /\ HistoryInv /\ DocumentInv /\ Next => DocumentInv'
<1>1. SUFFICES ASSUME savingMeantFor, TypedInv, HistoryInv, DocumentInv, Next PROVE DocumentInv'
  OBVIOUS
<1>2. CASE \/ startHandling \/ giveUp
           \/ \E d \in Devices : startStroke(d) \/ commitInMacro(d)
           \/ \E i \in 1 .. Len(strokes) : closeStroke(i, "ended") \/ closeStroke(i, "cancelled")
           \/ initStrokeCallback \/ doStrokeCallback \/ cancelStrokeCallback \/ dropStroke
           \/ runCommand
  BY <1>1, <1>2, WorkSaved
<1>3. CASE deliver
  BY <1>1, <1>3, SignalSaved
<1>4. CASE undo \/ redo \/ \E idx \in 0 .. count(stack) : setIndex(idx)
  BY <1>1, <1>4, MovesSaved
<1>5. CASE \E d \in Devices : commitLegacy(d)
  BY <1>1, <1>5, LegacySaved
<1>6. CASE beginMacro
  BY <1>1, <1>6, MacroBegunSaved
<1>7. CASE endMacro
  BY <1>1, <1>7, MacroEndedSaved
<1>8. CASE save \/ saveRemote
  BY <1>1, <1>8, SavesSaved
<1>9. CASE failToSave
  BY <1>1, <1>9, FailureSaved
<1>10. CASE exportDocument
  BY <1>1, <1>10, ExportSaved
<1>11. CASE uploadFinished
  BY <1>1, <1>11, UploadSaved
<1>12. CASE slotAutoSave
  BY <1>1, <1>12, AutosaveSaved
<1>13. CASE finishStrokeCallback
  BY <1>1, <1>13, StrokeSaved
<1>14. QED
  BY <1>1, <1>2, <1>3, <1>4, <1>5, <1>6, <1>7, <1>8, <1>9, <1>10, <1>11, <1>12, <1>13
  DEF Next, GUI, Worker

\* What the program is made for, altogether.
LEMMA AlwaysSaved ==
    historyMeantFor /\ savingMeantFor => (Spec => [](TypedInv /\ HistoryInv /\ DocumentInv))
<1>1. SUFFICES ASSUME historyMeantFor, savingMeantFor
               PROVE  Spec => [](TypedInv /\ HistoryInv /\ DocumentInv)
  OBVIOUS
<1>2. Spec => [](TypedInv /\ HistoryInv)
  <2>1. Spec => [](TypedInv /\ HistoryInv /\ Composing)
    BY <1>1, AlwaysTold
  <2>2. QED
    BY <2>1, PTL
<1>3. TypedInv /\ HistoryInv /\ DocumentInv /\ Next => DocumentInv'
  BY <1>1, DocumentNext
<1>4. DocumentInv /\ UNCHANGED vars => DocumentInv'
  <2>1. SUFFICES ASSUME DocumentInv, UNCHANGED vars PROVE DocumentInv'
    OBVIOUS
  <2>2. UNCHANGED <<stack, events, gui, document, images, onDisk, autosaved, strokes, uploading>>
    BY <2>1 DEF vars
  <2>3. QED
    BY <2>1, <2>2 DEF DocumentInv
<1>5. QED
  BY <1>2, <1>3, <1>4, OpenedSaved, PTL DEF Spec

\* When all is settled: the flag is that of the clean index, whose image is saved.
LEMMA SettledSaved ==
    TypedInv /\ HistoryInv /\ DocumentInv => UnmodifiedMeansSaved /\ WorkIsAutosaved
<1>1. SUFFICES ASSUME TypedInv, HistoryInv, DocumentInv, settled
               PROVE  /\ ~document.modified => image \in {onDisk, uploading}
                      /\ image \notin {onDisk, autosaved, uploading} => autoSaveDue(document)
  BY DEF UnmodifiedMeansSaved, WorkIsAutosaved
<1>2. PICK i, c, posted, g, doc, pages, disk, auto, queue, upload, page :
        /\ i = stack.m_index /\ c = stack.m_clean_index /\ posted = events /\ g = gui
        /\ doc = document /\ pages = images /\ disk = onDisk /\ auto = autosaved
        /\ queue = strokes /\ upload = uploading /\ page = image
  OBVIOUS
<1>3. safe(i, c, posted, g, doc, pages, disk, auto, queue, upload)
  BY <1>1, <1>2 DEF DocumentInv
<1>4. posted = <<>> /\ i # -1 /\ doc \in Documents
  BY <1>1, <1>2, IndexNumbers DEF settled
<1>5. page = pages[i + 1]
  <2>1. ImageFollowsHistory /\ quiet
    BY <1>1, QuietImage DEF settled
  <2>2. QED
    BY <1>2, <2>1 DEF ImageFollowsHistory
<1>6. ASSUME ~doc.modified PROVE page \in {disk, upload}
  <2>1. i = c
    BY <1>3, <1>4, <1>6 DEF safe, flagged
  <2>2. pages[i + 1] = upload \/ pages[i + 1] = disk
    BY <1>3, <1>4, <2>1 DEF safe, stored
  <2>3. QED
    BY <1>5, <2>2
<1>7. ASSUME page \notin {disk, auto, upload} PROVE autoSaveDue(doc)
  <2>1. doc.modified
    BY <1>6, <1>7
  <2>2. doc.modifiedAfterAutosave
    BY <1>3, <1>4, <1>5, <1>7, <2>1 DEF safe, stored
  <2>3. doc.autoSaveTimer
    BY <1>3, <2>2 DEF safe, flagged, flagsFit
  <2>4. QED
    BY <2>1, <2>2, <2>3 DEF autoSaveDue
<1>8. QED
  BY <1>2, <1>6, <1>7

\* Closing a document that is not marked as modified loses nothing: once the
\* strokes are executed and the signals delivered, its image is in the file or on
\* its way there, whatever was pushed, undone, put in macros or dropped by the
\* limit since, and however late slotUndoStackIndexChanged() heard of it.
THEOREM UnmodifiedAlwaysSaved ==
    historyMeantFor /\ savingMeantFor => (Spec => []UnmodifiedMeansSaved)
<1>1. ASSUME historyMeantFor, savingMeantFor PROVE Spec => []UnmodifiedMeansSaved
  BY <1>1, AlwaysSaved, SettledSaved, PTL
<1>2. QED
  BY <1>1

\* Work that is in no file and on its way to none is autosaved: setModified() has
\* started the timer, and slotAutoSave() will not pass over it.
THEOREM WorkAlwaysAutosaved ==
    historyMeantFor /\ savingMeantFor => (Spec => []WorkIsAutosaved)
<1>1. ASSUME historyMeantFor, savingMeantFor PROVE Spec => []WorkIsAutosaved
  BY <1>1, AlwaysSaved, SettledSaved, PTL
<1>2. QED
  BY <1>1
===============================================================================
