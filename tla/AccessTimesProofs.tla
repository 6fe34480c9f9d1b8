-------------------------- MODULE AccessTimesProofs --------------------------
(***************************************************************************)
(* AccessTimes for any number of readers, flushes and a-nodes and any      *)
(* bound on the clock: what its operators return, the steps of readers, of *)
(* an open transaction, of commits and of flushes, and the theorems.       *)
(***************************************************************************)
EXTENDS AccessTimes, TLAPS

\* The later of two times is one of them and no earlier than either (Later).
LEMMA LaterIs ==
  ASSUME NEW t \in Nat, NEW u \in Nat
  PROVE  Later(t, u) \in {t, u} /\ Later(t, u) >= t /\ Later(t, u) >= u
BY DEF Later

\* The entries of a log are times, 0 for none.
LEMMA LogsAreTimes ==
  ASSUME NEW l \in Log, NEW k \in AKey
  PROVE  l[k] \in Nat /\ l[k] \in 0..MaxTime
BY TimeAssumption DEF Log

\* The empty log is a log without entries.
LEMMA NoLogIsLog == NoLog \in Log /\ \A k \in AKey : NoLog[k] = 0
BY TimeAssumption DEF NoLog, Log

\* What a batch does to one inode: only its access time moves, to the batch's when that
\* is later (bump_access in bump_access_batch).
LEMMA BumpedIs ==
  ASSUME NEW ts \in Inodes, NEW batch \in Log
  PROVE  /\ Bumped(ts, batch) \in Inodes
         /\ \A k \in AKey :
              /\ Bumped(ts, batch)[k] = None <=> ts[k] = None
              /\ ts[k] # None =>
                   /\ NoEarlier(ts[k], Bumped(ts, batch)[k])
                   /\ Bumped(ts, batch)[k].modified = ts[k].modified
                   /\ Bumped(ts, batch)[k].accessed >= batch[k]
                   /\ Bumped(ts, batch)[k].accessed = ts[k].accessed
                        \/ (batch[k] # 0 /\ Bumped(ts, batch)[k].accessed = batch[k])
<1>1. SUFFICES ASSUME NEW k \in AKey
               PROVE  LET b == Bumped(ts, batch)[k] IN
                      /\ b \in Timestamps \cup {None}
                      /\ b = None <=> ts[k] = None
                      /\ ts[k] # None =>
                           /\ NoEarlier(ts[k], b)
                           /\ b.modified = ts[k].modified
                           /\ b.accessed >= batch[k]
                           /\ b.accessed = ts[k].accessed \/ (batch[k] # 0 /\ b.accessed = batch[k])
  BY Zenon DEF Bumped, Inodes
<1> DEFINE b == Bumped(ts, batch)[k]
<1>2. b = IF batch[k] = 0 THEN ts[k] ELSE bump_access(ts[k], batch[k])
  BY Zenon DEF Bumped
<1>3. ts[k] \in Timestamps \cup {None} /\ batch[k] \in 0..MaxTime /\ batch[k] \in Nat
  BY LogsAreTimes, Zenon DEF Inodes
<1>4. CASE ts[k] = None
  BY <1>2, <1>4, Zenon DEF bump_access
<1>5. CASE ts[k] # None
  <2>1. ts[k] \in Timestamps /\ ts[k].accessed \in Nat /\ ts[k].modified \in Nat
    BY <1>3, <1>5, TimeAssumption DEF Timestamps, Time
  <2>2. CASE batch[k] = 0
    BY <2>1, <2>2, <1>2, <1>5 DEF NoEarlier
  <2>3. CASE batch[k] # 0
    <3>1. b = [ts[k] EXCEPT !.accessed = Later(ts[k].accessed, batch[k])]
      BY <2>3, <1>2, <1>5, Zenon DEF bump_access
    <3>2. Later(ts[k].accessed, batch[k]) \in Time
      BY <2>1, <2>3, <1>3, LaterIs, TimeAssumption DEF Timestamps, Time
    <3>3. b \in Timestamps /\ b.created = ts[k].created /\ b.modified = ts[k].modified
          /\ b.accessed = Later(ts[k].accessed, batch[k])
      BY <3>1, <3>2, <2>1, Zenon DEF Timestamps
    <3>4. b # None
      BY <3>3, NoneAssumption, Zenon
    <3> QED BY <3>3, <3>4, <2>1, <2>3, <1>3, <1>5, LaterIs DEF NoEarlier
  <2> QED BY <2>2, <2>3, Zenon
<1> QED BY <1>3, <1>4, <1>5, Zenon


\* What a write does to one inode: made on the first, its modification moved after (touch).
LEMMA TouchIs ==
  ASSUME NEW ts \in Inodes, NEW k \in AKey, NEW now \in Time
  PROVE  /\ touch(ts, k, now) \in Inodes
         /\ \A j \in AKey \ {k} : touch(ts, k, now)[j] = ts[j]
         /\ touch(ts, k, now)[k] \in Timestamps
         /\ touch(ts, k, now)[k].modified = now
         /\ ts[k] = None => touch(ts, k, now)[k].accessed = now
         /\ ts[k] # None => /\ touch(ts, k, now)[k].accessed = ts[k].accessed
                            /\ touch(ts, k, now)[k].created = ts[k].created
<1> DEFINE t == IF ts[k] = None THEN [created |-> now, modified |-> now, accessed |-> now]
                ELSE [ts[k] EXCEPT !.modified = now]
<1>1. touch(ts, k, now) = [ts EXCEPT ![k] = t]
  BY Zenon DEF touch
<1>2. /\ t \in Timestamps /\ t.modified = now
      /\ ts[k] = None => t.accessed = now
      /\ ts[k] # None => t.accessed = ts[k].accessed /\ t.created = ts[k].created
  <2>1. CASE ts[k] = None
    BY <2>1, Zenon DEF Timestamps
  <2>2. CASE ts[k] # None
    BY <2>2 DEF Timestamps, Inodes
  <2> QED BY <2>1, <2>2, Zenon
<1> HIDE DEF t
<1> QED BY <1>1, <1>2, Zenon DEF Inodes

-----------------------------------------------------------------------------
(* Type correctness. *)

\* The state keeps its types (Next of AccessTimes).
LEMMA TypeStep == ASSUME TypeOK, [Next]_vars PROVE TypeOK'
<1> USE TimeAssumption
<1>0. /\ clock \in Time /\ live \subseteq AKey /\ used \subseteq AKey /\ times \in Inodes /\ log \in Log
      /\ reading \in [Reader -> ReadTxn \cup {None}] /\ writer \in WriteTxn \cup {None}
      /\ flusher \in [Flusher -> Flush \cup {None}] /\ seen \in [AKey -> SUBSET Time] /\ kept \in Log
  BY Zenon DEF TypeOK
<1>1. CASE UNCHANGED vars
  BY <1>0, <1>1, Zenon DEF TypeOK, vars
<1>2. CASE Tick
  BY <1>0, <1>2 DEF TypeOK, Tick, Time
<1>3. ASSUME NEW r \in Reader, OpenRead(r) PROVE TypeOK'
  <2>1. [live |-> live, log |-> NoLog] \in ReadTxn
    BY <1>0, NoLogIsLog, Zenon DEF ReadTxn
  <2> QED BY <1>0, <1>3, <2>1, Zenon DEF TypeOK, OpenRead
<1>4. ASSUME NEW r \in Reader, NEW k \in AKey, Read(r, k) PROVE TypeOK'
  <2>1. reading[r] \in ReadTxn
    BY <1>0, <1>4, Zenon DEF Read
  <2>2. [reading[r].log EXCEPT ![k] = clock] \in Log
    BY <1>0, <2>1 DEF ReadTxn, Log, Time
  <2>3. [reading[r] EXCEPT !.log[k] = clock] \in ReadTxn
    BY <2>1, <2>2, Zenon DEF ReadTxn
  <2>4. reading' \in [Reader -> ReadTxn \cup {None}]
    BY <1>0, <1>4, <2>3, Zenon DEF Read
  <2>5. seen' \in [AKey -> SUBSET Time]
    BY <1>0, <1>4, Zenon DEF Read, Saw
  <2> QED BY <1>0, <1>4, <2>4, <2>5, Zenon DEF TypeOK, Read
<1>5. ASSUME NEW r \in Reader, DropRead(r) PROVE TypeOK'
  <2>1. reading[r].log \in Log
    BY <1>0, <1>5, Zenon DEF DropRead, ReadTxn
  <2>2. log' \in Log /\ kept' \in Log
    BY <1>0, <1>5, <2>1, LogsAreTimes, LaterIs, Zenon DEF DropRead, deposit_access, Log
  <2> QED BY <1>0, <1>5, <2>2, Zenon DEF TypeOK, DropRead
<1>6. CASE Begin
  <2>1. [phase |-> "open", live |-> live, times |-> times, batch |-> NoLog] \in WriteTxn
    BY <1>0, NoLogIsLog, Zenon DEF WriteTxn
  <2> QED BY <1>0, <1>6, <2>1, Zenon DEF TypeOK, Begin
<1>7. ASSUME NEW k \in AKey, Put(k) PROVE TypeOK'
  <2>1. writer \in WriteTxn /\ writer.times \in Inodes
    BY <1>0, <1>7, Zenon DEF Put, Writing, WriteTxn
  <2>2. touch(writer.times, k, clock) \in Inodes
    BY <1>0, <2>1, TouchIs, Zenon
  <2>3. writer' = [writer EXCEPT !.live = writer.live \cup {k}, !.times = touch(writer.times, k, clock)]
    BY <1>7, Zenon DEF Put
  <2>4. writer' \in WriteTxn
    BY <2>1, <2>2, <2>3, Zenon DEF WriteTxn
  <2>5. seen' \in [AKey -> SUBSET Time]
    BY <1>0, <1>7 DEF Put, Saw
  <2> QED BY <1>0, <1>7, <2>4, <2>5, Zenon DEF TypeOK, Put
<1>8. ASSUME NEW k \in AKey, Remove(k) PROVE TypeOK'
  <2>1. writer \in WriteTxn /\ writer.times \in Inodes
    BY <1>0, <1>8, Zenon DEF Remove, Writing, WriteTxn
  <2>2. forget(writer.times, k) \in Inodes
    BY <2>1, Zenon DEF forget, Inodes
  <2>3. writer' = [writer EXCEPT !.live = writer.live \ {k}, !.times = forget(writer.times, k)]
    BY <1>8, Zenon DEF Remove
  <2>4. writer' \in WriteTxn
    BY <2>1, <2>2, <2>3, Zenon DEF WriteTxn
  <2> QED BY <1>0, <1>8, <2>4, Zenon DEF TypeOK, Remove
<1>9. ASSUME NEW k \in AKey, record_access(k) PROVE TypeOK'
  <2>1. [NoLog EXCEPT ![k] = clock] \in Log
    BY <1>0, NoLogIsLog DEF Log, Time
  <2>2. log' \in Log
    BY <1>0, <1>9, <2>1, LogsAreTimes, LaterIs, Zenon DEF record_access, deposit_access, Log
  <2>3. kept' \in Log
    BY <1>0, <1>9 DEF record_access, Log, Time
  <2>4. seen' \in [AKey -> SUBSET Time]
    BY <1>0, <1>9, Zenon DEF record_access, Saw
  <2> QED BY <1>0, <1>9, <2>2, <2>3, <2>4, Zenon DEF TypeOK, record_access
<1>10. CASE CommitDrains
  <2>1. writer \in WriteTxn /\ writer.times \in Inodes
    BY <1>0, <1>10, Zenon DEF CommitDrains, Writing, WriteTxn
  <2>2. Bumped(writer.times, log) \in Inodes
    BY <1>0, <2>1, BumpedIs, Zenon
  <2>3. writer' \in WriteTxn
    BY <1>0, <1>10, <2>1, <2>2, Zenon DEF CommitDrains, Drain, WriteTxn
  <2> QED BY <1>0, <1>10, <2>3, NoLogIsLog, Zenon DEF TypeOK, CommitDrains, Drain
<1>11. CASE CommitEnds
  <2>1. writer \in WriteTxn
    BY <1>0, <1>11, Zenon DEF CommitEnds
  <2> QED BY <1>0, <1>11, <2>1, Zenon DEF TypeOK, CommitEnds, WriteTxn
<1>12. ASSUME NEW batch \in Log, Lost(batch) PROVE kept' \in Log
  BY <1>0, <1>12 DEF Lost, Log
<1>13. CASE CommitFails
  <2>1. writer.batch \in Log
    BY <1>0, <1>13, Zenon DEF CommitFails, WriteTxn
  <2> QED BY <1>0, <1>12, <1>13, <2>1, Zenon DEF TypeOK, CommitFails
<1>14. CASE Abandon
  BY <1>0, <1>14, Zenon DEF TypeOK, Abandon
<1>15. ASSUME NEW f \in Flusher, FlushDrains(f) PROVE TypeOK'
  <2>1. [phase |-> "drained", times |-> times, batch |-> log] \in Flush
    BY <1>0, Zenon DEF Flush
  <2> QED BY <1>0, <1>15, <2>1, NoLogIsLog, Zenon DEF TypeOK, FlushDrains
<1>16. ASSUME NEW f \in Flusher, FlushBegins(f) PROVE TypeOK'
  <2>1. flusher[f] \in Flush /\ flusher[f].batch \in Log
    BY <1>0, <1>16, Zenon DEF FlushBegins, Flush
  <2>2. Bumped(times, flusher[f].batch) \in Inodes
    BY <1>0, <2>1, BumpedIs, Zenon
  <2>3. [flusher[f] EXCEPT !.phase = "begun", !.times = Bumped(times, flusher[f].batch)] \in Flush
    BY <2>1, <2>2, Zenon DEF Flush
  <2>4. flusher' = [flusher EXCEPT ![f] = [flusher[f] EXCEPT !.phase = "begun", !.times = Bumped(times, flusher[f].batch)]]
    BY <1>0, <1>16, Zenon DEF FlushBegins
  <2> QED BY <1>0, <1>16, <2>3, <2>4 DEF TypeOK, FlushBegins
<1>17. ASSUME NEW f \in Flusher, FlushEnds(f) PROVE TypeOK'
  <2>1. flusher[f] \in Flush
    BY <1>0, <1>17, Zenon DEF FlushEnds
  <2> QED BY <1>0, <1>17, <2>1, Zenon DEF TypeOK, FlushEnds, Flush
<1>18. ASSUME NEW f \in Flusher, FlushFails(f) PROVE TypeOK'
  <2>1. flusher[f].batch \in Log
    BY <1>0, <1>18, Zenon DEF FlushFails, Flush
  <2> QED BY <1>0, <1>12, <1>18, <2>1, Zenon DEF TypeOK, FlushFails
<1>19. CASE Crash
  BY <1>0, <1>19, NoLogIsLog, Zenon DEF TypeOK, Crash
<1> QED BY <1>1, <1>2, <1>3, <1>4, <1>5, <1>6, <1>7, <1>8, <1>9, <1>10, <1>11, <1>13, <1>14,
           <1>15, <1>16, <1>17, <1>18, <1>19, Zenon DEF Next

-----------------------------------------------------------------------------
(* The inductive invariant.  One lemma per action; under it, a step for each *)
(* conjunct the action can disturb.                                          *)

\* What is promised of the inodes and of the transactions stays when they stay and
\* the histories grow.
LEMMA FrameInodes ==
  ASSUME TimesInv, UNCHANGED <<live, times, writer, flusher>>, clock' >= clock, clock' \in Nat,
         \A k \in AKey : seen[k] \subseteq seen'[k], used' = used
  PROVE  InodesOfLive' /\ AccessHappened' /\ OneWrite' /\ WriterInv' /\ ClockInv'
<1> USE DEF TimesInv
<1>1. InodesOfLive' /\ AccessHappened'
  BY Zenon DEF InodesOfLive, AccessHappened
<1>2. OneWrite'
  BY Zenon DEF OneWrite, Bumped
<1>3. \A k \in AKey : (times[k] # None => times[k].modified \in Nat)
                      /\ (writer # None /\ writer.times[k] # None => writer.times[k].modified \in Nat)
  BY TimeAssumption DEF TypeOK, Inodes, Timestamps, Time, WriteTxn
<1>4. clock \in Nat
  BY TimeAssumption DEF TypeOK, Time
<1>5. ClockInv'
  BY <1>3, <1>4 DEF ClockInv
<1>6. WriterInv'
  BY <1>3, <1>4 DEF WriterInv, NoEarlier
<1> QED BY <1>1, <1>2, <1>5, <1>6, Zenon

\* Nothing is dropped while neither the log nor what a transaction holds moves.
LEMMA FrameKept ==
  ASSUME TimesInv, UNCHANGED <<times, writer, flusher, log, kept>>
  PROVE  KeptInv'
BY Zenon DEF TimesInv, KeptInv, Owed, InSomeHand

\* The clock moves on.
LEMMA TickStep == ASSUME TimesInv, Tick PROVE TimesInv'
<1>1. TypeOK'
  BY TypeStep, Zenon DEF TimesInv, Next
<1>2. clock' >= clock /\ clock' \in Nat
  BY TimeAssumption DEF TimesInv, TypeOK, Tick, Time
<1>3. InodesOfLive' /\ AccessHappened' /\ OneWrite' /\ WriterInv' /\ ClockInv' /\ KeptInv'
  BY <1>2, FrameInodes, FrameKept, Zenon DEF Tick
<1>4. UsedInv' /\ LogInv'
  BY Zenon DEF TimesInv, Tick, UsedInv, LogInv, Happened
<1> QED BY <1>1, <1>3, <1>4, Zenon DEF TimesInv

\* A read transaction begins with nothing recorded.
LEMMA OpenReadStep == ASSUME TimesInv, NEW r \in Reader, OpenRead(r) PROVE TimesInv'
<1>1. TypeOK'
  BY TypeStep, Zenon DEF TimesInv, Next
<1>2. clock' >= clock /\ clock' \in Nat
  BY TimeAssumption DEF TimesInv, TypeOK, OpenRead, Time
<1>3. InodesOfLive' /\ AccessHappened' /\ OneWrite' /\ WriterInv' /\ ClockInv' /\ KeptInv'
  BY <1>2, FrameInodes, FrameKept, Zenon DEF OpenRead
<1>4. UsedInv' /\ LogInv'
  BY NoLogIsLog, Zenon DEF TimesInv, TypeOK, OpenRead, UsedInv, LogInv, Happened
<1> QED BY <1>1, <1>3, <1>4, Zenon DEF TimesInv

\* buffer_access: the time is that of a read that is happening.
LEMMA ReadStep == ASSUME TimesInv, NEW r \in Reader, NEW k \in AKey, Read(r, k) PROVE TimesInv'
<1>1. TypeOK'
  BY TypeStep, Zenon DEF TimesInv, Next
<1>2. clock' >= clock /\ clock' \in Nat
  BY TimeAssumption DEF TimesInv, TypeOK, Read, Time
<1>3. /\ \A j \in AKey : seen[j] \subseteq seen'[j]
      /\ clock \in seen'[k]
  BY Zenon DEF TimesInv, TypeOK, Read, Saw
<1>4. InodesOfLive' /\ AccessHappened' /\ OneWrite' /\ WriterInv' /\ ClockInv' /\ KeptInv'
  BY <1>2, <1>3, FrameInodes, FrameKept, Zenon DEF Read
<1>5. /\ reading[r] \in ReadTxn
      /\ reading' = [reading EXCEPT ![r] = [reading[r] EXCEPT !.log = [reading[r].log EXCEPT ![k] = clock]]]
  BY Zenon DEF TimesInv, TypeOK, Read
<1>6. /\ reading'[r].live = reading[r].live
      /\ \A j \in AKey : reading'[r].log[j] = IF j = k THEN clock ELSE reading[r].log[j]
      /\ \A q \in Reader \ {r} : reading'[q] = reading[q]
  BY <1>5, Zenon DEF ReadTxn, Log, TimesInv, TypeOK
<1>7. UsedInv'
  BY <1>6, Zenon DEF TimesInv, UsedInv, Read
<1>8. k \in used
  BY Zenon DEF TimesInv, UsedInv, Read
<1>9. LogInv'
  <2>1. Happened(log)' /\ \A f \in Flusher : flusher'[f] # None => Happened(flusher[f].batch)'
    BY <1>3, Zenon DEF TimesInv, LogInv, Happened, Read
  <2>2. ASSUME NEW q \in Reader, reading'[q] # None PROVE Happened(reading[q].log)'
    <3>1. CASE q = r
      BY <3>1, <1>3, <1>6, <1>8 DEF TimesInv, LogInv, Happened, Read
    <3>2. CASE q # r
      BY <3>2, <2>2, <1>3, <1>6, Zenon DEF TimesInv, LogInv, Happened, Read
    <3> QED BY <3>1, <3>2, Zenon
  <2> QED BY <2>1, <2>2, Zenon DEF LogInv, Read
<1> QED BY <1>1, <1>4, <1>7, <1>9, Zenon DEF TimesInv

\* ReadTxn::drop: the later of the logged and the deposited time is logged.
LEMMA DropReadStep == ASSUME TimesInv, NEW r \in Reader, DropRead(r) PROVE TimesInv'
<1>1. TypeOK'
  BY TypeStep, Zenon DEF TimesInv, Next
<1>2. clock' >= clock /\ clock' \in Nat
  BY TimeAssumption DEF TimesInv, TypeOK, DropRead, Time
<1>3. InodesOfLive' /\ AccessHappened' /\ OneWrite' /\ WriterInv' /\ ClockInv'
  BY <1>2, FrameInodes, Zenon DEF DropRead
<1>4. reading[r].log \in Log
  BY Zenon DEF TimesInv, TypeOK, DropRead, ReadTxn
<1>5. \A k \in AKey :
        /\ log[k] \in Nat /\ kept[k] \in Nat /\ reading[r].log[k] \in Nat
        /\ log'[k] = Later(log[k], reading[r].log[k])
        /\ kept'[k] = Later(kept[k], reading[r].log[k])
  BY <1>4, LogsAreTimes, Zenon DEF TimesInv, TypeOK, DropRead, deposit_access
<1>6. UsedInv' /\ LogInv'
  <2>1. \A k \in AKey : log'[k] \in {log[k], reading[r].log[k]} /\ kept'[k] \in {kept[k], reading[r].log[k]}
    BY <1>5, LaterIs, Zenon
  <2>2. \A q \in Reader : reading'[q] # None => reading'[q] = reading[q]
    BY Zenon DEF TimesInv, TypeOK, DropRead
  <2>3. UsedInv'
    BY <2>1, <2>2, Zenon DEF TimesInv, UsedInv, LogInv, Happened, DropRead
  <2>4. LogInv'
    BY <2>1, <2>2, Zenon DEF TimesInv, LogInv, Happened, DropRead
  <2> QED BY <2>3, <2>4, Zenon
<1>7. KeptInv'
  <2>1. SUFFICES ASSUME NEW k \in AKey, Owed(k)' PROVE InSomeHand(k)'
    BY Zenon DEF KeptInv
  <2>2. Owed(k) /\ InSomeHand(k)
    BY <2>1, Zenon DEF TimesInv, KeptInv, Owed, DropRead
  <2>3. log'[k] >= log[k] /\ log'[k] >= reading[r].log[k] /\ kept'[k] \in {kept[k], reading[r].log[k]}
        /\ log'[k] \in Nat
    BY <1>5, LaterIs, Zenon
  <2>4. CASE kept'[k] = kept[k]
    BY <2>2, <2>3, <2>4, <1>5 DEF InSomeHand, DropRead
  <2>5. CASE kept'[k] = reading[r].log[k]
    BY <2>3, <2>5, Zenon DEF InSomeHand
  <2> QED BY <2>3, <2>4, <2>5, Zenon
<1> QED BY <1>1, <1>3, <1>6, <1>7, Zenon DEF TimesInv

\* A write transaction starts from the committed inodes.
LEMMA BeginStep == ASSUME TimesInv, Begin PROVE TimesInv'
<1>1. TypeOK'
  BY TypeStep, Zenon DEF TimesInv, Next
<1>2. InodesOfLive' /\ AccessHappened' /\ ClockInv' /\ UsedInv' /\ LogInv'
  BY Zenon DEF TimesInv, Begin, InodesOfLive, AccessHappened, ClockInv, UsedInv, LogInv, Happened
<1>3. OneWrite'
  BY Zenon DEF TimesInv, Begin, EngineFree, OneWrite
<1>4. \A k \in AKey : times[k] # None => times[k].modified \in Nat /\ times[k].accessed \in Nat
  BY TimeAssumption DEF TimesInv, TypeOK, Inodes, Timestamps, Time
<1>5. WriterInv'
  BY <1>4, NoLogIsLog
     DEF TimesInv, Begin, WriterInv, NoEarlier, InodesOfLive, AccessHappened, ClockInv, UsedInv
<1>6. KeptInv'
  BY Zenon DEF TimesInv, Begin, EngineFree, KeptInv, Owed, InSomeHand
<1> QED BY <1>1, <1>2, <1>3, <1>5, <1>6, Zenon DEF TimesInv

\* put_entry: a new a-node answers for nothing yet, an old one keeps its times.
LEMMA PutStep == ASSUME TimesInv, NEW k \in AKey, Put(k) PROVE TimesInv'
<1>1. TypeOK'
  BY TypeStep, Zenon DEF TimesInv, Next
<1>2. /\ writer # None /\ writer \in WriteTxn /\ writer.times \in Inodes /\ clock \in Time
      /\ writer' = [writer EXCEPT !.live = writer.live \cup {k}, !.times = touch(writer.times, k, clock)]
  BY Zenon DEF TimesInv, TypeOK, Put, Writing, WriteTxn
<1>3. /\ writer'.live = writer.live \cup {k}
      /\ writer'.times = touch(writer.times, k, clock)
      /\ writer'.batch = writer.batch
      /\ writer'.phase = writer.phase
      /\ writer' \in WriteTxn
  BY <1>2, TouchIs, Zenon DEF WriteTxn
<1>4. /\ \A j \in AKey \ {k} : writer'.times[j] = writer.times[j]
      /\ writer'.times[k] \in Timestamps
      /\ writer'.times[k] # None
      /\ writer'.times[k].modified = clock
      /\ writer.times[k] = None => writer'.times[k].accessed = clock
      /\ writer.times[k] # None => /\ writer'.times[k].accessed = writer.times[k].accessed
                                   /\ writer'.times[k].created = writer.times[k].created
  BY <1>2, <1>3, TouchIs, NoneAssumption
<1>5. /\ \A j \in AKey : seen[j] \subseteq seen'[j]
      /\ writer.times[k] = None => clock \in seen'[k]
      /\ used' = used \cup {k}
  BY Zenon DEF TimesInv, TypeOK, Put, Saw
<1>6. InodesOfLive' /\ AccessHappened' /\ ClockInv' /\ UsedInv'
  BY <1>5, Zenon DEF TimesInv, Put, InodesOfLive, AccessHappened, ClockInv, UsedInv
<1>7. OneWrite'
  BY <1>2, Zenon DEF TimesInv, Put, OneWrite
<1>8. LogInv'
  BY <1>5, Zenon DEF TimesInv, Put, LogInv, Happened
<1>9. WriterInv'
  <2>1. /\ writer'.live = {j \in AKey : writer'.times[j] # None} /\ writer'.live \subseteq used'
        /\ writer'.phase = "open" => writer'.batch = NoLog
    BY <1>2, <1>3, <1>4, <1>5, Zenon DEF TimesInv, WriterInv
  <2>2. ASSUME NEW j \in AKey \ {k}, writer'.times[j] # None
        PROVE  /\ writer'.times[j].modified <= clock'
               /\ writer'.times[j].accessed \in seen'[j]
               /\ times'[j] # None => NoEarlier(times'[j], writer'.times[j])
               /\ writer'.times[j].accessed >= writer'.batch[j]
    BY <1>2, <1>3, <1>4, <1>5, <2>2, Zenon DEF TimesInv, WriterInv, Put
  <2>3. clock \in Nat /\ writer.batch[k] \in 0..MaxTime /\ MaxTime \in Nat
    BY <1>2, TimeAssumption DEF Time, WriteTxn, Log
  <2>4. CASE writer.times[k] = None
    <3>1. k \notin used
      BY <1>2, <2>4, Zenon DEF TimesInv, WriterInv, Put
    <3>2. times[k] = None
      BY <3>1, Zenon DEF TimesInv, UsedInv, InodesOfLive
    <3>3. writer.batch[k] = 0
      BY <1>2, NoLogIsLog, Zenon DEF TimesInv, WriterInv, Put, Writing
    <3>4. /\ writer'.times[k].modified <= clock'
          /\ writer'.times[k].accessed \in seen'[k]
          /\ writer'.times[k].accessed >= writer'.batch[k]
          /\ times'[k] = None
      BY <1>3, <1>4, <1>5, <2>3, <2>4, <3>2, <3>3 DEF Put
    <3> QED BY <2>1, <2>2, <3>4, Zenon DEF WriterInv
  <2>5. CASE writer.times[k] # None
    <3>1. /\ writer.times[k].accessed \in seen[k]
          /\ writer.times[k].accessed >= writer.batch[k]
          /\ times[k] # None => NoEarlier(times[k], writer.times[k]) /\ times[k].modified <= clock
      BY <1>2, <2>5, Zenon DEF TimesInv, WriterInv, ClockInv
    <3>2. times[k] # None => NoEarlier(times[k], writer'.times[k])
      <4>1. times[k] # None => times[k].modified \in Nat
        BY TimeAssumption DEF TimesInv, TypeOK, Inodes, Timestamps, Time
      <4> QED BY <1>4, <2>3, <2>5, <3>1, <4>1, Zenon DEF NoEarlier
    <3>3. /\ writer'.times[k].modified <= clock'
          /\ writer'.times[k].accessed \in seen'[k]
          /\ writer'.times[k].accessed >= writer'.batch[k]
          /\ times'[k] # None => NoEarlier(times'[k], writer'.times[k])
      BY <1>3, <1>4, <1>5, <2>3, <2>5, <3>1, <3>2 DEF Put
    <3> QED BY <2>1, <2>2, <3>3, Zenon DEF WriterInv
  <2> QED BY <2>4, <2>5, Zenon
<1>10. KeptInv'
  <2>1. SUFFICES ASSUME NEW j \in AKey, Owed(j)' PROVE InSomeHand(j)'
    BY Zenon DEF KeptInv
  <2>2. InSomeHand(j) => InSomeHand(j)'
    <3>1. writer' # None
      BY <1>3, NoneAssumption, Zenon
    <3> QED BY <1>3, <3>1, Zenon DEF Put, InSomeHand
  <2>3. CASE Owed(j)
    BY <2>2, <2>3, Zenon DEF TimesInv, KeptInv
  <2>4. CASE ~Owed(j)
    <3>1. j = k /\ writer.times[k] = None
      BY <1>2, <1>4, <2>1, <2>4, Zenon DEF Owed, Put
    <3>2. k \notin used
      BY <1>2, <3>1, Zenon DEF TimesInv, WriterInv, Put
    <3>3. kept[j] = 0 /\ log[j] \in Nat
      BY <3>1, <3>2, LogsAreTimes, Zenon DEF TimesInv, UsedInv, TypeOK
    <3> QED BY <2>2, <3>3 DEF InSomeHand
  <2> QED BY <2>3, <2>4, Zenon
<1> QED BY <1>1, <1>6, <1>7, <1>8, <1>9, <1>10, Zenon DEF TimesInv

\* remove_entry: the inode goes with the a-node.
LEMMA RemoveStep == ASSUME TimesInv, NEW k \in AKey, Remove(k) PROVE TimesInv'
<1>1. TypeOK'
  BY TypeStep, Zenon DEF TimesInv, Next
<1>2. /\ writer # None /\ writer \in WriteTxn /\ writer.times \in Inodes
      /\ writer' = [writer EXCEPT !.live = writer.live \ {k}, !.times = forget(writer.times, k)]
  BY Zenon DEF TimesInv, TypeOK, Remove, Writing, WriteTxn
<1>3. /\ writer'.live = writer.live \ {k}
      /\ writer'.times = forget(writer.times, k)
      /\ writer'.batch = writer.batch
      /\ writer'.phase = writer.phase
      /\ writer' \in WriteTxn
  BY <1>2, Zenon DEF WriteTxn, forget, Inodes
<1>4. writer'.times[k] = None /\ \A j \in AKey \ {k} : writer'.times[j] = writer.times[j]
  BY <1>2, <1>3 DEF forget, Inodes
<1>5. InodesOfLive' /\ AccessHappened' /\ ClockInv' /\ UsedInv' /\ LogInv'
  BY Zenon DEF TimesInv, Remove, InodesOfLive, AccessHappened, ClockInv, UsedInv, LogInv, Happened
<1>6. OneWrite'
  BY <1>2, Zenon DEF TimesInv, Remove, OneWrite
<1>7. WriterInv'
  BY <1>2, <1>3, <1>4, Zenon DEF TimesInv, Remove, WriterInv
<1>8. KeptInv'
  <2>1. writer' # None
    BY <1>3, NoneAssumption, Zenon
  <2> QED BY <1>2, <1>3, <1>4, <2>1, Zenon DEF TimesInv, Remove, KeptInv, Owed, InSomeHand
<1> QED BY <1>1, <1>5, <1>6, <1>7, <1>8, Zenon DEF TimesInv

\* record_access: the time goes straight to the log.
LEMMA RecordStep == ASSUME TimesInv, NEW k \in AKey, record_access(k) PROVE TimesInv'
<1>1. TypeOK'
  BY TypeStep, Zenon DEF TimesInv, Next
<1>2. clock' >= clock /\ clock' \in Nat /\ clock \in Nat /\ clock \in 0..MaxTime
  BY TimeAssumption DEF TimesInv, TypeOK, record_access, Time
<1>3. /\ \A j \in AKey : seen[j] \subseteq seen'[j]
      /\ clock \in seen'[k]
  BY Zenon DEF TimesInv, TypeOK, record_access, Saw
<1>4. InodesOfLive' /\ AccessHappened' /\ OneWrite' /\ WriterInv' /\ ClockInv'
  BY <1>2, <1>3, FrameInodes, Zenon DEF record_access
<1>5. k \in used
  BY Zenon DEF TimesInv, WriterInv, record_access, Writing
<1>6. \A j \in AKey : log[j] \in Nat /\ [NoLog EXCEPT ![k] = clock][j] = IF j = k THEN clock ELSE 0
  BY NoLogIsLog, LogsAreTimes, Zenon DEF TimesInv, TypeOK, Log
<1>7. \A j \in AKey : /\ log'[j] \in {log[j], IF j = k THEN clock ELSE 0}
                      /\ log'[j] >= log[j]
                      /\ log'[k] >= clock
                      /\ kept'[j] = IF j = k THEN clock ELSE kept[j]
  BY <1>2, <1>6, LaterIs, Zenon DEF TimesInv, TypeOK, Log, record_access, deposit_access
<1>8. UsedInv'
  BY <1>5, <1>7, Zenon DEF TimesInv, UsedInv, record_access
<1>9. LogInv'
  BY <1>3, <1>5, <1>7, Zenon DEF TimesInv, LogInv, Happened, record_access
<1>10. KeptInv'
  <2>1. SUFFICES ASSUME NEW j \in AKey, Owed(j)' PROVE InSomeHand(j)'
    BY Zenon DEF KeptInv
  <2>2. CASE j = k
    BY <1>7, <2>2, Zenon DEF InSomeHand
  <2>3. CASE j # k
    <3>1. InSomeHand(j)
      BY <2>1, Zenon DEF TimesInv, KeptInv, Owed, record_access
    <3>2. kept'[j] = kept[j] /\ log'[j] >= log[j] /\ log'[j] \in Nat /\ log[j] \in Nat /\ kept[j] \in Nat
      BY <1>1, <1>6, <1>7, <2>3, LogsAreTimes, Zenon DEF TimesInv, TypeOK
    <3> QED BY <3>1, <3>2 DEF InSomeHand, record_access
  <2> QED BY <2>2, <2>3, Zenon
<1> QED BY <1>1, <1>4, <1>8, <1>9, <1>10, Zenon DEF TimesInv

-----------------------------------------------------------------------------
(* Commits, flushes and the theorems. *)

\* commit takes the log over and bumps its own copy of the inodes.
LEMMA CommitDrainsStep == ASSUME TimesInv, CommitDrains PROVE TimesInv'
<1>1. TypeOK'
  BY TypeStep, Zenon DEF TimesInv, Next
<1>2. /\ writer # None /\ writer \in WriteTxn /\ writer.times \in Inodes /\ log \in Log
      /\ writer' = [writer EXCEPT !.phase = "drained", !.times = Bumped(writer.times, log), !.batch = log]
  BY Zenon DEF TimesInv, TypeOK, CommitDrains, Drain, Writing, WriteTxn
<1>3. /\ writer'.live = writer.live /\ writer'.phase = "drained" /\ writer'.batch = log
      /\ writer'.times = Bumped(writer.times, log)
      /\ writer' \in WriteTxn
  BY <1>2, BumpedIs, Zenon DEF WriteTxn
<1>4. InodesOfLive' /\ AccessHappened' /\ ClockInv' /\ UsedInv'
  BY Zenon DEF TimesInv, CommitDrains, InodesOfLive, AccessHappened, ClockInv, UsedInv
<1>5. LogInv'
  BY NoLogIsLog, Zenon DEF TimesInv, CommitDrains, Drain, LogInv, Happened
<1>6. OneWrite'
  BY <1>2, Zenon DEF TimesInv, CommitDrains, OneWrite
<1>7. WriterInv'
  <2>1. \A k \in AKey : writer'.times[k] # None <=> writer.times[k] # None
    BY <1>2, <1>3, BumpedIs
  <2>2. ASSUME NEW k \in AKey, writer.times[k] # None
        PROVE  /\ writer'.times[k].modified <= clock'
               /\ writer'.times[k].accessed \in seen'[k]
               /\ times'[k] # None => NoEarlier(times'[k], writer'.times[k])
               /\ writer'.times[k].accessed >= writer'.batch[k]
    <3>1. /\ NoEarlier(writer.times[k], writer'.times[k])
          /\ writer'.times[k].modified = writer.times[k].modified
          /\ writer'.times[k].accessed >= log[k]
          /\ writer'.times[k].accessed = writer.times[k].accessed
               \/ (log[k] # 0 /\ writer'.times[k].accessed = log[k])
      BY <1>2, <1>3, <2>2, BumpedIs
    <3>2. /\ writer.times[k].modified <= clock
          /\ writer.times[k].accessed \in seen[k]
          /\ times[k] # None => NoEarlier(times[k], writer.times[k])
          /\ log[k] # 0 => log[k] \in seen[k]
      BY <1>2, <2>2, Zenon DEF TimesInv, WriterInv, LogInv, Happened
    <3>3. times[k] # None => NoEarlier(times[k], writer'.times[k])
      <4>1. SUFFICES ASSUME times[k] # None PROVE NoEarlier(times[k], writer'.times[k])
        BY Zenon
      <4>2. times[k].modified \in Nat /\ times[k].accessed \in Nat
        BY <4>1, TimeAssumption DEF TimesInv, TypeOK, Inodes, Timestamps, Time
      <4>3. writer.times[k].modified \in Nat /\ writer.times[k].accessed \in Nat
        BY <1>2, <2>2, TimeAssumption DEF Inodes, Timestamps, Time
      <4>4. writer'.times[k].modified \in Nat /\ writer'.times[k].accessed \in Nat
        BY <1>3, <2>1, <2>2, TimeAssumption DEF WriteTxn, Inodes, Timestamps, Time
      <4> QED BY <3>1, <3>2, <4>1, <4>2, <4>3, <4>4 DEF NoEarlier
    <3> QED BY <1>3, <3>1, <3>2, <3>3, Zenon DEF CommitDrains
  <2> QED BY <1>2, <1>3, <2>1, <2>2, Zenon DEF TimesInv, WriterInv, CommitDrains
<1>8. KeptInv'
  <2>1. SUFFICES ASSUME NEW k \in AKey, Owed(k)' PROVE InSomeHand(k)'
    BY Zenon DEF KeptInv
  <2>2. Owed(k)
    BY <1>2, <1>3, <2>1, BumpedIs DEF Owed, CommitDrains
  <2>3. InSomeHand(k)
    BY <2>2, Zenon DEF TimesInv, KeptInv
  <2>4. writer.batch[k] = 0 /\ log[k] \in Nat /\ kept[k] \in Nat /\ writer' # None
    BY <1>2, <1>3, NoLogIsLog, LogsAreTimes, NoneAssumption, Zenon
       DEF TimesInv, TypeOK, WriterInv, CommitDrains, Writing
  <2> QED BY <1>3, <2>3, <2>4 DEF InSomeHand, CommitDrains
<1> QED BY <1>1, <1>4, <1>5, <1>6, <1>7, <1>8, Zenon DEF TimesInv

\* The engine publishes the transaction's inodes, which cover its batch.
LEMMA CommitEndsStep == ASSUME TimesInv, CommitEnds PROVE TimesInv'
<1>1. TypeOK'
  BY TypeStep, Zenon DEF TimesInv, Next
<1>2. /\ writer # None /\ writer \in WriteTxn
      /\ live' = writer.live /\ times' = writer.times /\ writer' = None
  BY Zenon DEF TimesInv, TypeOK, CommitEnds
<1>3. InodesOfLive' /\ AccessHappened' /\ ClockInv' /\ UsedInv' /\ WriterInv'
  BY <1>2, Zenon DEF TimesInv, CommitEnds, WriterInv, InodesOfLive, AccessHappened, ClockInv, UsedInv
<1>4. LogInv'
  BY Zenon DEF TimesInv, CommitEnds, LogInv, Happened
<1>5. OneWrite'
  BY <1>2, Zenon DEF TimesInv, CommitEnds, OneWrite
<1>6. KeptInv'
  <2>1. SUFFICES ASSUME NEW k \in AKey, writer.times[k] # None PROVE InSomeHand(k)'
    BY <1>2, Zenon DEF KeptInv, Owed
  <2>2. InSomeHand(k)
    BY <1>2, <2>1, Zenon DEF TimesInv, KeptInv, Owed
  <2>3. /\ writer.times[k].accessed >= writer.batch[k]
        /\ times[k] # None => writer.times[k].accessed >= times[k].accessed
    BY <1>2, <2>1, Zenon DEF TimesInv, WriterInv, NoEarlier
  <2>4. kept[k] \in Nat /\ writer.batch[k] \in Nat /\ writer.times[k].accessed \in Nat
        /\ (times[k] # None => times[k].accessed \in Nat)
    BY <1>2, <2>1, TimeAssumption, LogsAreTimes DEF TimesInv, TypeOK, WriteTxn, Inodes, Timestamps, Time
  <2> QED BY <1>2, <2>1, <2>2, <2>3, <2>4 DEF InSomeHand, CommitEnds
<1> QED BY <1>1, <1>3, <1>4, <1>5, <1>6, Zenon DEF TimesInv

\* The batch of a commit that fails is lost, and counted as lost.
LEMMA CommitFailsStep == ASSUME TimesInv, CommitFails PROVE TimesInv'
<1>1. TypeOK'
  BY TypeStep, Zenon DEF TimesInv, Next
<1>2. InodesOfLive' /\ AccessHappened' /\ ClockInv' /\ WriterInv' /\ OneWrite'
  BY Zenon DEF TimesInv, CommitFails, WriterInv, InodesOfLive, AccessHappened, ClockInv, OneWrite
<1>3. /\ writer # None /\ writer.batch \in Log
      /\ \A k \in AKey : kept'[k] = IF writer.batch[k] = 0 THEN kept[k] ELSE 0
  BY Zenon DEF TimesInv, TypeOK, CommitFails, WriteTxn, Lost
<1>4. UsedInv' /\ LogInv'
  BY <1>3, Zenon DEF TimesInv, CommitFails, UsedInv, LogInv, Happened
<1>5. KeptInv'
  <2>1. SUFFICES ASSUME NEW k \in AKey, times[k] # None PROVE InSomeHand(k)'
    BY Zenon DEF KeptInv, Owed, CommitFails
  <2>2. InSomeHand(k)
    BY <2>1, Zenon DEF TimesInv, KeptInv, Owed
  <2>3. kept[k] \in Nat /\ log[k] \in Nat
    BY LogsAreTimes, Zenon DEF TimesInv, TypeOK
  <2> QED BY <1>3, <2>1, <2>2, <2>3 DEF InSomeHand, CommitFails
<1> QED BY <1>1, <1>2, <1>4, <1>5, Zenon DEF TimesInv

\* An open transaction holds no batch, so dropping it loses none.
LEMMA AbandonStep == ASSUME TimesInv, Abandon PROVE TimesInv'
<1>1. TypeOK'
  BY TypeStep, Zenon DEF TimesInv, Next
<1>2. InodesOfLive' /\ AccessHappened' /\ ClockInv' /\ WriterInv' /\ OneWrite' /\ UsedInv' /\ LogInv'
  BY Zenon DEF TimesInv, Abandon, WriterInv, InodesOfLive, AccessHappened, ClockInv, OneWrite, UsedInv, LogInv, Happened
<1>3. KeptInv'
  <2>1. SUFFICES ASSUME NEW k \in AKey, times[k] # None PROVE InSomeHand(k)'
    BY Zenon DEF KeptInv, Owed, Abandon
  <2>2. InSomeHand(k)
    BY <2>1, Zenon DEF TimesInv, KeptInv, Owed
  <2>3. kept[k] \in Nat /\ log[k] \in Nat /\ writer # None /\ writer.batch[k] = 0
    BY LogsAreTimes, NoLogIsLog, Zenon DEF TimesInv, TypeOK, WriterInv, Abandon, Writing
  <2> QED BY <2>1, <2>2, <2>3 DEF InSomeHand, Abandon
<1> QED BY <1>1, <1>2, <1>3, Zenon DEF TimesInv

\* A flush takes the log over.
LEMMA FlushDrainsStep == ASSUME TimesInv, NEW f \in Flusher, FlushDrains(f) PROVE TimesInv'
<1>1. TypeOK'
  BY TypeStep, Zenon DEF TimesInv, Next
<1>2. InodesOfLive' /\ AccessHappened' /\ ClockInv' /\ WriterInv' /\ UsedInv'
  BY Zenon DEF TimesInv, FlushDrains, WriterInv, InodesOfLive, AccessHappened, ClockInv, UsedInv
<1>3. /\ flusher'[f] = [phase |-> "drained", times |-> times, batch |-> log]
      /\ \A g \in Flusher \ {f} : flusher'[g] = flusher[g]
      /\ flusher[f] = None /\ flusher'[f] \in Flush
  BY Zenon DEF TimesInv, TypeOK, FlushDrains, Flush
<1>4. flusher'[f] # None /\ flusher'[f].phase = "drained" /\ flusher'[f].batch = log
  BY <1>3, NoneAssumption
<1>5. OneWrite'
  <2>1. \A g \in Flusher : flusher'[g] # None /\ flusher'[g].phase = "begun" => g # f /\ flusher'[g] = flusher[g]
    BY <1>3, <1>4, Zenon
  <2> QED BY <2>1 DEF TimesInv, FlushDrains, OneWrite
<1>6. LogInv'
  <2>1. Happened(log) /\ \A g \in Flusher : flusher[g] # None => Happened(flusher[g].batch)
    BY Zenon DEF TimesInv, LogInv
  <2>2. \A g \in Flusher : flusher'[g] # None => Happened(flusher'[g].batch)
    BY <1>3, <1>4, <2>1, Zenon
  <2> QED BY <2>2, NoLogIsLog, Zenon DEF TimesInv, FlushDrains, LogInv, Happened
<1>7. KeptInv'
  <2>1. SUFFICES ASSUME NEW k \in AKey, Owed(k)' PROVE InSomeHand(k)'
    BY Zenon DEF KeptInv
  <2>2. InSomeHand(k)
    BY <2>1, Zenon DEF TimesInv, KeptInv, Owed, FlushDrains
  <2>3. CASE kept[k] <= log[k]
    BY <1>4, <2>3, Zenon DEF InSomeHand, FlushDrains
  <2>4. CASE \E g \in Flusher : flusher[g] # None /\ kept[k] <= flusher[g].batch[k]
    BY <1>3, <2>4, Zenon DEF InSomeHand, FlushDrains
  <2> QED BY <2>2, <2>3, <2>4, Zenon DEF InSomeHand, FlushDrains
<1> QED BY <1>1, <1>2, <1>5, <1>6, <1>7, Zenon DEF TimesInv

\* The flush's transaction starts from the inodes committed by then.
LEMMA FlushBeginsStep == ASSUME TimesInv, NEW f \in Flusher, FlushBegins(f) PROVE TimesInv'
<1>1. TypeOK'
  BY TypeStep, Zenon DEF TimesInv, Next
<1>2. InodesOfLive' /\ AccessHappened' /\ ClockInv' /\ WriterInv' /\ UsedInv'
  BY Zenon DEF TimesInv, FlushBegins, WriterInv, InodesOfLive, AccessHappened, ClockInv, UsedInv
<1>3. /\ flusher[f] # None /\ flusher[f] \in Flush /\ times \in Inodes
      /\ flusher' = [flusher EXCEPT ![f] = [flusher[f] EXCEPT !.phase = "begun", !.times = Bumped(times, flusher[f].batch)]]
      /\ \A g \in Flusher \ {f} : flusher'[g] = flusher[g]
  BY Zenon DEF TimesInv, TypeOK, FlushBegins
<1>4. /\ flusher'[f].phase = "begun" /\ flusher'[f].batch = flusher[f].batch
      /\ flusher'[f].times = Bumped(times, flusher[f].batch)
      /\ flusher'[f] \in Flush
  BY <1>3, BumpedIs, Zenon DEF Flush, TimesInv, TypeOK
<1>5. flusher'[f] # None
  BY <1>4, NoneAssumption, Zenon
<1>6. OneWrite'
  <2>1. writer = None /\ \A g \in Flusher : flusher[g] # None => flusher[g].phase = "drained"
    BY Zenon DEF FlushBegins, EngineFree
  <2>2. \A g \in Flusher : flusher'[g] # None /\ flusher'[g].phase = "begun" => g = f
    BY <1>3, <2>1, Zenon
  <2>3. times' = times /\ writer' = writer
    BY Zenon DEF FlushBegins
  <2> QED BY <1>4, <2>1, <2>2, <2>3, Zenon DEF OneWrite
<1>7. \A g \in Flusher : flusher'[g] # None <=> flusher[g] # None
  BY <1>3, <1>5, Zenon
<1>8. \A g \in Flusher : flusher[g] # None => flusher'[g].batch = flusher[g].batch
  BY <1>3, <1>4, Zenon
<1>9. LogInv'
  BY <1>7, <1>8, Zenon DEF TimesInv, LogInv, FlushBegins, Happened
<1>10. KeptInv'
  BY <1>7, <1>8, Zenon DEF TimesInv, KeptInv, Owed, InSomeHand, FlushBegins
<1> QED BY <1>1, <1>2, <1>6, <1>9, <1>10, Zenon DEF TimesInv

\* The flush publishes the inodes it bumped, which nobody changed meanwhile.
LEMMA FlushEndsStep == ASSUME TimesInv, NEW f \in Flusher, FlushEnds(f) PROVE TimesInv'
<1>1. TypeOK'
  BY TypeStep, Zenon DEF TimesInv, Next
<1>2. /\ flusher[f] # None /\ flusher[f] \in Flush /\ flusher[f].batch \in Log /\ times \in Inodes
      /\ writer = None /\ times' = Bumped(times, flusher[f].batch)
      /\ \A g \in Flusher : flusher[g] # None /\ flusher[g].phase = "begun" => g = f
  BY Zenon DEF TimesInv, TypeOK, OneWrite, FlushEnds, Flush
<1>3. \A g \in Flusher : flusher'[g] = IF g = f THEN None ELSE flusher[g]
  BY Zenon DEF TimesInv, TypeOK, FlushEnds
<1>4. \A k \in AKey : times'[k] = None <=> times[k] = None
  BY <1>2, BumpedIs, Zenon
<1>5. InodesOfLive'
  BY <1>4, Zenon DEF TimesInv, InodesOfLive, FlushEnds
<1>6. AccessHappened' /\ ClockInv'
  <2>1. SUFFICES ASSUME NEW k \in AKey, times[k] # None
                 PROVE  times'[k].accessed \in seen[k] /\ times'[k].modified <= clock
    BY <1>4, Zenon DEF AccessHappened, ClockInv, FlushEnds
  <2>2. times[k].accessed \in seen[k] /\ times[k].modified <= clock
        /\ (flusher[f].batch[k] # 0 => flusher[f].batch[k] \in seen[k])
    BY <1>2, <2>1, Zenon DEF TimesInv, AccessHappened, ClockInv, LogInv, Happened
  <2>3. /\ times'[k].modified = times[k].modified
        /\ \/ times'[k].accessed = times[k].accessed
           \/ flusher[f].batch[k] # 0 /\ times'[k].accessed = flusher[f].batch[k]
    BY <1>2, <2>1, BumpedIs, Zenon
  <2> QED BY <2>2, <2>3, Zenon
<1>7. WriterInv' /\ UsedInv'
  BY <1>2, Zenon DEF TimesInv, FlushEnds, WriterInv, UsedInv
<1>8. OneWrite'
  BY <1>2, <1>3, Zenon DEF OneWrite
<1>9. LogInv'
  BY <1>3, Zenon DEF TimesInv, LogInv, FlushEnds, Happened
<1>10. KeptInv'
  <2>1. SUFFICES ASSUME NEW k \in AKey, times[k] # None PROVE InSomeHand(k)'
    BY <1>2, <1>4, Zenon DEF KeptInv, Owed, FlushEnds
  <2>2. InSomeHand(k)
    BY <2>1, Zenon DEF TimesInv, KeptInv, Owed
  <2>3. times'[k].accessed >= times[k].accessed /\ times'[k].accessed >= flusher[f].batch[k] /\ times'[k] # None
    BY <1>2, <2>1, BumpedIs, Zenon DEF NoEarlier
  <2>4. /\ kept[k] \in Nat /\ flusher[f].batch[k] \in Nat
        /\ times[k].accessed \in Nat /\ times'[k].accessed \in Nat
    BY <1>1, <1>2, <2>1, <2>3, TimeAssumption, LogsAreTimes DEF TimesInv, TypeOK, Inodes, Timestamps, Time
  <2>5. CASE kept[k] <= times[k].accessed \/ kept[k] <= flusher[f].batch[k]
    BY <2>3, <2>4, <2>5 DEF InSomeHand, FlushEnds
  <2>6. CASE kept[k] <= log[k]
    BY <2>6, Zenon DEF InSomeHand, FlushEnds
  <2>7. ASSUME NEW g \in Flusher \ {f}, flusher[g] # None, kept[k] <= flusher[g].batch[k]
        PROVE  InSomeHand(k)'
    BY <1>3, <2>7, Zenon DEF InSomeHand, FlushEnds
  <2> QED BY <1>2, <2>2, <2>5, <2>6, <2>7, Zenon DEF InSomeHand
<1> QED BY <1>1, <1>5, <1>6, <1>7, <1>8, <1>9, <1>10, Zenon DEF TimesInv

\* The batch of a flush that fails is lost, and counted as lost.
LEMMA FlushFailsStep == ASSUME TimesInv, NEW f \in Flusher, FlushFails(f) PROVE TimesInv'
<1>1. TypeOK'
  BY TypeStep, Zenon DEF TimesInv, Next
<1>2. InodesOfLive' /\ AccessHappened' /\ ClockInv' /\ WriterInv'
  BY Zenon DEF TimesInv, FlushFails, WriterInv, InodesOfLive, AccessHappened, ClockInv
<1>3. /\ flusher[f] # None
      /\ \A k \in AKey : kept'[k] = IF flusher[f].batch[k] = 0 THEN kept[k] ELSE 0
      /\ \A g \in Flusher : flusher'[g] = IF g = f THEN None ELSE flusher[g]
  BY Zenon DEF TimesInv, TypeOK, FlushFails, Lost
<1>4. UsedInv'
  BY <1>3, Zenon DEF TimesInv, FlushFails, UsedInv
<1>5. LogInv'
  BY <1>3 DEF TimesInv, FlushFails, LogInv, Happened
<1>6. OneWrite'
  BY <1>3 DEF TimesInv, FlushFails, OneWrite
<1>7. KeptInv'
  <2>1. SUFFICES ASSUME NEW k \in AKey, Owed(k)' PROVE InSomeHand(k)'
    BY Zenon DEF KeptInv
  <2>2. InSomeHand(k)
    BY <2>1, Zenon DEF TimesInv, KeptInv, Owed, FlushFails
  <2>3. kept[k] \in Nat /\ log[k] \in Nat
    BY LogsAreTimes, Zenon DEF TimesInv, TypeOK
  <2>4. CASE flusher[f].batch[k] # 0 \/ kept[k] <= flusher[f].batch[k]
    <3>1. kept'[k] = 0
      BY <1>3, <2>3, <2>4
    <3> QED BY <2>3, <3>1 DEF InSomeHand, FlushFails
  <2>5. CASE flusher[f].batch[k] = 0 /\ ~(kept[k] <= flusher[f].batch[k])
    <3>1. kept'[k] = kept[k]
      BY <1>3, <2>5, Zenon
    <3>2. CASE \E g \in Flusher : flusher[g] # None /\ kept[k] <= flusher[g].batch[k]
      <4>1. PICK g \in Flusher : flusher[g] # None /\ kept[k] <= flusher[g].batch[k]
        BY <3>2, Zenon
      <4>2. flusher'[g] = flusher[g]
        BY <1>3, <2>5, <4>1, Zenon
      <4> QED BY <3>1, <4>1, <4>2, Zenon DEF InSomeHand
    <3> QED BY <2>2, <3>1, <3>2, Zenon DEF InSomeHand, FlushFails
  <2> QED BY <2>4, <2>5, Zenon
<1> QED BY <1>1, <1>2, <1>4, <1>5, <1>6, <1>7, Zenon DEF TimesInv

\* A crash loses what was not committed.
LEMMA CrashStep == ASSUME TimesInv, Crash PROVE TimesInv'
<1>1. TypeOK'
  BY TypeStep, Zenon DEF TimesInv, Next
<1>2. InodesOfLive' /\ AccessHappened' /\ ClockInv' /\ WriterInv' /\ OneWrite'
  BY Zenon DEF TimesInv, Crash, WriterInv, InodesOfLive, AccessHappened, ClockInv, OneWrite
<1>3. UsedInv' /\ LogInv'
  BY NoLogIsLog, Zenon DEF TimesInv, Crash, UsedInv, LogInv, Happened
<1>4. KeptInv'
  BY NoLogIsLog DEF Crash, KeptInv, InSomeHand
<1> QED BY <1>1, <1>2, <1>3, <1>4, Zenon DEF TimesInv

-----------------------------------------------------------------------------
(* The theorems. *)

\* A new database satisfies the invariant.
LEMMA TimesInitially == Init => TimesInv
<1>1. SUFFICES ASSUME Init PROVE TimesInv
  BY Zenon
<1>2. TypeOK
  BY <1>1, NoLogIsLog, TimeAssumption DEF Init, TypeOK, Time, Inodes
<1>3. InodesOfLive /\ AccessHappened /\ OneWrite /\ WriterInv /\ ClockInv
  BY <1>1, Zenon DEF Init, InodesOfLive, AccessHappened, OneWrite, WriterInv, ClockInv
<1>4. UsedInv /\ LogInv /\ KeptInv
  BY <1>1, NoLogIsLog DEF Init, UsedInv, LogInv, Happened, KeptInv, InSomeHand
<1> QED BY <1>2, <1>3, <1>4, Zenon DEF TimesInv

\* Every step keeps the invariant.
LEMMA TimesStep == ASSUME TimesInv, [Next]_vars PROVE TimesInv'
<1>1. CASE UNCHANGED vars
  <2>1. clock' >= clock /\ clock' \in Nat
    BY <1>1, TimeAssumption DEF TimesInv, TypeOK, Time, vars
  <2>2. InodesOfLive' /\ AccessHappened' /\ OneWrite' /\ WriterInv' /\ ClockInv' /\ KeptInv'
    BY <1>1, <2>1, FrameInodes, FrameKept, Zenon DEF vars
  <2>3. UsedInv' /\ LogInv'
    BY <1>1, Zenon DEF TimesInv, vars, UsedInv, LogInv, Happened
  <2> QED BY <2>2, <2>3, TypeStep, Zenon DEF TimesInv
<1>2. CASE Next
  BY <1>2, TickStep, OpenReadStep, ReadStep, DropReadStep, BeginStep, PutStep, RemoveStep, RecordStep,
     CommitDrainsStep, CommitEndsStep, CommitFailsStep, AbandonStep,
     FlushDrainsStep, FlushBeginsStep, FlushEndsStep, FlushFailsStep, CrashStep, Zenon DEF Next
<1> QED BY <1>1, <1>2, Zenon

\* The inductive invariant behind the theorems below.
THEOREM TimesInvariant == Spec => []TimesInv
BY TimesInitially, TimesStep, PTL DEF Spec

\* The variables keep their types: no time runs past the clock's type, every batch is a
\* log, every inode a triple of times (inode::Timestamps, db::AccessLog).
THEOREM TimesTypeCorrect == Spec => []TypeOK
<1>1. TimesInv => TypeOK
  BY Zenon DEF TimesInv
<1> QED BY <1>1, TimesInvariant, PTL

\* An inode lives as long as its a-node, whatever is drained and written late
\* (bump_access finds no inode and makes none).
THEOREM NoInodeRevived == Spec => []InodesOfLive
<1>1. TimesInv => InodesOfLive
  BY Zenon DEF TimesInv
<1> QED BY <1>1, TimesInvariant, PTL

\* The recorded access time is that of a read that happened, or of the creation.
THEOREM AccessesAreReal == Spec => []AccessHappened
<1>1. TimesInv => AccessHappened
  BY Zenon DEF TimesInv
<1> QED BY <1>1, TimesInvariant, PTL

\* Between its deposit and the inode an access is always in the log or in the hands of
\* a commit or flush that is still going on (drain_access_log, deposit_access).
THEOREM NoAccessDropped == Spec => []NothingDropped
<1>1. TimesInv => NothingDropped
  BY Zenon DEF TimesInv, KeptInv, Owed, InSomeHand, NothingDropped, InHand
<1> QED BY <1>1, TimesInvariant, PTL

\* A step never takes the times of an inode back, nor changes when it was created
\* (touch, bump_access, and the order in which batches are written).
THEOREM TimesNeverGoBack == Spec => TimesAdvance
<1> DEFINE A == \A k \in AKey : times[k] # None /\ times'[k] # None =>
                  /\ times'[k].created = times[k].created
                  /\ times'[k].modified >= times[k].modified
                  /\ times'[k].accessed >= times[k].accessed
<1>1. ASSUME TimesInv, [Next]_vars PROVE A
  <2>1. CASE times' = times
    BY <2>1, <1>1, TimeAssumption DEF TimesInv, TypeOK, Inodes, Timestamps, Time
  <2>2. CASE CommitEnds
    BY <1>1, <2>2, Zenon DEF TimesInv, WriterInv, NoEarlier, CommitEnds
  <2>3. ASSUME NEW f \in Flusher, FlushEnds(f) PROVE A
    <3>1. /\ flusher[f].batch \in Log /\ times \in Inodes
          /\ times' = Bumped(times, flusher[f].batch)
      BY <1>1, <2>3, Zenon DEF TimesInv, TypeOK, OneWrite, FlushEnds, Flush
    <3> QED BY <3>1, BumpedIs, Zenon DEF NoEarlier
  <2> QED BY <1>1, <2>1, <2>2, <2>3, Zenon
          DEF Next, vars, Tick, OpenRead, DropRead, Read, Begin, Put, Remove, record_access, CommitDrains,
              CommitFails, Abandon, FlushDrains, FlushBegins, FlushFails, Crash
<1>2. ASSUME TimesInv, [Next]_vars PROVE [A]_vars
  BY <1>1, <1>2, Zenon
<1> QED BY <1>2, TimesInvariant, PTL DEF Spec, TimesAdvance

=============================================================================
