---------------------------- MODULE AccessTimes ----------------------------
(***************************************************************************)
(* The timestamps of inodes and the access log.  A read transaction keeps  *)
(* the times of its reads to itself and deposits them in the database's    *)
(* log when it is dropped; a write transaction deposits at once.  The log  *)
(* is drained by a commit, inside its transaction, or by a flush, before   *)
(* its transaction begins; only then are the times written to $inodes.     *)
(***************************************************************************)
EXTENDS Naturals

CONSTANTS
  Reader, Flusher,  \* threads that read, and that flush access times
  AKey,             \* a-nodes; a key is used once
  None,
  MaxTime           \* bound on the clock

ASSUME TimeAssumption == MaxTime \in Nat \ {0}

VARIABLES
  clock,    \* timestamp_now, which does not go back
  live,     \* a-nodes of the committed table
  times,    \* their inodes' timestamps, as committed
  log,      \* DbInner's access log; 0 for no entry
  reading,  \* read transactions: snapshot and own log; None when there is none
  writer,   \* the WriteTxn in progress; None
  flusher,  \* flushes in progress; None
  used,     \* keys generated so far
  seen,     \* history: when each a-node was created or accessed
  kept      \* history: the last access of each that was deposited and not lost

vars == <<clock, live, times, log, reading, writer, flusher, used, seen, kept>>

Time == 1..MaxTime
Log == [AKey -> 0..MaxTime]
NoLog == [k \in AKey |-> 0]
Timestamps == [created : Time, modified : Time, accessed : Time]
Inodes == [AKey -> Timestamps \cup {None}]

ReadTxn == [live : SUBSET AKey, log : Log]
WriteTxn == [phase : {"open", "drained"}, live : SUBSET AKey, times : Inodes, batch : Log]
Flush == [phase : {"drained", "begun"}, times : Inodes, batch : Log]

ASSUME NoneAssumption == None \notin Timestamps \cup WriteTxn \cup Flush \cup ReadTxn

TypeOK ==
  /\ clock \in Time
  /\ live \subseteq AKey /\ used \subseteq AKey
  /\ times \in Inodes
  /\ log \in Log
  /\ reading \in [Reader -> ReadTxn \cup {None}]
  /\ writer \in WriteTxn \cup {None}
  /\ flusher \in [Flusher -> Flush \cup {None}]
  /\ seen \in [AKey -> SUBSET Time]
  /\ kept \in Log

Init ==
  /\ clock = 1
  /\ live = {}
  /\ times = [k \in AKey |-> None]
  /\ log = NoLog
  /\ reading = [r \in Reader |-> None]
  /\ writer = None
  /\ flusher = [f \in Flusher |-> None]
  /\ used = {}
  /\ seen = [k \in AKey |-> {}]
  /\ kept = NoLog

Later(t, u) == IF t >= u THEN t ELSE u

\* The engine runs one write transaction.
EngineFree == writer = None /\ \A f \in Flusher : flusher[f] # None => flusher[f].phase = "drained"

Saw(k) == seen' = [seen EXCEPT ![k] = @ \cup {clock}]

-----------------------------------------------------------------------------
(* inode::functions *)

\* Mutant: a new inode has not been accessed yet.
touch_unread(ts, k, now) ==
  [ts EXCEPT ![k] = IF @ = None THEN [created |-> now, modified |-> now, accessed |-> 0]
                    ELSE [@ EXCEPT !.modified = now]]

\* Mutant: a write counts as an access.
touch_accessing(ts, k, now) ==
  [ts EXCEPT ![k] = IF @ = None THEN [created |-> now, modified |-> now, accessed |-> now]
                    ELSE [@ EXCEPT !.modified = now, !.accessed = now]]

\* Mutant: a write makes a new inode, and keeps only when it was accessed.
touch_recreating(ts, k, now) ==
  [ts EXCEPT ![k] = [created |-> now, modified |-> now, accessed |-> IF @ = None THEN now ELSE @.accessed]]

\* A write keeps when the a-node was created and accessed.
touch(ts, k, now) ==
  [ts EXCEPT ![k] = IF @ = None THEN [created |-> now, modified |-> now, accessed |-> now]
                    ELSE [@ EXCEPT !.modified = now]]

forget(ts, k) == [ts EXCEPT ![k] = None]

\* Mutant: an a-node without an inode gets one.
bump_access_inserting(t, when) ==
  IF t = None THEN [created |-> when, modified |-> when, accessed |-> when]
  ELSE [t EXCEPT !.accessed = Later(@, when)]

\* Never earlier, and nothing for an a-node that is gone.
bump_access(t, when) == IF t = None THEN None ELSE [t EXCEPT !.accessed = Later(@, when)]

Bumped(ts, batch) ==
  [k \in AKey |-> IF batch[k] = 0 THEN ts[k] ELSE bump_access(ts[k], batch[k])]

-----------------------------------------------------------------------------

Tick ==
  /\ clock < MaxTime
  /\ clock' = clock + 1
  /\ UNCHANGED <<live, times, log, reading, writer, flusher, used, seen, kept>>

(* Readers. *)

OpenRead(r) ==
  /\ reading[r] = None
  /\ reading' = [reading EXCEPT ![r] = [live |-> live, log |-> NoLog]]
  /\ UNCHANGED <<clock, live, times, log, writer, flusher, used, seen, kept>>

\* buffer_access: the latest read of an a-node in this transaction.
Read(r, k) ==
  /\ reading[r] # None /\ k \in reading[r].live
  /\ reading' = [reading EXCEPT ![r].log[k] = clock]
  /\ Saw(k)
  /\ UNCHANGED <<clock, live, times, log, writer, flusher, used, kept>>

\* Mutant: the last to deposit wins.
deposit_access_last(batch) == log' = [k \in AKey |-> IF batch[k] = 0 THEN log[k] ELSE batch[k]]

deposit_access(batch) == log' = [k \in AKey |-> Later(log[k], batch[k])]

DropRead(r) ==
  /\ reading[r] # None
  /\ deposit_access(reading[r].log)
  /\ kept' = [k \in AKey |-> Later(kept[k], reading[r].log[k])]
  /\ reading' = [reading EXCEPT ![r] = None]
  /\ UNCHANGED <<clock, live, times, writer, flusher, used, seen>>

(* Write transactions. *)

Begin ==
  /\ EngineFree
  /\ writer' = [phase |-> "open", live |-> live, times |-> times, batch |-> NoLog]
  /\ UNCHANGED <<clock, live, times, log, reading, flusher, used, seen, kept>>

Writing == writer # None /\ writer.phase = "open"

\* put_entry of a new a-node, and of one that is there.
Put(k) ==
  /\ Writing
  /\ k \in writer.live \/ k \notin used
  /\ writer' = [writer EXCEPT !.live = @ \cup {k}, !.times = touch(@, k, clock)]
  /\ used' = used \cup {k}
  /\ IF writer.times[k] = None THEN Saw(k) ELSE UNCHANGED seen
  /\ UNCHANGED <<clock, live, times, log, reading, flusher, kept>>

Remove(k) ==
  /\ Writing
  /\ k \in writer.live
  /\ writer' = [writer EXCEPT !.live = @ \ {k}, !.times = forget(@, k)]
  /\ UNCHANGED <<clock, live, times, log, reading, flusher, used, seen, kept>>

\* A read inside the transaction is deposited at once.
record_access(k) ==
  /\ Writing
  /\ k \in writer.live
  /\ deposit_access([NoLog EXCEPT ![k] = clock])
  /\ kept' = [kept EXCEPT ![k] = clock]
  /\ Saw(k)
  /\ UNCHANGED <<clock, live, times, reading, writer, flusher, used>>

\* commit, from drain_access_log to the engine's commit.
Drain(ts) ==
  /\ writer' = [writer EXCEPT !.phase = "drained", !.times = Bumped(ts, log), !.batch = log]
  /\ log' = NoLog

CommitDrains ==
  /\ Writing
  /\ Drain(writer.times)
  /\ UNCHANGED <<clock, live, times, reading, flusher, used, seen, kept>>

CommitEnds ==
  /\ writer # None /\ writer.phase = "drained"
  /\ live' = writer.live
  /\ times' = writer.times
  /\ writer' = None
  /\ UNCHANGED <<clock, log, reading, flusher, used, seen, kept>>

\* What is lost no longer counts as kept.
Lost(batch) == kept' = [k \in AKey |-> IF batch[k] = 0 THEN kept[k] ELSE 0]

\* The engine refuses the commit: the drained times go with the transaction.
CommitFails ==
  /\ writer # None /\ writer.phase = "drained"
  /\ Lost(writer.batch)
  /\ writer' = None
  /\ UNCHANGED <<clock, live, times, log, reading, flusher, used, seen>>

Abandon ==
  /\ Writing
  /\ writer' = None
  /\ UNCHANGED <<clock, live, times, log, reading, flusher, used, seen, kept>>

(* flush_access_times. *)

FlushDrains(f) ==
  /\ flusher[f] = None
  /\ log # NoLog
  /\ flusher' = [flusher EXCEPT ![f] = [phase |-> "drained", times |-> times, batch |-> log]]
  /\ log' = NoLog
  /\ UNCHANGED <<clock, live, times, reading, writer, used, seen, kept>>

FlushBegins(f) ==
  /\ flusher[f] # None /\ flusher[f].phase = "drained"
  /\ EngineFree
  /\ flusher' = [flusher EXCEPT ![f].phase = "begun", ![f].times = Bumped(times, flusher[f].batch)]
  /\ UNCHANGED <<clock, live, times, log, reading, writer, used, seen, kept>>

FlushEnds(f) ==
  /\ flusher[f] # None /\ flusher[f].phase = "begun"
  /\ times' = flusher[f].times
  /\ flusher' = [flusher EXCEPT ![f] = None]
  /\ UNCHANGED <<clock, live, log, reading, writer, used, seen, kept>>

\* begin_write or the commit fails.
FlushFails(f) ==
  /\ flusher[f] # None
  /\ Lost(flusher[f].batch)
  /\ flusher' = [flusher EXCEPT ![f] = None]
  /\ UNCHANGED <<clock, live, times, log, reading, writer, used, seen>>

\* The process ends; what is committed stays.
Crash ==
  /\ reading' = [r \in Reader |-> None]
  /\ writer' = None
  /\ flusher' = [f \in Flusher |-> None]
  /\ log' = NoLog
  /\ kept' = NoLog
  /\ UNCHANGED <<clock, live, times, used, seen>>

Next ==
  \/ Tick
  \/ \E r \in Reader : OpenRead(r) \/ DropRead(r) \/ \E k \in AKey : Read(r, k)
  \/ Begin
  \/ \E k \in AKey : Put(k) \/ Remove(k) \/ record_access(k)
  \/ CommitDrains \/ CommitEnds \/ CommitFails \/ Abandon
  \/ \E f \in Flusher : FlushDrains(f) \/ FlushBegins(f) \/ FlushEnds(f) \/ FlushFails(f)
  \/ Crash

Spec == Init /\ [][Next]_vars

-----------------------------------------------------------------------------
(* Properties. *)

\* An inode lives as long as its a-node: times drained before a removal commits and
\* written after it do not bring the inode back (bump_access).
InodesOfLive == live = {k \in AKey : times[k] # None}

\* The times of an a-node that stays never go back, in whatever order reads end and
\* batches are written, and the time of its creation stays (touch, bump_access).
TimesAdvance ==
  [][\A k \in AKey : times[k] # None /\ times'[k] # None =>
       /\ times'[k].created = times[k].created
       /\ times'[k].modified >= times[k].modified
       /\ times'[k].accessed >= times[k].accessed]_vars

\* A recorded access is one that happened, or the creation.
AccessHappened == \A k \in AKey : times[k] # None => times[k].accessed \in seen[k]

\* Until it is in the inode, a deposited access is in the log or in the hands of one
\* commit or flush; only a crash or a transaction that fails loses it
\* (drain_access_log, deposit_access).
InHand(k) ==
  {log[k]} \cup (IF writer = None THEN {} ELSE {writer.batch[k]})
           \cup {flusher[f].batch[k] : f \in {g \in Flusher : flusher[g] # None}}

NothingDropped ==
  \A k \in AKey : times[k] # None => \E t \in InHand(k) \cup {times[k].accessed} : kept[k] <= t

-----------------------------------------------------------------------------
(* What makes them inductive, for the proofs of AccessTimesProofs. *)

\* Before a-node k is in the committed table, its transaction answers for it.
Owed(k) == times[k] # None \/ (writer # None /\ writer.times[k] # None)

InSomeHand(k) ==
  \/ kept[k] <= log[k]
  \/ writer # None /\ kept[k] <= writer.batch[k]
  \/ \E f \in Flusher : flusher[f] # None /\ kept[k] <= flusher[f].batch[k]
  \/ times[k] # None /\ kept[k] <= times[k].accessed

\* One write transaction, whose copy of the inodes is the committed one of its time.
OneWrite ==
  \A f \in Flusher : flusher[f] # None /\ flusher[f].phase = "begun" =>
    /\ writer = None
    /\ flusher[f].times = Bumped(times, flusher[f].batch)
    /\ \A g \in Flusher : flusher[g] # None /\ flusher[g].phase = "begun" => g = f

\* Times t and u of an inode, u no earlier.
NoEarlier(t, u) == u.created = t.created /\ u.modified >= t.modified /\ u.accessed >= t.accessed

WriterInv ==
  writer # None =>
    /\ writer.live = {k \in AKey : writer.times[k] # None}
    /\ writer.live \subseteq used
    /\ writer.phase = "open" => writer.batch = NoLog
    /\ \A k \in AKey : writer.times[k] # None =>
         /\ writer.times[k].modified <= clock
         /\ writer.times[k].accessed \in seen[k]
         /\ times[k] # None => NoEarlier(times[k], writer.times[k])
         /\ writer.times[k].accessed >= writer.batch[k]

ClockInv == \A k \in AKey : times[k] # None => times[k].modified <= clock

UsedInv ==
  /\ live \subseteq used
  /\ \A r \in Reader : reading[r] # None => reading[r].live \subseteq used
  /\ \A k \in AKey : kept[k] # 0 => k \in used

\* Every time on its way is of an access that happened to a key that was used.
Happened(l) == \A k \in AKey : l[k] # 0 => l[k] \in seen[k] /\ k \in used

LogInv ==
  /\ Happened(log)
  /\ \A r \in Reader : reading[r] # None => Happened(reading[r].log)
  /\ \A f \in Flusher : flusher[f] # None => Happened(flusher[f].batch)

KeptInv == \A k \in AKey : Owed(k) => InSomeHand(k)

TimesInv ==
  TypeOK /\ InodesOfLive /\ AccessHappened /\ OneWrite /\ WriterInv /\ ClockInv /\ UsedInv /\ LogInv /\ KeptInv

=============================================================================
