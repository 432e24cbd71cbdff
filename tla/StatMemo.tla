------------------------------- MODULE StatMemo -------------------------------
(***************************************************************************)
(* The file stat memo (internal/verify/statcache.go) and how fingerprints  *)
(* use it (hashFiles and fileEntry in fingerprint.go).  A file whose stat  *)
(* is the one an entry recorded is not read again, unless the entry is     *)
(* racy: hashed within Window of the file's modification time.  Entries    *)
(* live in a session's memory and, flushed at the end of a run, in one     *)
(* record or several shards under the cache directory.                     *)
(*                                                                         *)
(* Every content has the same size and every file keeps its inode, the     *)
(* case the memo finds hardest; a stat is then the modification time and   *)
(* the mode.  Timestamps are coarse: a write is stamped with any time in   *)
(* the Granularity before it.                                              *)
(***************************************************************************)
EXTENDS Naturals, FiniteSets

CONSTANTS
  Files, Contents, Modes,
  Workers,       \* goroutines that fingerprint files
  Sessions,      \* one per process
  SessionOf,     \* [Workers -> Sessions]
  Window,        \* racyWindow
  Granularity,   \* of the filesystem's timestamps
  ShardOf,       \* [Files -> {0, 1}]: the shard of a file in a split memo
  ShardLimit,    \* how many entries fit one record
  Absent,        \* no file, no entry, no record
  Torn,          \* what reading a file that is being written may give
  MaxClock,      \* bound: the end of time
  MaxChanges,    \* bound: how often files change
  MaxRuns,       \* bound: how many processes die or start over
  Disk           \* whether writing a record can fail

ASSUME StatMemoAssumption ==
  /\ SessionOf \in [Workers -> Sessions]
  /\ Window \in Nat
  /\ Granularity \in 1..Window
  /\ ShardOf \in [Files -> {0, 1}]
  /\ ShardLimit \in Nat
  /\ Torn \notin Contents /\ Modes # {}
  /\ MaxClock \in Nat /\ MaxChanges \in Nat /\ MaxRuns \in Nat
  /\ Disk \in BOOLEAN

VARIABLES
  clock,
  file,          \* [Files -> [content, mode, mod] or Absent]
  memo,          \* statStore.entries of each session
  seen,          \* statStore.seen
  store,         \* statStore: "new", "shards" or "ready" once prepared,
                 \* "one" or "first" while flushing, "tidy", "flushed"
  pc,            \* where each worker is in fileEntry
  at,            \* the file it fingerprints
  info,          \* the stat its walk took
  hashedAt,      \* when its read started
  read,          \* ghost: the contents the file had during the read
  since,         \* ghost: the values the file had since the walk
  disk,          \* the records: shard 0 and shard 1
  pending,       \* what a flush is writing
  failed,        \* ghost: whether writing a record has failed
  changes,       \* how often files changed
  runs           \* how many processes died or started over

workVars == <<pc, at, info, hashedAt, read, since>>
storeVars == <<memo, seen, store>>
diskVars == <<disk, pending, failed>>
vars == <<clock, file, storeVars, workVars, diskVars, changes, runs>>

Stats == [mod : Nat, mode : Modes]
Values == Modes \X (Contents \cup {Torn})
Entries == [stat : Stats, value : Values, hashedAt : Nat]
Memos == [Files -> Entries \cup {Absent}]
NoEntries == [f \in Files |-> Absent]

(* statRecord: some of the entries, and how many records there are of them. *)
Records == [count : {1, 2}, entries : Memos]

ASSUME AbsentAssumption == Absent \notin Records

StatOf(f) == [mod |-> file[f].mod, mode |-> file[f].mode]
ValueOf(x) == <<x.mode, x.content>>

(* statEntry.settled *)
Settled(e) == e.stat.mod + Window < e.hashedAt

(* The stamps a write at time t can leave on a filesystem. *)
Stamps(t) == {m \in 0..t : t < m + Granularity}

Init ==
  /\ clock = 0
  /\ file \in [Files -> [content : Contents, mode : {CHOOSE m \in Modes : TRUE}, mod : {0}] \cup {Absent}]
  /\ memo = [s \in Sessions |-> NoEntries]
  /\ seen = [s \in Sessions |-> {}]
  /\ store = [s \in Sessions |-> "new"]
  /\ pc = [g \in Workers |-> "idle"]
  /\ at = [g \in Workers |-> Absent]
  /\ info = [g \in Workers |-> Absent]
  /\ hashedAt = [g \in Workers |-> 0]
  /\ read = [g \in Workers |-> {}]
  /\ since = [g \in Workers |-> {}]
  /\ disk = [i \in {0, 1} |-> Absent]
  /\ pending = [s \in Sessions |-> NoEntries]
  /\ failed = FALSE
  /\ changes = 0
  /\ runs = 0

-----------------------------------------------------------------------------
(* The tree and time. *)

Tick ==
  /\ clock < MaxClock
  /\ clock' = clock + 1
  /\ UNCHANGED <<file, storeVars, workVars, diskVars, changes, runs>>

(* What the ghosts of the workers on file f make of its new state. *)
Observe(f, x) ==
  /\ since' = [g \in Workers |-> IF at[g] = f /\ x # Absent
                                 THEN since[g] \cup {ValueOf(x)} ELSE since[g]]
  /\ read' = [g \in Workers |-> IF at[g] = f /\ pc[g] = "reading" /\ x # Absent
                                THEN read[g] \cup {x.content} ELSE read[g]]

Change(f, x) ==
  /\ changes < MaxChanges
  /\ changes' = changes + 1
  /\ file' = [file EXCEPT ![f] = x]
  /\ Observe(f, x)
  /\ UNCHANGED <<clock, storeVars, pc, at, info, hashedAt, diskVars, runs>>

(* A file is written, or created, with a stamp of now. *)
Write(f) ==
  \E c \in Contents, m \in Stamps(clock), mode \in Modes :
    Change(f, [content |-> c, mod |-> m,
               mode |-> IF file[f] = Absent THEN mode ELSE file[f].mode])

Chmod(f) ==
  /\ file[f] # Absent
  /\ \E mode \in Modes : Change(f, [file[f] EXCEPT !.mode = mode])

Remove(f) ==
  /\ file[f] # Absent
  /\ Change(f, Absent)

-----------------------------------------------------------------------------
(* fileEntry, by several goroutines of a session. *)

(* The walk that enumerates the files takes their stats. *)
Walk(g, f) ==
  /\ pc[g] = "idle"
  /\ store[SessionOf[g]] \in {"new", "shards", "ready"}
  /\ file[f] # Absent
  /\ pc' = [pc EXCEPT ![g] = "walked"]
  /\ at' = [at EXCEPT ![g] = f]
  /\ info' = [info EXCEPT ![g] = StatOf(f)]
  /\ since' = [since EXCEPT ![g] = {ValueOf(file[f])}]
  /\ UNCHANGED <<clock, file, storeVars, hashedAt, read, diskVars, changes, runs>>

(* load: a record's settled entries replace what the memo has. *)
Loaded(old, entries) ==
  [f \in Files |-> IF entries[f] # Absent /\ Settled(entries[f])
                   THEN entries[f] ELSE old[f]]

(***************************************************************************)
(* prepare, once per session and before its first lookup, holding s.mu: it *)
(* reads the first record and then the shards that one counts.             *)
(***************************************************************************)
Prepare(s) ==
  /\ store[s] = "new"
  /\ \E g \in Workers : SessionOf[g] = s /\ pc[g] = "walked"
  /\ memo' = [memo EXCEPT ![s] = IF disk[0] = Absent THEN @ ELSE Loaded(@, disk[0].entries)]
  /\ store' = [store EXCEPT ![s] =
                 IF disk[0] # Absent /\ disk[0].count = 2 THEN "shards" ELSE "ready"]
  /\ UNCHANGED <<clock, file, seen, workVars, diskVars, changes, runs>>

PrepareShard(s) ==
  /\ store[s] = "shards"
  /\ memo' = [memo EXCEPT ![s] = IF disk[1] = Absent THEN @ ELSE Loaded(@, disk[1].entries)]
  /\ store' = [store EXCEPT ![s] = "ready"]
  /\ UNCHANGED <<clock, file, seen, workVars, diskVars, changes, runs>>

(* MUTANT of Serves: the stat is not compared. *)
ServesAnyStat(g) ==
  LET e == memo[SessionOf[g]][at[g]]
  IN  e # Absent /\ Settled(e)

(* lookup: an entry serves a file with its stat, if it is not racy. *)
Serves(g) ==
  LET e == memo[SessionOf[g]][at[g]]
  IN  e # Absent /\ e.stat = info[g] /\ Settled(e)

Rest(g) ==
  /\ pc' = [pc EXCEPT ![g] = "idle"]
  /\ at' = [at EXCEPT ![g] = Absent]
  /\ info' = [info EXCEPT ![g] = Absent]
  /\ hashedAt' = [hashedAt EXCEPT ![g] = 0]
  /\ read' = [read EXCEPT ![g] = {}]
  /\ since' = [since EXCEPT ![g] = {}]

Look(s, f) == seen' = [seen EXCEPT ![s] = @ \cup {f}]

Hit(g) ==
  /\ pc[g] = "walked"
  /\ store[SessionOf[g]] = "ready"
  /\ Serves(g)
  /\ Look(SessionOf[g], at[g])
  /\ Rest(g)
  /\ UNCHANGED <<clock, file, memo, store, diskVars, changes, runs>>

(* hashedAt is taken before the file is opened. *)
Miss(g) ==
  /\ pc[g] = "walked"
  /\ store[SessionOf[g]] = "ready"
  /\ ~Serves(g)
  /\ hashedAt' = [hashedAt EXCEPT ![g] = clock]
  /\ pc' = [pc EXCEPT ![g] = "open"]
  /\ UNCHANGED <<clock, file, storeVars, at, info, read, since, diskVars, changes, runs>>

(* The file is opened, or is gone: the snapshot fails. *)
Open(g) ==
  /\ pc[g] = "open"
  /\ \/ /\ file[at[g]] # Absent
        /\ pc' = [pc EXCEPT ![g] = "reading"]
        /\ read' = [read EXCEPT ![g] = {file[at[g]].content}]
        /\ UNCHANGED <<at, info, hashedAt, since>>
     \/ /\ file[at[g]] = Absent
        /\ Rest(g)
  /\ UNCHANGED <<clock, file, storeVars, diskVars, changes, runs>>

(* What reading it gave: its content, or a mixture of all it had meanwhile. *)
ReadBy(g) == IF Cardinality(read[g]) = 1 THEN read[g] ELSE read[g] \cup {Torn}

(* MUTANT of Stamp: the moment is taken when the read is over. *)
StampAfter(g) == clock
Stamp(g) == hashedAt[g]

Store(g) ==
  LET s == SessionOf[g]
  IN  /\ pc[g] = "reading"
      /\ \E c \in ReadBy(g) :
           memo' = [memo EXCEPT ![s][at[g]] =
             [stat |-> info[g], value |-> <<info[g].mode, c>>, hashedAt |-> Stamp(g)]]
      /\ Look(s, at[g])
      /\ Rest(g)
      /\ UNCHANGED <<clock, file, store, diskVars, changes, runs>>

-----------------------------------------------------------------------------
(* flush, at the end of a run, and the next run. *)

(***************************************************************************)
(* An entry this run did not look at is kept while its file still has the  *)
(* recorded stat.                                                          *)
(***************************************************************************)
Kept(s) ==
  [f \in Files |->
     IF memo[s][f] # Absent /\ (f \in seen[s] \/ (file[f] # Absent /\ memo[s][f].stat = StatOf(f)))
     THEN memo[s][f] ELSE Absent]

Size(entries) == Cardinality({f \in Files : entries[f] # Absent})

(* shards: how many records, so that each is under its limit *)
ShardCount(entries) == IF Size(entries) > ShardLimit THEN 2 ELSE 1

(* A run that snapshotted nothing has no root to write. *)
Flush(s) ==
  /\ store[s] \in {"new", "ready"}
  /\ \A g \in Workers : SessionOf[g] = s => pc[g] = "idle"
  /\ pending' = [pending EXCEPT ![s] = IF store[s] = "new" THEN @ ELSE Kept(s)]
  /\ store' = [store EXCEPT ![s] =
                 IF store[s] = "new" THEN "flushed"
                 ELSE IF ShardCount(Kept(s)) = 2 THEN "one" ELSE "first"]
  /\ UNCHANGED <<clock, file, memo, seen, workVars, disk, failed, changes, runs>>

Shard(s, i) ==
  LET count == ShardCount(pending[s])
  IN  [count |-> IF i = 0 THEN count ELSE 1,
       entries |-> [f \in Files |-> IF count = 1 \/ ShardOf[f] = i THEN pending[s][f] ELSE Absent]]

Record(s, i) ==
  \/ disk' = [disk EXCEPT ![i] = Shard(s, i)] /\ UNCHANGED failed
  \/ Disk /\ failed' = TRUE /\ UNCHANGED disk

(* MUTANT of FlushOne and FlushFirst: shard 0 is written before shard 1. *)
FlushOneLate(s) ==
  /\ store[s] = "one"
  /\ Record(s, 0)
  /\ store' = [store EXCEPT ![s] = "first"]
  /\ UNCHANGED <<clock, file, memo, seen, workVars, pending, changes, runs>>

FlushOne(s) ==
  /\ store[s] = "one"
  /\ Record(s, 1)
  /\ store' = [store EXCEPT ![s] = "first"]
  /\ UNCHANGED <<clock, file, memo, seen, workVars, pending, changes, runs>>

FlushFirst(s) ==
  /\ store[s] = "first"
  /\ Record(s, 0)
  /\ store' = [store EXCEPT ![s] = "tidy"]
  /\ UNCHANGED <<clock, file, memo, seen, workVars, pending, changes, runs>>

(* Shards beyond the new count are removed. *)
Tidy(s) ==
  /\ store[s] = "tidy"
  /\ disk' = IF ShardCount(pending[s]) = 1 THEN [disk EXCEPT ![1] = Absent] ELSE disk
  /\ store' = [store EXCEPT ![s] = "flushed"]
  /\ pending' = [pending EXCEPT ![s] = NoEntries]
  /\ UNCHANGED <<clock, file, memo, seen, workVars, failed, changes, runs>>

(* The process dies, or has ended, and the next run starts. *)
Restart(s) ==
  LET mine == {g \in Workers : SessionOf[g] = s}
      Reset(f, v) == [g \in Workers |-> IF g \in mine THEN v ELSE f[g]]
  IN  /\ runs < MaxRuns
      /\ runs' = runs + 1
      /\ memo' = [memo EXCEPT ![s] = NoEntries]
      /\ seen' = [seen EXCEPT ![s] = {}]
      /\ store' = [store EXCEPT ![s] = "new"]
      /\ pending' = [pending EXCEPT ![s] = NoEntries]
      /\ pc' = Reset(pc, "idle")
      /\ at' = Reset(at, Absent)
      /\ info' = Reset(info, Absent)
      /\ hashedAt' = Reset(hashedAt, 0)
      /\ read' = Reset(read, {})
      /\ since' = Reset(since, {})
      /\ UNCHANGED <<clock, file, disk, failed, changes>>

Ended == (\A s \in Sessions : store[s] = "flushed") /\ UNCHANGED vars

Next ==
  \/ Tick
  \/ \E f \in Files : Write(f) \/ Chmod(f) \/ Remove(f)
  \/ \E g \in Workers :
       \/ \E f \in Files : Walk(g, f)
       \/ Hit(g) \/ Miss(g) \/ Open(g) \/ Store(g)
  \/ \E s \in Sessions :
       \/ Prepare(s) \/ PrepareShard(s)
       \/ Flush(s) \/ FlushOne(s) \/ FlushFirst(s) \/ Tidy(s)
       \/ Restart(s)
  \/ Ended

Spec == Init /\ [][Next]_vars

-----------------------------------------------------------------------------
(* The entry lies: its stat is the file's and its value is not. *)
Lies(e, f) ==
  /\ e # Absent
  /\ file[f] # Absent
  /\ e.stat = StatOf(f)
  /\ Settled(e)
  /\ e.value # ValueOf(file[f])

(***************************************************************************)
(* statcache.go:62-73: an entry that is not racy and has the file's stat   *)
(* has its content, in memory and in every record, whoever wrote the file  *)
(* when, coarse timestamps, torn reads and mixed flushes included.         *)
(***************************************************************************)
TrustedIsCurrent ==
  \A f \in Files :
    /\ \A s \in Sessions : ~Lies(memo[s][f], f) /\ ~Lies(pending[s][f], f)
    /\ \A i \in {0, 1} : disk[i] # Absent => ~Lies(disk[i].entries[f], f)

(***************************************************************************)
(* A fingerprint sees the file: unless the file changed since the walk     *)
(* that took its stat, what a lookup serves is what the file holds, also   *)
(* when another goroutine stored it meanwhile from a stat of its own.      *)
(***************************************************************************)
ServedIsThere ==
  [][\A g \in Workers :
       pc[g] = "walked" /\ pc'[g] = "idle" /\ runs' = runs /\ Cardinality(since[g]) = 1 =>
         memo[SessionOf[g]][at[g]].value \in since[g]]_vars

(***************************************************************************)
(* statcache.go:244-245: shard 0 is written last, so its count never leads *)
(* a reader to a shard that is not there, until a record fails to be       *)
(* written.  For one flush at a time.                                      *)
(***************************************************************************)
CountedShardsExist ==
  ~failed /\ disk[0] # Absent /\ disk[0].count = 2 => disk[1] # Absent
===============================================================================
