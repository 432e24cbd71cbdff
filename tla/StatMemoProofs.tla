---------------------------- MODULE StatMemoProofs -----------------------------
(***************************************************************************)
(* The file stat memo for any files, contents, modes, goroutines and       *)
(* processes, any racy window at least as long as the filesystem's         *)
(* timestamps are coarse, and any split of the entries into two shards.    *)
(*                                                                         *)
(* The argument of statcache.go:62-73: whatever writes a file at some time *)
(* stamps it less than Window before that time, so a file whose stamp is   *)
(* more than Window older than the start of a read was not written since   *)
(* the read started.                                                       *)
(***************************************************************************)
EXTENDS StatMemo, TLAPS, FiniteSetTheorems

USE StatMemoAssumption DEF Records

-----------------------------------------------------------------------------
(* The shape of the state, by what the variables describe. *)

FileTypes ==
  /\ clock \in Nat /\ runs \in Nat
  /\ file \in [Files -> [content : Contents, mode : Modes, mod : Nat] \cup {Absent}]

StoreTypes ==
  /\ memo \in [Sessions -> Memos]
  /\ pending \in [Sessions -> Memos]
  /\ store \in [Sessions -> {"new", "shards", "ready", "one", "first", "tidy", "flushed"}]
  /\ disk \in [{0, 1} -> Records \cup {Absent}]

(* A worker has a file, its stat and, once it reads, the time it started at. *)
WorkTypes ==
  /\ pc \in [Workers -> {"idle", "walked", "open", "reading"}]
  /\ at \in [Workers -> Files \cup {Absent}]
  /\ info \in [Workers -> Stats \cup {Absent}]
  /\ hashedAt \in [Workers -> Nat]
  /\ read \in [Workers -> SUBSET Contents]
  /\ since \in [Workers -> SUBSET (Modes \X Contents)]
  /\ \A g \in Workers :
       /\ pc[g] # "idle" => at[g] \in Files /\ info[g] \in Stats
       /\ hashedAt[g] <= clock
       /\ pc[g] = "reading" => read[g] # {}
       /\ IsFiniteSet(since[g])

StatTypes == FileTypes /\ StoreTypes /\ WorkTypes

(* The entries that anybody has for a file, in memory or on disk. *)
Recorded(f) ==
  {memo[s][f] : s \in Sessions} \cup {pending[s][f] : s \in Sessions}
  \cup {disk[i].entries[f] : i \in {j \in {0, 1} : disk[j] # Absent}}

-----------------------------------------------------------------------------
(* What the helpers of the memo return. *)

(* The initial stat of a file has a mode. *)
LEMMA SomeMode == (CHOOSE m \in Modes : TRUE) \in Modes
  OBVIOUS

(* What a memo has of a file is an entry or nothing. *)
LEMMA EntryFound ==
  ASSUME NEW entries \in Memos, NEW f \in Files
  PROVE  entries[f] \in Entries \cup {Absent}
  BY DEF Memos

(* Loading, keeping and splitting entries invents none. *)
LEMMA LoadedFrom ==
  ASSUME NEW old \in Memos, NEW entries \in Memos
  PROVE  /\ Loaded(old, entries) \in Memos
         /\ \A f \in Files : Loaded(old, entries)[f] \in {old[f], entries[f]}
  BY DEF Loaded, Memos

(* A flush keeps entries of the memo. *)
LEMMA KeptFrom ==
  ASSUME StoreTypes, NEW s \in Sessions
  PROVE  /\ Kept(s) \in Memos
         /\ \A f \in Files : Kept(s)[f] \in {memo[s][f], Absent}
<1>1. memo[s] \in Memos
  BY DEF StoreTypes
<1> QED BY <1>1 DEF Kept, Memos

(* A shard has entries of the flush, shard 0 with the count of the shards. *)
LEMMA ShardFrom ==
  ASSUME StoreTypes, NEW s \in Sessions, NEW i \in {0, 1}
  PROVE  /\ Shard(s, i) \in Records
         /\ \A f \in Files : Shard(s, i).entries[f] \in {pending[s][f], Absent}
         /\ Shard(s, 0).count = ShardCount(pending[s])
<1>1. pending[s] \in Memos
  BY DEF StoreTypes
<1>2. ShardCount(pending[s]) \in {1, 2}
  BY DEF ShardCount
<1> QED BY <1>1, <1>2 DEF Shard, Memos

(* A write of now leaves no stamp that a settled entry of the past can have. *)
LEMMA WrittenIsLater ==
  ASSUME NEW now \in Nat, NEW m \in Stamps(now), NEW hashed \in Nat, hashed <= now
  PROVE  m \in Nat /\ ~(m + Window < hashed)
  BY DEF Stamps

(* A read during which the file had one content gives that content. *)
LEMMA ReadOne ==
  ASSUME NEW g \in Workers, NEW c, read[g] = {c} PROVE ReadBy(g) = {c}
<1>1. Cardinality({c}) = 1
  BY FS_Singleton
<1> QED BY <1>1 DEF ReadBy

-----------------------------------------------------------------------------
(* The shape is kept by every step. *)

(* The initial state has the shape. *)
LEMMA TypesInit == Init => StatTypes
<1> SUFFICES ASSUME Init PROVE StatTypes
  OBVIOUS
<1> USE DEF Init
<1>1. FileTypes
  BY SomeMode DEF FileTypes
<1>2. NoEntries \in Memos
  BY DEF NoEntries, Memos
<1>3. StoreTypes
  BY <1>2 DEF StoreTypes
<1>4. WorkTypes
  BY FS_EmptySet DEF WorkTypes
<1> QED BY <1>1, <1>3, <1>4 DEF StatTypes

(* A change of a file, and time, which the ghosts of the workers follow. *)
LEMMA ChangeTypes ==
  ASSUME StatTypes, NEW f \in Files, NEW x, Change(f, x),
         x \in [content : Contents, mode : Modes, mod : Nat] \cup {Absent}
  PROVE  StatTypes'
<1> USE DEF StatTypes, Change, diskVars, storeVars
<1>1. FileTypes'
  BY DEF FileTypes
<1>2. StoreTypes'
  BY DEF StoreTypes
<1>3. WorkTypes'
  <2>1. x # Absent => ValueOf(x) \in Modes \X Contents /\ x.content \in Contents
    BY DEF ValueOf
  <2>2. /\ since' \in [Workers -> SUBSET (Modes \X Contents)]
        /\ read' \in [Workers -> SUBSET Contents]
        /\ \A g \in Workers : pc[g] = "reading" => read'[g] # {}
    BY <2>1 DEF Observe, WorkTypes
  <2>3. \A g \in Workers : IsFiniteSet(since'[g])
    BY FS_AddElement DEF Observe, WorkTypes
  <2> QED BY <2>2, <2>3 DEF WorkTypes
<1> QED BY <1>1, <1>2, <1>3

(* What a change makes of a file is a file. *)
LEMMA ChangedFile ==
  ASSUME StatTypes, NEW f \in Files, Write(f) \/ Chmod(f) \/ Remove(f)
  PROVE  \E x \in [content : Contents, mode : Modes, mod : Nat] \cup {Absent} :
           /\ Change(f, x)
           /\ \/ x = Absent
              \/ x # Absent /\ x.mod \in Stamps(clock)
              \/ /\ x # Absent /\ file[f] # Absent
                 /\ x.content = file[f].content /\ x.mod = file[f].mod
<1>1. file[f] \in [content : Contents, mode : Modes, mod : Nat] \cup {Absent}
  BY DEF StatTypes, FileTypes
<1>2. CASE Write(f)
  <2>1. PICK c \in Contents, m \in Stamps(clock), mode \in Modes :
          Change(f, [content |-> c, mod |-> m,
                     mode |-> IF file[f] = Absent THEN mode ELSE file[f].mode])
    BY <1>2 DEF Write
  <2> DEFINE x == [content |-> c, mod |-> m,
                   mode |-> IF file[f] = Absent THEN mode ELSE file[f].mode]
  <2>2. x \in [content : Contents, mode : Modes, mod : Nat] /\ x.mod \in Stamps(clock)
    BY <1>1 DEF Stamps
  <2>3. Change(f, x)
    BY <2>1
  <2> HIDE DEF x
  <2> QED BY <2>2, <2>3
<1>3. CASE Chmod(f)
  <2>1. PICK mode \in Modes : Change(f, [file[f] EXCEPT !.mode = mode])
    BY <1>3 DEF Chmod
  <2> DEFINE x == [file[f] EXCEPT !.mode = mode]
  <2>2. /\ file[f] # Absent /\ x \in [content : Contents, mode : Modes, mod : Nat]
        /\ x.content = file[f].content /\ x.mod = file[f].mod
    BY <1>1, <1>3 DEF Chmod
  <2>3. Change(f, x)
    BY <2>1
  <2> HIDE DEF x
  <2> QED BY <2>2, <2>3
<1>4. CASE Remove(f)
  BY <1>4 DEF Remove
<1> QED BY <1>2, <1>3, <1>4

(* Walking, looking up, reading and storing. *)
LEMMA WorkStepTypes ==
  ASSUME StatTypes, NEW g \in Workers,
         (\E f \in Files : Walk(g, f)) \/ Hit(g) \/ Miss(g) \/ Open(g) \/ Store(g)
  PROVE  StatTypes'
<1> USE DEF StatTypes, diskVars, storeVars, workVars
<1>1. FileTypes'
  BY DEF FileTypes, Walk, Hit, Miss, Open, Store
<1>2. StoreTypes'
  <2>1. CASE Store(g)
    <3>1. /\ at[g] \in Files /\ info[g] \in Stats /\ read[g] \in SUBSET Contents
          /\ hashedAt[g] \in Nat /\ SessionOf[g] \in Sessions
      BY <2>1 DEF Store, WorkTypes
    <3>2. ReadBy(g) \subseteq Contents \cup {Torn}
      BY <3>1 DEF ReadBy
    <3>3. PICK c \in ReadBy(g) :
            memo' = [memo EXCEPT ![SessionOf[g]][at[g]] =
              [stat |-> info[g], value |-> <<info[g].mode, c>>, hashedAt |-> hashedAt[g]]]
      BY <2>1 DEF Store, Stamp
    <3>4. [stat |-> info[g], value |-> <<info[g].mode, c>>, hashedAt |-> hashedAt[g]] \in Entries
      <4>1. info[g].mode \in Modes
        BY <3>1 DEF Stats
      <4> QED BY <3>1, <3>2, <4>1 DEF Entries, Values
    <3>5. memo' \in [Sessions -> Memos]
      BY <3>1, <3>3, <3>4 DEF StoreTypes, Memos
    <3> QED BY <2>1, <3>5 DEF Store, StoreTypes
  <2>2. CASE UNCHANGED <<memo, store, disk, pending>>
    BY <2>2 DEF StoreTypes
  <2> QED BY <2>1, <2>2 DEF Walk, Hit, Miss, Open
<1>3. WorkTypes'
  <2>1. ASSUME NEW f \in Files, Walk(g, f) PROVE WorkTypes'
    <3>1. file[f] \in [content : Contents, mode : Modes, mod : Nat]
      BY <2>1 DEF FileTypes, Walk
    <3>2. StatOf(f) \in Stats /\ {ValueOf(file[f])} \in SUBSET (Modes \X Contents)
      BY <3>1 DEF StatOf, Stats, ValueOf
    <3>3. IsFiniteSet({ValueOf(file[f])})
      BY FS_Singleton
    <3>4. clock' = clock /\ UNCHANGED <<hashedAt, read>>
          /\ pc' = [pc EXCEPT ![g] = "walked"] /\ at' = [at EXCEPT ![g] = f]
          /\ info' = [info EXCEPT ![g] = StatOf(f)]
          /\ since' = [since EXCEPT ![g] = {ValueOf(file[f])}]
      BY <2>1 DEF Walk
    <3> QED BY <3>2, <3>3, <3>4 DEF WorkTypes
  <2>2. CASE Rest(g) /\ clock' = clock
    BY <2>2, FS_EmptySet DEF Rest, WorkTypes, FileTypes
  <2>3. CASE Miss(g)
    BY <2>3 DEF Miss, WorkTypes, FileTypes
  <2>4. CASE Open(g) /\ ~Rest(g)
    <3>1. /\ file[at[g]].content \in Contents
          /\ pc' = [pc EXCEPT ![g] = "reading"]
          /\ read' = [read EXCEPT ![g] = {file[at[g]].content}]
          /\ UNCHANGED <<at, info, hashedAt, since, clock>>
          /\ pc[g] = "open"
      BY <2>4 DEF Open, WorkTypes, FileTypes
    <3> QED BY <3>1 DEF WorkTypes
  <2> QED BY <2>1, <2>2, <2>3, <2>4 DEF Hit, Open, Store
<1> QED BY <1>1, <1>2, <1>3

(* Time, preparing, flushing, restarting and stuttering. *)
Around ==
  \/ Tick
  \/ \E s \in Sessions :
       \/ Prepare(s) \/ PrepareShard(s)
       \/ Flush(s) \/ FlushOne(s) \/ FlushFirst(s) \/ Tidy(s)
       \/ Restart(s)
  \/ UNCHANGED vars

(* A restart puts the workers of one session to rest. *)
LEMMA RestartWork ==
  ASSUME FileTypes, WorkTypes, NEW s \in Sessions, Restart(s)
  PROVE  /\ WorkTypes'
         /\ \A g \in Workers :
              \/ pc'[g] = "idle"
              \/ /\ pc'[g] = pc[g] /\ at'[g] = at[g] /\ info'[g] = info[g]
                 /\ hashedAt'[g] = hashedAt[g] /\ read'[g] = read[g] /\ since'[g] = since[g]
<1> USE DEF Restart, WorkTypes
<1>1. /\ pc' \in [Workers -> {"idle", "walked", "open", "reading"}]
      /\ at' \in [Workers -> Files \cup {Absent}]
      /\ info' \in [Workers -> Stats \cup {Absent}]
  OBVIOUS
<1>2. hashedAt' \in [Workers -> Nat]
  OBVIOUS
<1>3. /\ read' \in [Workers -> SUBSET Contents]
      /\ since' \in [Workers -> SUBSET (Modes \X Contents)]
  OBVIOUS
<1>4. \A g \in Workers :
        \/ pc'[g] = "idle" /\ hashedAt'[g] = 0 /\ since'[g] = {}
        \/ /\ pc'[g] = pc[g] /\ at'[g] = at[g] /\ info'[g] = info[g]
           /\ hashedAt'[g] = hashedAt[g] /\ read'[g] = read[g] /\ since'[g] = since[g]
  OBVIOUS
<1>5. \A g \in Workers : hashedAt'[g] <= clock'
  <2> SUFFICES ASSUME NEW g \in Workers PROVE hashedAt'[g] <= clock'
    OBVIOUS
  <2>1. hashedAt[g] \in Nat /\ hashedAt[g] <= clock /\ clock' = clock /\ clock \in Nat
    BY DEF FileTypes
  <2>2. CASE hashedAt'[g] = 0
    BY <2>1, <2>2
  <2> QED BY <1>4, <2>1, <2>2
<1>6. \A g \in Workers :
        /\ pc'[g] # "idle" => at'[g] \in Files /\ info'[g] \in Stats
        /\ pc'[g] = "reading" => read'[g] # {}
        /\ IsFiniteSet(since'[g])
  BY <1>4, FS_EmptySet
<1>7. WorkTypes'
  BY <1>1, <1>2, <1>3, <1>5, <1>6
<1> QED BY <1>4, <1>7

(* None of these steps disturbs the shape. *)
LEMMA AroundTypes == ASSUME StatTypes, Around PROVE StatTypes'
<1> USE DEF StatTypes, diskVars, storeVars, workVars
<1>1. FileTypes' /\ clock' >= clock
  BY DEF Around, FileTypes, Tick, Prepare, PrepareShard, Flush, FlushOne, FlushFirst, Tidy, Restart,
         vars
<1>2. StoreTypes'
  <2>0. NoEntries \in Memos
    BY DEF NoEntries, Memos
  <2>1. ASSUME NEW s \in Sessions, Prepare(s) \/ PrepareShard(s) PROVE StoreTypes'
    <3>1. \A i \in {0, 1} : disk[i] # Absent => Loaded(memo[s], disk[i].entries) \in Memos
      BY LoadedFrom DEF StoreTypes
    <3> QED BY <2>1, <3>1 DEF StoreTypes, Prepare, PrepareShard
  <2>2. ASSUME NEW s \in Sessions, Flush(s) PROVE StoreTypes'
    BY <2>2, KeptFrom DEF StoreTypes, Flush
  <2>3. ASSUME NEW s \in Sessions, FlushOne(s) \/ FlushFirst(s) PROVE StoreTypes'
    <3>1. ASSUME NEW i \in {0, 1}, Record(s, i)
          PROVE  disk' \in [{0, 1} -> Records \cup {Absent}]
      <4>1. Shard(s, i) \in Records
        BY ShardFrom
      <4> QED BY <3>1, <4>1 DEF Record, StoreTypes
    <3> QED BY <2>3, <3>1 DEF StoreTypes, FlushOne, FlushFirst
  <2>4. ASSUME NEW s \in Sessions, Tidy(s) \/ Restart(s) PROVE StoreTypes'
    <3>1. CASE Tidy(s)
      <4>1. disk' \in [{0, 1} -> Records \cup {Absent}]
        BY <3>1 DEF Tidy, StoreTypes
      <4> QED BY <2>0, <3>1, <4>1 DEF StoreTypes, Tidy
    <3>2. CASE Restart(s)
      BY <2>0, <3>2 DEF StoreTypes, Restart
    <3> QED BY <2>4, <3>1, <3>2
  <2>5. CASE UNCHANGED <<memo, store, disk, pending>>
    BY <2>5 DEF StoreTypes
  <2> QED BY <2>1, <2>2, <2>3, <2>4, <2>5 DEF Around, Tick, vars
<1>3. WorkTypes'
  <2>1. ASSUME NEW s \in Sessions, Restart(s) PROVE WorkTypes'
    BY <2>1, RestartWork
  <2>2. CASE UNCHANGED workVars
    BY <1>1, <2>2 DEF WorkTypes, FileTypes
  <2> QED
    BY <2>1, <2>2 DEF Around, Tick, Prepare, PrepareShard, Flush, FlushOne, FlushFirst, Tidy, vars
<1> QED BY <1>1, <1>2, <1>3

-----------------------------------------------------------------------------
(***************************************************************************)
(* What entries and reads tell of files.  An entry was made of a read that *)
(* has started, with the mode of its stat, and is true of every file with  *)
(* its modification time once it is settled; so is what a worker is        *)
(* reading.  A worker's ghost has every value its file had since the walk, *)
(* among them, if the file was not written since, all that anybody read    *)
(* of it or has recorded of it under the stat of the walk.                 *)
(***************************************************************************)
WellMade(e) == e # Absent => e.hashedAt <= clock /\ e.value[1] = e.stat.mode

TrueOf(e, f) ==
  e # Absent /\ Settled(e) /\ file[f] # Absent /\ e.stat.mod = file[f].mod
    => e.value[2] = file[f].content

EntriesTrue == \A f \in Files : \A e \in Recorded(f) : WellMade(e) /\ TrueOf(e, f)

SettledRead(g) == pc[g] = "reading" /\ info[g].mod + Window < hashedAt[g]

ReadTrue(g) ==
  SettledRead(g) /\ file[at[g]] # Absent /\ info[g].mod = file[at[g]].mod
    => read[g] = {file[at[g]].content}

GhostKnows(g) ==
  pc[g] # "idle" =>
    /\ file[at[g]] # Absent => ValueOf(file[at[g]]) \in since[g]
    /\ \E v \in since[g] : v[1] = info[g].mode
    /\ \A h \in Workers :
         SettledRead(h) /\ at[h] = at[g] /\ info[h].mod = info[g].mod
           => \A c \in read[h] : \E v \in since[g] : v[2] = c
    /\ \A e \in Recorded(at[g]) :
         e # Absent /\ Settled(e) /\ e.stat.mod = info[g].mod
           => \A v : since[g] = {v} => e.value[2] = v[2]

MemoInv ==
  /\ StatTypes
  /\ EntriesTrue
  /\ \A g \in Workers : ReadTrue(g) /\ GhostKnows(g)

(* What is recorded of a file is an entry or nothing. *)
LEMMA RecordedTypes ==
  ASSUME StatTypes, NEW f \in Files PROVE Recorded(f) \subseteq Entries \cup {Absent}
  BY EntryFound DEF StatTypes, StoreTypes, Recorded

(* A worker that was left alone. *)
SameWorker(g) ==
  /\ pc'[g] = pc[g] /\ at'[g] = at[g] /\ info'[g] = info[g]
  /\ hashedAt'[g] = hashedAt[g] /\ read'[g] = read[g] /\ since'[g] = since[g]

(* Time passes, workers come to rest, entries are copied, kept or dropped. *)
LEMMA FewerKeep ==
  ASSUME MemoInv, StatTypes', file' = file, clock <= clock',
         \A f \in Files : \A e : e \in Recorded(f)' => e \in Recorded(f) \cup {Absent},
         \A g \in Workers : pc'[g] = "idle" \/ SameWorker(g)
  PROVE  MemoInv'
<1> clock \in Nat /\ clock' \in Nat
  BY DEF MemoInv, StatTypes, FileTypes
<1>1. EntriesTrue'
  <2> SUFFICES ASSUME NEW f \in Files, NEW e \in Recorded(f)', e # Absent
               PROVE  WellMade(e)' /\ TrueOf(e, f)'
    BY DEF EntriesTrue, WellMade, TrueOf
  <2>1. e \in Recorded(f) /\ e \in Entries
    BY RecordedTypes DEF MemoInv
  <2>2. WellMade(e) /\ TrueOf(e, f)
    BY <2>1 DEF MemoInv, EntriesTrue
  <2>3. e.hashedAt \in Nat
    BY <2>1 DEF Entries
  <2> QED BY <2>2, <2>3 DEF WellMade, TrueOf
<1>2. ASSUME NEW g \in Workers PROVE ReadTrue(g)'
  <2>1. ReadTrue(g)
    BY DEF MemoInv
  <2> QED BY <2>1 DEF ReadTrue, SettledRead, SameWorker
<1>3. ASSUME NEW g \in Workers PROVE GhostKnows(g)'
  <2> SUFFICES ASSUME pc'[g] # "idle" PROVE GhostKnows(g)'
    BY DEF GhostKnows
  <2>1. SameWorker(g) /\ pc[g] # "idle" /\ at[g] \in Files /\ GhostKnows(g)
    BY DEF SameWorker, MemoInv, StatTypes, WorkTypes
  <2>2. PICK f \in Files : f = at[g] /\ f = at'[g]
    BY <2>1 DEF SameWorker
  <2>3. \A h \in Workers : SettledRead(h)' => SettledRead(h) /\ SameWorker(h)
    BY DEF SettledRead, SameWorker
  <2>4. /\ file[at[g]] # Absent => ValueOf(file[at[g]]) \in since[g]
        /\ \E v \in since[g] : v[1] = info[g].mode
    BY <2>1 DEF GhostKnows
  <2>5. \A h \in Workers :
          SettledRead(h)' /\ at'[h] = at'[g] /\ info'[h].mod = info'[g].mod
            => \A c \in read'[h] : \E v \in since'[g] : v[2] = c
    BY <2>1, <2>3 DEF GhostKnows, SameWorker
  <2>6. \A e \in Recorded(f)' :
          e # Absent /\ Settled(e) /\ e.stat.mod = info'[g].mod
            => \A v : since'[g] = {v} => e.value[2] = v[2]
    BY <2>1, <2>2 DEF GhostKnows, SameWorker
  <2> QED BY <2>1, <2>2, <2>4, <2>5, <2>6 DEF GhostKnows, SameWorker, Recorded
<1> QED BY <1>1, <1>2, <1>3 DEF MemoInv

(***************************************************************************)
(* A file changes: nothing recorded or being read is of that stamp if it   *)
(* was written, and its content is as before if only its mode changed.     *)
(***************************************************************************)
LEMMA ChangeKeeps ==
  ASSUME MemoInv, StatTypes', NEW f \in Files, NEW x, Change(f, x),
         \/ x = Absent
         \/ x # Absent /\ x.mod \in Stamps(clock)
         \/ /\ x # Absent /\ file[f] # Absent
            /\ x.content = file[f].content /\ x.mod = file[f].mod
  PROVE  MemoInv'
<1>1. /\ StatTypes /\ clock \in Nat /\ clock' = clock
      /\ file'[f] = x /\ \A k \in Files : k # f => file'[k] = file[k]
      /\ UNCHANGED <<memo, pending, disk, pc, at, info, hashedAt>>
  BY DEF MemoInv, StatTypes, FileTypes, Change, storeVars, diskVars
<1>2. \A k \in Files : Recorded(k)' = Recorded(k)
  BY <1>1 DEF Recorded
<1>3. EntriesTrue'
  <2> SUFFICES ASSUME NEW k \in Files, NEW e \in Recorded(k), e # Absent
               PROVE  WellMade(e)' /\ TrueOf(e, k)'
    BY <1>2 DEF EntriesTrue, WellMade, TrueOf
  <2>1. WellMade(e) /\ TrueOf(e, k) /\ e \in Entries
    BY <1>1, RecordedTypes DEF MemoInv, EntriesTrue
  <2>2. e.hashedAt \in Nat /\ e.hashedAt <= clock
    BY <2>1 DEF Entries, WellMade
  <2>3. CASE x # Absent /\ x.mod \in Stamps(clock) /\ k = f
    <3>1. ~(x.mod + Window < e.hashedAt)
      BY <1>1, <2>2, <2>3, WrittenIsLater
    <3> QED BY <1>1, <2>1, <2>3, <3>1 DEF WellMade, TrueOf, Settled
  <2> QED BY <1>1, <2>1, <2>3 DEF WellMade, TrueOf
<1>4. \A g \in Workers : SettledRead(g)' <=> SettledRead(g)
  BY <1>1 DEF SettledRead
<1>5. ASSUME NEW g \in Workers PROVE ReadTrue(g)'
  <2> SUFFICES ASSUME SettledRead(g), file'[at[g]] # Absent, info[g].mod = file'[at[g]].mod
               PROVE  read'[g] = {file'[at[g]].content}
    BY <1>1, <1>4 DEF ReadTrue
  <2>1. ReadTrue(g) /\ at[g] \in Files /\ hashedAt[g] \in Nat /\ hashedAt[g] <= clock
    BY <1>1 DEF MemoInv, StatTypes, WorkTypes, SettledRead
  <2>2. CASE at[g] # f
    <3>1. read'[g] = read[g]
      BY <1>1, <2>2 DEF Change, Observe
    <3> QED BY <1>1, <2>1, <2>2, <3>1 DEF ReadTrue
  <2>3. CASE at[g] = f
    <3>1. ~(x # Absent /\ x.mod \in Stamps(clock))
      BY <1>1, <2>1, <2>3, WrittenIsLater DEF SettledRead
    <3>2. file[f] # Absent /\ x.content = file[f].content /\ x.mod = file[f].mod /\ x # Absent
      BY <1>1, <2>3, <3>1
    <3>3. read'[g] = read[g] \cup {x.content}
      BY <1>1, <2>3, <3>2 DEF Change, Observe, SettledRead
    <3> QED BY <1>1, <2>1, <2>3, <3>2, <3>3 DEF ReadTrue
  <2> QED BY <2>2, <2>3
<1>6. ASSUME NEW g \in Workers PROVE GhostKnows(g)'
  <2> SUFFICES ASSUME pc[g] # "idle" PROVE GhostKnows(g)'
    BY <1>1 DEF GhostKnows
  <2>1. GhostKnows(g) /\ at[g] \in Files
    BY <1>1 DEF MemoInv, StatTypes, WorkTypes
  <2>2. /\ since[g] \subseteq since'[g]
        /\ at[g] = f /\ x # Absent => since'[g] = since[g] \cup {ValueOf(x)}
        /\ at[g] # f => since'[g] = since[g]
    BY DEF Change, Observe
  <2>3. file'[at[g]] # Absent => ValueOf(file'[at[g]]) \in since'[g]
    BY <1>1, <2>1, <2>2 DEF GhostKnows
  <2>4. \E v \in since'[g] : v[1] = info[g].mode
    BY <2>1, <2>2 DEF GhostKnows
  <2>5. ASSUME NEW h \in Workers, SettledRead(h), at[h] = at[g], info[h].mod = info[g].mod,
               NEW c \in read'[h]
        PROVE  \E v \in since'[g] : v[2] = c
    <3>1. CASE c \in read[h]
      BY <2>1, <2>2, <2>5, <3>1 DEF GhostKnows
    <3>2. CASE c \notin read[h]
      <4>0. read'[h] = IF at[h] = f /\ pc[h] = "reading" /\ x # Absent
                       THEN read[h] \cup {x.content} ELSE read[h]
        BY DEF Change, Observe
      <4>1. at[h] = f /\ x # Absent /\ c = x.content
        BY <2>5, <3>2, <4>0
      <4>2. ValueOf(x) \in since'[g]
        BY <2>2, <2>5, <4>1
      <4>3. ValueOf(x)[2] = c
        BY <4>1 DEF ValueOf
      <4> QED BY <4>2, <4>3
    <3> QED BY <3>1, <3>2
  <2>6. ASSUME NEW e \in Recorded(at[g]), e # Absent, Settled(e), e.stat.mod = info[g].mod,
               NEW v, since'[g] = {v}
        PROVE  e.value[2] = v[2]
    <3>1. since[g] = {v}
      BY <2>2, <2>4, <2>1, <2>6 DEF GhostKnows
    <3> QED BY <2>1, <2>6, <3>1 DEF GhostKnows
  <2> QED BY <1>1, <1>2, <1>4, <2>1, <2>3, <2>4, <2>5, <2>6 DEF GhostKnows
<1> QED BY <1>3, <1>5, <1>6 DEF MemoInv

(* A worker takes a file's stat: what is recorded of that stat is the file. *)
LEMMA WalkKeeps ==
  ASSUME MemoInv, StatTypes', NEW g \in Workers, NEW f \in Files, Walk(g, f)
  PROVE  MemoInv'
<1>1. /\ StatTypes /\ file[f] # Absent /\ file' = file /\ clock' = clock
      /\ UNCHANGED <<memo, pending, disk, hashedAt, read>>
      /\ pc'[g] = "walked" /\ at'[g] = f /\ info'[g] = StatOf(f)
      /\ since'[g] = {ValueOf(file[f])}
      /\ \A h \in Workers : h # g => SameWorker(h)
  BY DEF MemoInv, StatTypes, WorkTypes, Walk, storeVars, diskVars, SameWorker
<1>2. \A k \in Files : Recorded(k)' = Recorded(k)
  BY <1>1 DEF Recorded
<1>3. EntriesTrue'
  BY <1>1, <1>2 DEF EntriesTrue, MemoInv, WellMade, TrueOf
<1>4. \A h \in Workers :
        SettledRead(h)' => h # g /\ SettledRead(h) /\ SameWorker(h)
  BY <1>1 DEF SettledRead, SameWorker
<1>5. ASSUME NEW h \in Workers PROVE ReadTrue(h)'
  <2>1. ReadTrue(h)
    BY DEF MemoInv
  <2> QED BY <1>1, <1>4, <2>1 DEF ReadTrue, SameWorker
<1>6. GhostKnows(g)'
  <2>1. StatOf(f).mod = file[f].mod /\ StatOf(f).mode = file[f].mode
        /\ ValueOf(file[f])[1] = file[f].mode /\ ValueOf(file[f])[2] = file[f].content
    BY DEF StatOf, ValueOf
  <2>2. ASSUME NEW h \in Workers, SettledRead(h), SameWorker(h), at[h] = f,
               info[h].mod = file[f].mod, NEW c \in read[h]
        PROVE  c = file[f].content
    <3>1. ReadTrue(h)
      BY DEF MemoInv
    <3> QED BY <1>1, <2>2, <3>1 DEF ReadTrue
  <2>3. ASSUME NEW e \in Recorded(f), e # Absent, Settled(e), e.stat.mod = file[f].mod
        PROVE  e.value[2] = file[f].content
    <3>1. TrueOf(e, f)
      BY DEF MemoInv, EntriesTrue
    <3> QED BY <1>1, <2>3, <3>1 DEF TrueOf
  <2>4. \A h \in Workers :
          SettledRead(h)' /\ at'[h] = f /\ info'[h].mod = file[f].mod
            => \A c \in read'[h] : \E v \in since'[g] : v[2] = c
    BY <1>1, <1>4, <2>1, <2>2 DEF SameWorker
  <2>5. \A e \in Recorded(f)' :
          e # Absent /\ Settled(e) /\ e.stat.mod = file[f].mod
            => \A v : since'[g] = {v} => e.value[2] = v[2]
    BY <1>1, <1>2, <2>1, <2>3
  <2>6. /\ file'[at'[g]] # Absent => ValueOf(file'[at'[g]]) \in since'[g]
        /\ \E v \in since'[g] : v[1] = info'[g].mode
    BY <1>1, <2>1
  <2>7. info'[g].mod = file[f].mod /\ at'[g] = f
    BY <1>1, <2>1
  <2> QED BY <2>4, <2>5, <2>6, <2>7 DEF GhostKnows, Recorded, ValueOf
<1>7. ASSUME NEW h \in Workers, h # g, pc[h] # "idle" PROVE GhostKnows(h)'
  <2>1. GhostKnows(h) /\ SameWorker(h) /\ at[h] \in Files
    BY <1>1, <1>7 DEF MemoInv, StatTypes, WorkTypes
  <2>2. PICK k \in Files : k = at[h] /\ k = at'[h]
    BY <2>1 DEF SameWorker
  <2>3. \A i \in Workers :
          SettledRead(i)' /\ at'[i] = at'[h] /\ info'[i].mod = info'[h].mod
            => \A c \in read'[i] : \E v \in since'[h] : v[2] = c
    BY <1>4, <1>7, <2>1 DEF GhostKnows, SameWorker
  <2>4. \A e \in Recorded(k)' :
          e # Absent /\ Settled(e) /\ e.stat.mod = info'[h].mod
            => \A v : since'[h] = {v} => e.value[2] = v[2]
    BY <1>2, <1>7, <2>1, <2>2 DEF GhostKnows, SameWorker
  <2> QED BY <1>1, <1>7, <2>1, <2>2, <2>3, <2>4 DEF GhostKnows, SameWorker, Recorded
<1>8. ASSUME NEW h \in Workers PROVE GhostKnows(h)'
  <2>1. CASE h # g /\ pc[h] = "idle"
    BY <1>1, <2>1 DEF GhostKnows, SameWorker
  <2> QED BY <1>6, <1>7, <2>1
<1> QED BY <1>3, <1>5, <1>8 DEF MemoInv

(* A worker that misses notes the time and opens its file. *)
LEMMA OpenKeeps ==
  ASSUME MemoInv, StatTypes', NEW g \in Workers, Miss(g) \/ (Open(g) /\ ~Rest(g))
  PROVE  MemoInv'
<1>1. /\ StatTypes /\ file' = file /\ clock' = clock /\ pc[g] # "idle"
      /\ UNCHANGED <<memo, pending, disk, at, info, since>>
      /\ pc'[g] = "open" \/ (/\ pc'[g] = "reading" /\ file[at[g]] # Absent
                             /\ read'[g] = {file[at[g]].content})
      /\ \A h \in Workers : h # g => SameWorker(h)
  BY DEF MemoInv, StatTypes, WorkTypes, Miss, Open, storeVars, diskVars, SameWorker
<1>2. \A k \in Files : Recorded(k)' = Recorded(k)
  BY <1>1 DEF Recorded
<1>3. EntriesTrue'
  BY <1>1, <1>2 DEF EntriesTrue, MemoInv, WellMade, TrueOf
<1>4. \A h \in Workers : SettledRead(h)' =>
        \/ h # g /\ SettledRead(h) /\ SameWorker(h)
        \/ h = g /\ file[at[g]] # Absent /\ read'[g] = {file[at[g]].content}
  BY <1>1 DEF SettledRead, SameWorker
<1>5. ASSUME NEW h \in Workers PROVE ReadTrue(h)'
  <2>1. ReadTrue(h)
    BY DEF MemoInv
  <2> QED BY <1>1, <1>4, <2>1 DEF ReadTrue, SameWorker
<1>6. ASSUME NEW h \in Workers, pc'[h] # "idle" PROVE GhostKnows(h)'
  <2>1. GhostKnows(h) /\ at[h] \in Files /\ pc[h] # "idle"
    BY <1>1, <1>6 DEF MemoInv, StatTypes, WorkTypes, SameWorker
  <2>2. PICK k \in Files : k = at[h] /\ k = at'[h]
    BY <1>1, <2>1
  <2>3. ASSUME NEW i \in Workers, SettledRead(i)', at[i] = at[h], info[i].mod = info[h].mod,
               NEW c \in read'[i]
        PROVE  \E v \in since[h] : v[2] = c
    <3>1. CASE i # g
      BY <1>4, <2>1, <2>3, <3>1 DEF GhostKnows, SameWorker
    <3>2. CASE i = g
      <4>1. ValueOf(file[at[h]]) \in since[h] /\ c = file[at[h]].content
        BY <1>4, <2>1, <2>3, <3>2 DEF GhostKnows
      <4>2. ValueOf(file[at[h]])[2] = c
        BY <4>1 DEF ValueOf
      <4> QED BY <4>1, <4>2
    <3> QED BY <3>1, <3>2
  <2>4. \A e \in Recorded(k)' :
          e # Absent /\ Settled(e) /\ e.stat.mod = info'[h].mod
            => \A v : since'[h] = {v} => e.value[2] = v[2]
    BY <1>1, <1>2, <2>1, <2>2 DEF GhostKnows
  <2> QED BY <1>1, <2>1, <2>2, <2>3, <2>4 DEF GhostKnows, Recorded
<1>7. \A h \in Workers : GhostKnows(h)'
  BY <1>6 DEF GhostKnows
<1> QED BY <1>3, <1>5, <1>7 DEF MemoInv

(* A worker records what it read, under the stat its walk took. *)
LEMMA StoreKeeps ==
  ASSUME MemoInv, StatTypes', NEW g \in Workers, Store(g) PROVE MemoInv'
<1>1. /\ StatTypes /\ file' = file /\ clock' = clock /\ clock \in Nat
      /\ UNCHANGED <<pending, disk>> /\ pc[g] = "reading" /\ pc'[g] = "idle"
      /\ at[g] \in Files /\ info[g] \in Stats /\ SessionOf[g] \in Sessions
      /\ hashedAt[g] \in Nat /\ hashedAt[g] <= clock /\ read[g] # {} /\ read[g] \subseteq Contents
      /\ \A h \in Workers : h # g => SameWorker(h)
  BY DEF MemoInv, StatTypes, FileTypes, WorkTypes, Store, Rest, diskVars, SameWorker
<1>2. PICK c \in ReadBy(g) :
        memo' = [memo EXCEPT ![SessionOf[g]][at[g]] =
          [stat |-> info[g], value |-> <<info[g].mode, c>>, hashedAt |-> hashedAt[g]]]
  BY DEF Store, Stamp
<1> DEFINE new == [stat |-> info[g], value |-> <<info[g].mode, c>>, hashedAt |-> hashedAt[g]]
<1>3. /\ new.stat = info[g] /\ new.value[1] = info[g].mode /\ new.value[2] = c
      /\ new.hashedAt = hashedAt[g]
  OBVIOUS
<1>4. \A k \in Files : \A e : e \in Recorded(k)' =>
        e \in Recorded(k) \/ (k = at[g] /\ e = new)
  <2> SUFFICES ASSUME NEW k \in Files, NEW e, e \in Recorded(k)'
               PROVE  e \in Recorded(k) \/ (k = at[g] /\ e = new)
    OBVIOUS
  <2>1. CASE e \in {memo'[s][k] : s \in Sessions}
    <3>1. PICK s \in Sessions : e = memo'[s][k]
      BY <2>1
    <3>2. memo[s] \in Memos /\ memo \in [Sessions -> Memos]
      BY <1>1 DEF StatTypes, StoreTypes
    <3>3. memo'[s][k] = IF s = SessionOf[g] /\ k = at[g] THEN new ELSE memo[s][k]
      BY <1>1, <1>2, <3>2 DEF Memos
    <3> QED BY <3>1, <3>3 DEF Recorded
  <2> QED BY <1>1, <2>1 DEF Recorded
<1> HIDE DEF new
<1>5. SettledRead(g) <=> Settled(new)
  BY <1>1, <1>3 DEF SettledRead, Settled
<1>6. ASSUME NEW d, read[g] = {d} PROVE c = d
  BY <1>2, <1>6, ReadOne
<1>7. ASSUME NEW k \in Files, NEW e \in Recorded(k)' PROVE WellMade(e)' /\ TrueOf(e, k)'
  <2>1. CASE e \in Recorded(k)
    BY <1>1, <2>1 DEF MemoInv, EntriesTrue, WellMade, TrueOf
  <2>2. CASE k = at[g] /\ e = new
    <3>1. ReadTrue(g)
      BY DEF MemoInv
    <3>2. WellMade(e)'
      BY <1>1, <1>3, <2>2 DEF WellMade
    <3>3. ASSUME Settled(e), file[k] # Absent, e.stat.mod = file[k].mod
          PROVE  e.value[2] = file[k].content
      <4>1. read[g] = {file[k].content}
        BY <1>3, <1>5, <2>2, <3>1, <3>3 DEF ReadTrue
      <4> QED BY <1>3, <1>6, <2>2, <4>1
    <3> QED BY <1>1, <3>2, <3>3 DEF TrueOf
  <2> QED BY <1>4, <2>1, <2>2
<1>8. \A h \in Workers : SettledRead(h)' => h # g /\ SettledRead(h) /\ SameWorker(h)
  BY <1>1 DEF SettledRead, SameWorker
<1>9. ASSUME NEW h \in Workers PROVE ReadTrue(h)'
  <2>1. ReadTrue(h)
    BY DEF MemoInv
  <2> QED BY <1>1, <1>8, <2>1 DEF ReadTrue, SameWorker
<1>10. ASSUME NEW h \in Workers, pc'[h] # "idle" PROVE GhostKnows(h)'
  <2>1. /\ GhostKnows(h) /\ SameWorker(h) /\ at[h] \in Files /\ pc[h] # "idle"
        /\ since[h] \subseteq Modes \X Contents
    BY <1>1, <1>10 DEF MemoInv, StatTypes, WorkTypes, SameWorker
  <2>2. PICK k \in Files : k = at[h] /\ k = at'[h]
    BY <2>1 DEF SameWorker
  <2>3. \A i \in Workers :
          SettledRead(i)' /\ at'[i] = at'[h] /\ info'[i].mod = info'[h].mod
            => \A d \in read'[i] : \E v \in since'[h] : v[2] = d
    BY <1>8, <2>1 DEF GhostKnows, SameWorker
  <2>4. ASSUME NEW e \in Recorded(k)', e # Absent, Settled(e), e.stat.mod = info[h].mod,
               NEW v, since[h] = {v}
        PROVE  e.value[2] = v[2]
    <3>1. CASE e \in Recorded(k)
      BY <2>1, <2>2, <2>4, <3>1 DEF GhostKnows
    <3>2. CASE k = at[g] /\ e = new
      <4>1. \A d \in read[g] : d = v[2]
        BY <1>3, <1>5, <2>1, <2>2, <2>4, <3>2 DEF GhostKnows
      <4>2. read[g] = {v[2]}
        BY <1>1, <4>1
      <4> QED BY <1>3, <1>6, <3>2, <4>2
    <3> QED BY <1>4, <3>1, <3>2
  <2>5. /\ file'[at'[h]] # Absent => ValueOf(file'[at'[h]]) \in since'[h]
        /\ \E v \in since'[h] : v[1] = info'[h].mode
    BY <1>1, <2>1 DEF GhostKnows, SameWorker
  <2> QED BY <2>1, <2>2, <2>3, <2>4, <2>5 DEF GhostKnows, SameWorker, Recorded, ValueOf
<1>11. \A h \in Workers : GhostKnows(h)'
  BY <1>10 DEF GhostKnows
<1> QED BY <1>7, <1>9, <1>11 DEF MemoInv, EntriesTrue

(* Preparing, flushing and restarting copy, keep or drop entries. *)
LEMMA AroundFewer ==
  ASSUME StatTypes, Around, NEW f \in Files, NEW e, e \in Recorded(f)'
  PROVE  e \in Recorded(f) \cup {Absent}
<1> USE DEF diskVars, storeVars
<1>0. /\ memo \in [Sessions -> Memos] /\ pending \in [Sessions -> Memos]
      /\ disk \in [{0, 1} -> Records \cup {Absent}]
      /\ NoEntries[f] = Absent /\ StoreTypes
  BY DEF StatTypes, StoreTypes, NoEntries
<1>1. CASE UNCHANGED <<memo, pending, disk>>
  BY <1>1 DEF Recorded
<1>2. ASSUME NEW s \in Sessions, Prepare(s) \/ PrepareShard(s)
      PROVE  e \in Recorded(f) \cup {Absent}
  <2>1. PICK i \in {0, 1} :
          memo' = [memo EXCEPT ![s] = IF disk[i] = Absent THEN @ ELSE Loaded(@, disk[i].entries)]
    BY <1>2 DEF Prepare, PrepareShard
  <2>2. UNCHANGED <<pending, disk>>
    BY <1>2 DEF Prepare, PrepareShard
  <2>3. memo'[s][f] \in Recorded(f)
    <3>1. CASE disk[i] = Absent
      BY <1>0, <2>1, <3>1 DEF Recorded
    <3>2. CASE disk[i] # Absent
      <4>1. Loaded(memo[s], disk[i].entries)[f] \in {memo[s][f], disk[i].entries[f]}
        BY <1>0, <3>2, LoadedFrom
      <4> QED BY <1>0, <2>1, <3>2, <4>1 DEF Recorded
    <3> QED BY <3>1, <3>2
  <2>4. \A t \in Sessions : t # s => memo'[t] = memo[t]
    BY <1>0, <2>1
  <2> QED BY <2>2, <2>3, <2>4 DEF Recorded
<1>3. ASSUME NEW s \in Sessions, Flush(s) PROVE e \in Recorded(f) \cup {Absent}
  <2>1. Kept(s)[f] \in {memo[s][f], Absent}
    BY <1>0, KeptFrom
  <2>2. /\ UNCHANGED <<memo, disk>>
        /\ pending' = [pending EXCEPT ![s] = IF store[s] = "new" THEN @ ELSE Kept(s)]
    BY <1>3 DEF Flush
  <2>3. \A t \in Sessions : pending'[t][f] \in {pending[t][f], memo[t][f], Absent}
    BY <1>0, <2>1, <2>2
  <2> QED BY <2>2, <2>3 DEF Recorded
<1>4. ASSUME NEW s \in Sessions, FlushOne(s) \/ FlushFirst(s)
      PROVE  e \in Recorded(f) \cup {Absent}
  <2>1. PICK i \in {0, 1} : Record(s, i)
    BY <1>4 DEF FlushOne, FlushFirst
  <2>2. UNCHANGED <<memo, pending>>
    BY <1>4 DEF FlushOne, FlushFirst
  <2>3. Shard(s, i).entries[f] \in {pending[s][f], Absent}
    BY <1>0, ShardFrom
  <2>4. \A j \in {0, 1} : disk'[j] = disk[j] \/ disk'[j] = Shard(s, i)
    BY <1>0, <2>1 DEF Record
  <2> QED BY <2>2, <2>3, <2>4 DEF Recorded
<1>5. ASSUME NEW s \in Sessions, Tidy(s) \/ Restart(s) PROVE e \in Recorded(f) \cup {Absent}
  <2>1. \A j \in {0, 1} : disk'[j] = disk[j] \/ disk'[j] = Absent
    BY <1>0, <1>5 DEF Tidy, Restart
  <2>2. \A t \in Sessions : /\ memo'[t][f] \in {memo[t][f], Absent}
                            /\ pending'[t][f] \in {pending[t][f], Absent}
    BY <1>0, <1>5 DEF Tidy, Restart
  <2> QED BY <2>1, <2>2 DEF Recorded
<1> QED BY <1>1, <1>2, <1>3, <1>4, <1>5 DEF Around, Tick, vars

(* So none of them makes an entry or a read untrue. *)
LEMMA AroundKeeps == ASSUME MemoInv, StatTypes', Around PROVE MemoInv'
<1>1. StatTypes /\ file' = file /\ clock <= clock'
  BY DEF MemoInv, StatTypes, FileTypes, Around, Tick, Prepare, PrepareShard, Flush, FlushOne,
         FlushFirst, Tidy, Restart, vars
<1>2. \A g \in Workers : pc'[g] = "idle" \/ SameWorker(g)
  <2>1. ASSUME NEW s \in Sessions, Restart(s)
        PROVE  \A g \in Workers : pc'[g] = "idle" \/ SameWorker(g)
    BY <1>1, <2>1, RestartWork DEF StatTypes, SameWorker
  <2>2. CASE UNCHANGED workVars
    BY <2>2 DEF workVars, SameWorker
  <2> QED
    BY <2>1, <2>2 DEF Around, Tick, Prepare, PrepareShard, Flush, FlushOne, FlushFirst, Tidy, vars
<1> QED BY <1>1, <1>2, AroundFewer, FewerKeep

(* A worker that is done rests, with nothing recorded. *)
LEMMA RestKeeps ==
  ASSUME MemoInv, StatTypes', NEW g \in Workers, Rest(g), UNCHANGED <<clock, file, memo, diskVars>>
  PROVE  MemoInv'
<1>1. clock <= clock'
  BY DEF MemoInv, StatTypes, FileTypes
<1>2. \A h \in Workers : pc'[h] = "idle" \/ SameWorker(h)
  BY DEF MemoInv, StatTypes, WorkTypes, Rest, SameWorker
<1>3. \A f \in Files : \A e : e \in Recorded(f)' => e \in Recorded(f) \cup {Absent}
  BY DEF Recorded, diskVars
<1> QED BY <1>1, <1>2, <1>3, FewerKeep

(* Files have what they were made with, and nobody has recorded anything. *)
LEMMA MemoInit == Init => MemoInv
<1> SUFFICES ASSUME Init PROVE MemoInv
  OBVIOUS
<1>1. \A f \in Files : Recorded(f) \subseteq {Absent}
  BY DEF Init, Recorded, NoEntries
<1>2. EntriesTrue
  BY <1>1 DEF EntriesTrue, WellMade, TrueOf
<1>3. \A g \in Workers : ReadTrue(g) /\ GhostKnows(g)
  BY DEF Init, ReadTrue, SettledRead, GhostKnows
<1> QED BY <1>2, <1>3, TypesInit DEF MemoInv

(* Every change of a file, step of a worker or step of a session keeps the invariant. *)
LEMMA MemoStep == MemoInv /\ [Next]_vars => MemoInv'
<1> SUFFICES ASSUME MemoInv, [Next]_vars PROVE MemoInv'
  OBVIOUS
<1>0. StatTypes
  BY DEF MemoInv
<1>1. ASSUME NEW f \in Files, Write(f) \/ Chmod(f) \/ Remove(f) PROVE MemoInv'
  <2>1. PICK x \in [content : Contents, mode : Modes, mod : Nat] \cup {Absent} :
          /\ Change(f, x)
          /\ \/ x = Absent
             \/ x # Absent /\ x.mod \in Stamps(clock)
             \/ /\ x # Absent /\ file[f] # Absent
                /\ x.content = file[f].content /\ x.mod = file[f].mod
    BY <1>0, <1>1, ChangedFile
  <2>2. StatTypes'
    BY <1>0, <2>1, ChangeTypes
  <2> QED BY <2>1, <2>2, ChangeKeeps
<1>2. ASSUME NEW g \in Workers,
             (\E f \in Files : Walk(g, f)) \/ Hit(g) \/ Miss(g) \/ Open(g) \/ Store(g)
      PROVE  MemoInv'
  <2>1. StatTypes'
    BY <1>0, <1>2, WorkStepTypes
  <2>2. CASE Rest(g) /\ ~Store(g)
    <3>1. UNCHANGED <<clock, file, memo, diskVars>>
      BY <1>2, <2>2 DEF Walk, Hit, Miss, Open, storeVars
    <3> QED BY <2>1, <2>2, <3>1, RestKeeps
  <2> QED BY <1>2, <2>1, <2>2, WalkKeeps, OpenKeeps, StoreKeeps DEF Hit
<1>3. CASE Around
  BY <1>0, <1>3, AroundTypes, AroundKeeps
<1> QED BY <1>1, <1>2, <1>3 DEF Next, Around, Ended

(* The invariant holds in every state a behaviour reaches. *)
LEMMA MemoAlways == Spec => []MemoInv
  BY MemoInit, MemoStep, PTL DEF Spec

-----------------------------------------------------------------------------
(***************************************************************************)
(* statcache.go:62-73: an entry that is not racy and has the file's stat   *)
(* has its content, in memory, in a flush and in every record, for any     *)
(* timestamps no coarser than the racy window, any number of goroutines,   *)
(* processes that die and records that fail to be written.                 *)
(***************************************************************************)
THEOREM TrustedEntries == Spec => []TrustedIsCurrent
<1>1. MemoInv => TrustedIsCurrent
  <2> SUFFICES ASSUME MemoInv PROVE TrustedIsCurrent
    OBVIOUS
  <2>1. ASSUME NEW f \in Files, NEW e \in Recorded(f) PROVE ~Lies(e, f)
    <3> SUFFICES ASSUME e # Absent, file[f] # Absent, e.stat = StatOf(f), Settled(e)
                 PROVE  e.value = ValueOf(file[f])
      BY DEF Lies
    <3>1. e \in Entries
      BY <2>1, RecordedTypes DEF MemoInv
    <3>2. e.value[1] = file[f].mode /\ e.value[2] = file[f].content
      BY <2>1 DEF MemoInv, EntriesTrue, WellMade, TrueOf, StatOf
    <3> QED BY <3>1, <3>2 DEF Entries, Values, ValueOf
  <2> QED BY <2>1 DEF TrustedIsCurrent, Recorded
<1> QED BY <1>1, MemoAlways, PTL

(***************************************************************************)
(* What a lookup serves is what the file holds, unless the file changed    *)
(* since the walk that took its stat: also when another goroutine or       *)
(* another process stored the entry, from a stat and a read of its own     *)
(* (statStore.lookup, statcache.go).                                       *)
(***************************************************************************)
THEOREM ServedEntries == Spec => ServedIsThere
<1> DEFINE Served ==
      \A g \in Workers :
        pc[g] = "walked" /\ pc'[g] = "idle" /\ runs' = runs /\ Cardinality(since[g]) = 1 =>
          memo[SessionOf[g]][at[g]].value \in since[g]
<1>1. ASSUME MemoInv, Next PROVE Served
  <2> SUFFICES ASSUME NEW g \in Workers, pc[g] = "walked", pc'[g] = "idle", runs' = runs,
                      Cardinality(since[g]) = 1
               PROVE  memo[SessionOf[g]][at[g]].value \in since[g]
    OBVIOUS
  <2>1. /\ GhostKnows(g) /\ at[g] \in Files /\ info[g] \in Stats /\ SessionOf[g] \in Sessions
        /\ since[g] \subseteq Modes \X Contents /\ IsFiniteSet(since[g])
    BY <1>1 DEF MemoInv, StatTypes, WorkTypes
  <2>2. Hit(g)
    <3>1. ASSUME NEW f \in Files, Write(f) \/ Chmod(f) \/ Remove(f) PROVE pc' = pc
      BY <3>1 DEF Write, Chmod, Remove, Change
    <3>2. ASSUME NEW h \in Workers, NEW f \in Files, Walk(h, f) PROVE pc'[g] # "idle"
      BY <3>2, <1>1 DEF Walk, MemoInv, StatTypes, WorkTypes
    <3>3. ASSUME NEW h \in Workers, Hit(h) \/ Miss(h) \/ Open(h) \/ Store(h) PROVE Hit(g)
      BY <3>3, <1>1 DEF Hit, Miss, Open, Store, Rest, MemoInv, StatTypes, WorkTypes
    <3>4. ASSUME NEW s \in Sessions PROVE ~Restart(s)
      <4>1. runs \in Nat
        BY <1>1 DEF MemoInv, StatTypes, FileTypes
      <4> QED BY <4>1 DEF Restart
    <3>5. ASSUME NEW s \in Sessions, Prepare(s) \/ PrepareShard(s) \/ Flush(s) \/ FlushOne(s)
                 \/ FlushFirst(s) \/ Tidy(s)
          PROVE  pc' = pc
      BY <3>5 DEF Prepare, PrepareShard, Flush, FlushOne, FlushFirst, Tidy, workVars
    <3>6. CASE Tick \/ Ended
      BY <3>6 DEF Tick, Ended, vars, workVars
    <3> QED BY <1>1, <3>1, <3>2, <3>3, <3>4, <3>5, <3>6 DEF Next
  <2> DEFINE e == memo[SessionOf[g]][at[g]]
  <2>3. e \in Recorded(at[g]) /\ e # Absent /\ e.stat = info[g] /\ Settled(e)
    BY <2>1, <2>2 DEF Hit, Serves, Recorded
  <2>4. e \in Entries /\ e.value[1] = info[g].mode
    BY <1>1, <2>1, <2>3, RecordedTypes DEF MemoInv, EntriesTrue, WellMade
  <2>5. PICK v \in since[g] : v[1] = info[g].mode
    BY <2>1, <2>2 DEF GhostKnows
  <2>6. since[g] = {v}
    <3>1. PICK w : since[g] = {w}
      BY <2>1, FS_Singleton
    <3> QED BY <2>5, <3>1
  <2>7. e.value[2] = v[2]
    BY <2>1, <2>2, <2>3, <2>6 DEF GhostKnows
  <2> HIDE DEF e
  <2>8. e.value = v
    BY <2>1, <2>4, <2>5, <2>7 DEF Entries, Values
  <2> QED BY <2>5, <2>8 DEF e
<1>2. MemoInv /\ [Next]_vars => [Served]_vars
  BY <1>1
<1> HIDE DEF Served
<1>3. Spec => [][Served]_vars
  BY <1>2, MemoAlways, PTL DEF Spec
<1> QED BY <1>3 DEF ServedIsThere, Served

-----------------------------------------------------------------------------
(***************************************************************************)
(* The shards, for one process at a time and until a record fails to be    *)
(* written.  The count of shard 0 leads to shard 1, also while a flush is  *)
(* between its records: it has written shard 1 before shard 0 counts it,   *)
(* and removes it only when shard 0 no longer does.                        *)
(***************************************************************************)
ShardsInv ==
  ~failed =>
    /\ disk[0] # Absent /\ disk[0].count = 2 => disk[1] # Absent
    /\ \A s \in Sessions :
         /\ store[s] = "one" => ShardCount(pending[s]) = 2
         /\ store[s] = "first" /\ ShardCount(pending[s]) = 2 => disk[1] # Absent
         /\ store[s] = "tidy" => disk[0] # Absent /\ disk[0].count = ShardCount(pending[s])

(* Nothing is recorded at the start. *)
LEMMA ShardsInit == Init => ShardsInv
  BY DEF Init, ShardsInv

(* Each record of a flush keeps what the other one counts on. *)
LEMMA ShardsStep ==
  ASSUME \A s, t \in Sessions : s = t, StatTypes, ShardsInv, [Next]_vars
  PROVE  ShardsInv'
<1> USE DEF storeVars, diskVars
<1>0. /\ pending \in [Sessions -> Memos] /\ disk \in [{0, 1} -> Records \cup {Absent}]
      /\ DOMAIN store = Sessions /\ StoreTypes
  BY DEF StatTypes, StoreTypes
<1>1. CASE UNCHANGED <<store, disk, pending, failed>>
  BY <1>1 DEF ShardsInv
<1>2. ASSUME NEW s \in Sessions, Prepare(s) \/ PrepareShard(s) PROVE ShardsInv'
  BY <1>0, <1>2 DEF Prepare, PrepareShard, ShardsInv
<1>3. ASSUME NEW s \in Sessions, Flush(s) PROVE ShardsInv'
  <2>1. UNCHANGED <<disk, failed>>
    BY <1>3 DEF Flush
  <2>2. \/ store'[s] = "flushed"
        \/ /\ pending'[s] = Kept(s)
           /\ store'[s] = IF ShardCount(Kept(s)) = 2 THEN "one" ELSE "first"
    BY <1>0, <1>3 DEF Flush
  <2>3. \A t \in Sessions : t = s
    OBVIOUS
  <2> QED BY <2>1, <2>2, <2>3 DEF ShardsInv
<1>4. ASSUME NEW s \in Sessions, FlushOne(s), ~failed' PROVE ShardsInv'
  <2>1. /\ disk' = [disk EXCEPT ![1] = Shard(s, 1)] /\ UNCHANGED <<pending, failed>>
        /\ store[s] = "one" /\ store'[s] = "first"
    BY <1>0, <1>4 DEF FlushOne, Record
  <2>2. disk'[1] # Absent /\ disk'[0] = disk[0]
    BY <1>0, <2>1, ShardFrom, AbsentAssumption
  <2>3. \A t \in Sessions : t = s
    OBVIOUS
  <2> QED BY <2>1, <2>2, <2>3 DEF ShardsInv
<1>5. ASSUME NEW s \in Sessions, FlushFirst(s), ~failed' PROVE ShardsInv'
  <2>1. /\ disk' = [disk EXCEPT ![0] = Shard(s, 0)] /\ UNCHANGED <<pending, failed>>
        /\ store[s] = "first" /\ store'[s] = "tidy" /\ ~failed
    BY <1>0, <1>5 DEF FlushFirst, Record
  <2>2. disk'[0] # Absent /\ disk'[0].count = ShardCount(pending[s]) /\ disk'[1] = disk[1]
    BY <1>0, <2>1, ShardFrom, AbsentAssumption
  <2>3. \A t \in Sessions : t = s
    OBVIOUS
  <2> QED BY <2>1, <2>2, <2>3 DEF ShardsInv
<1>6. ASSUME NEW s \in Sessions, Tidy(s) PROVE ShardsInv'
  <2>1. /\ disk' = IF ShardCount(pending[s]) = 1 THEN [disk EXCEPT ![1] = Absent] ELSE disk
        /\ store[s] = "tidy" /\ store'[s] = "flushed" /\ failed' = failed
    BY <1>0, <1>6 DEF Tidy
  <2>2. \A t \in Sessions : t = s
    OBVIOUS
  <2> QED BY <1>0, <2>1, <2>2 DEF ShardsInv
<1>7. ASSUME NEW s \in Sessions, Restart(s) PROVE ShardsInv'
  BY <1>0, <1>7 DEF Restart, ShardsInv
<1>8. failed' => ShardsInv'
  BY DEF ShardsInv
<1>9. ASSUME NEW f \in Files, Write(f) \/ Chmod(f) \/ Remove(f)
      PROVE  UNCHANGED <<store, disk, pending, failed>>
  BY <1>9 DEF Write, Chmod, Remove, Change
<1>10. ASSUME NEW g \in Workers,
              (\E f \in Files : Walk(g, f)) \/ Hit(g) \/ Miss(g) \/ Open(g) \/ Store(g)
       PROVE  UNCHANGED <<store, disk, pending, failed>>
  BY <1>10 DEF Walk, Hit, Miss, Open, Store
<1> QED
  BY <1>1, <1>2, <1>3, <1>4, <1>5, <1>6, <1>7, <1>8, <1>9, <1>10 DEF Next, Tick, Ended, vars

(***************************************************************************)
(* statcache.go:244-245: shard 0 is written last, so that its count never  *)
(* leads a reader to a shard that is not there; for one process at a time, *)
(* wherever it dies, until a record fails to be written.                   *)
(***************************************************************************)
THEOREM CountedShards ==
  ASSUME \A s, t \in Sessions : s = t
  PROVE  Spec => []CountedShardsExist
<1>1. StatTypes /\ ShardsInv /\ [Next]_vars => ShardsInv'
  BY ShardsStep
<1>2. MemoInv => StatTypes
  BY DEF MemoInv
<1>3. ShardsInv => CountedShardsExist
  BY DEF ShardsInv, CountedShardsExist
<1> QED BY <1>1, <1>2, <1>3, ShardsInit, MemoAlways, PTL DEF Spec
================================================================================
