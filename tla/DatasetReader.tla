---------------------------- MODULE DatasetReader ----------------------------
(***************************************************************************)
(* The Dataset Explorer's reader (backend/app/dataset_reader.py): threads  *)
(* of the backend call query() and summary() on one cached copy of the     *)
(* derived CSV, which is reloaded under a lock when the file's mtime       *)
(* changes, while the history-backfill Job replaces the file.              *)
(*                                                                         *)
(* A version number stands for the content of the file and for its mtime;  *)
(* 0 is "no file" and "no rows".  Each access of a cached attribute is a   *)
(* step: that is where CPython may switch threads.                         *)
(***************************************************************************)
EXTENDS Integers

CONSTANTS
    Callers,        \* the threads of the backend's pool
    Nobody,         \* the lock is free
    NoSummary,      \* no summary is cached
    First,          \* the version present when the backend starts (0: none)
    Last,           \* bound: the newest version the Job writes
    MaxVanish       \* bound: how often the file is deleted

ASSUME ReaderAssumption ==
    /\ Nobody \notin Callers
    /\ First \in {0, 1} /\ Last \in Nat \ {0}
    /\ MaxVanish \in Nat
    /\ NoSummary \notin Nat

VARIABLES
    file,       \* the version on the volume
    newest,     \* the newest version ever written
    vanished,
    \* the reader's attributes
    lock,
    loaded,     \* _loaded_mtime
    rows, ts,   \* _rows, _ts: the versions they were parsed from
    summary,    \* _summary: the version it was computed from
    \* the calls
    pc,
    op,         \* "query" or "summary"
    mtime,      \* the local variable
    got,        \* the rows and timestamps the call works with
    answer,     \* what summary() returns
    \* history, for the properties
    began,      \* the file's version when the call began
    late,       \* the cached summary is of rows that had been replaced
    emptied     \* the calls during which a load that had found no file emptied
                \* the cache

disk   == <<file, newest, vanished>>
cache  == <<loaded, rows, ts, summary, late>>
locals == <<op, mtime, got, answer>>
vars == <<disk, lock, cache, pc, locals, began, emptied>>

Version == 0 .. Last

Init ==
    /\ file = First /\ newest = First /\ vanished = 0
    /\ lock = Nobody
    /\ loaded = 0 /\ rows = 0 /\ ts = 0 /\ summary = NoSummary /\ late = FALSE
    /\ pc = [c \in Callers |-> "idle"]
    /\ op = [c \in Callers |-> "query"]
    /\ mtime = [c \in Callers |-> 0]
    /\ got = [c \in Callers |-> [rows |-> 0, ts |-> 0]]
    /\ answer = [c \in Callers |-> NoSummary]
    /\ began = [c \in Callers |-> 0]
    /\ emptied = {}

\* The end of a call: its local variables are gone.
Return(c) ==
    /\ mtime' = [mtime EXCEPT ![c] = 0]
    /\ got' = [got EXCEPT ![c] = [rows |-> 0, ts |-> 0]]
    /\ answer' = [answer EXCEPT ![c] = NoSummary]
    /\ op' = [op EXCEPT ![c] = "query"]
    /\ began' = [began EXCEPT ![c] = 0]
    /\ emptied' = emptied \ {c}

Goto(c, from, to) == pc[c] = from /\ pc' = [pc EXCEPT ![c] = to]

-----------------------------------------------------------------------------
(* The file *)

\* history_backfill.derive: os.replace puts a new version in place at once.
Replace ==
    /\ newest < Last
    /\ newest' = newest + 1
    /\ file' = newest + 1
    /\ UNCHANGED <<vanished, lock, cache, pc, locals, began, emptied>>

Vanish ==
    /\ file # 0
    /\ vanished < MaxVanish
    /\ vanished' = vanished + 1
    /\ file' = 0
    /\ UNCHANGED <<newest, lock, cache, pc, locals, began, emptied>>

-----------------------------------------------------------------------------
(* _current() *)

\* A load that found no file has begun to store its "no rows".
Emptying ==
    \E d \in Callers : mtime[d] = 0 /\ pc[d] \in {"setTs", "setSummary", "setLoaded"}

Call(c) ==
    /\ Goto(c, "idle", "stat")
    /\ \E o \in {"query", "summary"} : op' = [op EXCEPT ![c] = o]
    /\ began' = [began EXCEPT ![c] = file]
    /\ emptied' = IF Emptying THEN emptied \cup {c} ELSE emptied
    /\ UNCHANGED <<disk, lock, cache, mtime, got, answer>>

Stat(c) ==
    /\ Goto(c, "stat", "check")
    /\ mtime' = [mtime EXCEPT ![c] = file]
    /\ UNCHANGED <<disk, lock, cache, op, got, answer, began, emptied>>

\* Mutant of Check: what has been loaded once is good enough.
CheckLoadedOnce(c) ==
    /\ Goto(c, "check", IF loaded # 0 \/ mtime[c] = loaded THEN "takeRows" ELSE "lock")
    /\ UNCHANGED <<disk, lock, cache, locals, began, emptied>>

\* The cache is looked at without the lock.
Check(c) ==
    /\ Goto(c, "check", IF mtime[c] = loaded THEN "takeRows" ELSE "lock")
    /\ UNCHANGED <<disk, lock, cache, locals, began, emptied>>

\* Mutant of Lock: the lock does not exclude.
LockShared(c) ==
    /\ Goto(c, "lock", IF mtime[c] = loaded THEN "takeRows" ELSE "open")
    /\ lock' = c
    /\ UNCHANGED <<disk, cache, locals, began, emptied>>

\* with self._lock: and a second look.
Lock(c) ==
    /\ lock = Nobody
    /\ lock' = c
    /\ Goto(c, "lock", IF mtime[c] = loaded THEN "takeRows" ELSE "open")
    /\ UNCHANGED <<disk, cache, locals, began, emptied>>

\* Mutant of OpenFails: acquire() without a finally.
OpenFailsLocked(c) ==
    /\ mtime[c] # 0 /\ file = 0
    /\ Goto(c, "open", "idle")
    /\ Return(c)
    /\ UNCHANGED <<disk, lock, cache>>

\* The file was there for stat and is not for open: the exception leaves.
OpenFails(c) ==
    /\ mtime[c] # 0 /\ file = 0
    /\ Goto(c, "open", "idle")
    /\ Return(c)
    /\ lock' = Nobody
    /\ UNCHANGED <<disk, cache>>

\* The file as it is when opened is parsed, which may be newer than mtime;
\* a file that stat did not find reads as no rows.
Parse(c) ==
    /\ ~(mtime[c] # 0 /\ file = 0)
    /\ Goto(c, "open", "setRows")
    /\ got' = [got EXCEPT ![c].rows = IF mtime[c] = 0 THEN 0 ELSE file]
    /\ UNCHANGED <<disk, lock, cache, op, mtime, answer, began, emptied>>

\* The four assignments that end a load.
SetRows(c) ==
    /\ Goto(c, "setRows", "setTs")
    /\ rows' = got[c].rows
    /\ emptied' = IF mtime[c] = 0 THEN {d \in Callers : pc[d] # "idle"} ELSE emptied
    /\ UNCHANGED <<disk, lock, loaded, ts, summary, late, locals, began>>

SetTs(c) ==
    /\ Goto(c, "setTs", "setSummary")
    /\ ts' = got[c].rows
    /\ UNCHANGED <<disk, lock, loaded, rows, summary, late, locals, began, emptied>>

\* Mutant of SetSummary: the summary outlives its rows.
SetSummaryNot(c) ==
    /\ Goto(c, "setSummary", "setLoaded")
    /\ late' = FALSE
    /\ UNCHANGED <<disk, lock, loaded, rows, ts, summary, locals, began, emptied>>

SetSummary(c) ==
    /\ Goto(c, "setSummary", "setLoaded")
    /\ summary' = NoSummary /\ late' = FALSE
    /\ UNCHANGED <<disk, lock, loaded, rows, ts, locals, began, emptied>>

SetLoaded(c) ==
    /\ Goto(c, "setLoaded", "takeRows")
    /\ loaded' = mtime[c]
    /\ UNCHANGED <<disk, lock, rows, ts, summary, late, locals, began, emptied>>

\* return self._rows, self._ts: with the lock, if the call has it.
TakeRows(c) ==
    /\ Goto(c, "takeRows", "takeTs")
    /\ got' = [got EXCEPT ![c].rows = rows]
    /\ UNCHANGED <<disk, lock, cache, op, mtime, answer, began, emptied>>

TakeTs(c) ==
    /\ Goto(c, "takeTs", IF op[c] = "query" THEN "queried" ELSE "look")
    /\ got' = [got EXCEPT ![c].ts = ts]
    /\ lock' = IF lock = c THEN Nobody ELSE lock
    /\ UNCHANGED <<disk, cache, op, mtime, answer, began, emptied>>

-----------------------------------------------------------------------------
(* query() and summary() with what _current returned *)

\* query scans rows from the place ts gives and returns.
Query(c) ==
    /\ Goto(c, "queried", "idle")
    /\ Return(c)
    /\ UNCHANGED <<disk, lock, cache>>

Look(c) ==
    /\ Goto(c, "look", IF summary # NoSummary THEN "fetch" ELSE "compute")
    /\ UNCHANGED <<disk, lock, cache, locals, began, emptied>>

\* The summary of the rows the call holds is cached, without the lock.
Compute(c) ==
    /\ Goto(c, "compute", "fetch")
    /\ summary' = got[c].rows /\ late' = (got[c].rows # rows)
    /\ UNCHANGED <<disk, lock, loaded, rows, ts, locals, began, emptied>>

\* return self._summary: the attribute is read once more.
Fetch(c) ==
    /\ Goto(c, "fetch", "summarised")
    /\ answer' = [answer EXCEPT ![c] = summary]
    /\ UNCHANGED <<disk, lock, cache, op, mtime, got, began, emptied>>

Summarise(c) ==
    /\ Goto(c, "summarised", "idle")
    /\ Return(c)
    /\ UNCHANGED <<disk, lock, cache>>

\* What a call does from its first step on.
Proceed(c) ==
    \/ Stat(c) \/ Check(c) \/ Lock(c)
    \/ OpenFails(c) \/ Parse(c)
    \/ SetRows(c) \/ SetTs(c) \/ SetSummary(c) \/ SetLoaded(c)
    \/ TakeRows(c) \/ TakeTs(c)
    \/ Query(c) \/ Look(c) \/ Compute(c) \/ Fetch(c) \/ Summarise(c)

Next ==
    \/ Replace \/ Vanish
    \/ \E c \in Callers : Call(c) \/ Proceed(c)

Spec == Init /\ [][Next]_vars

\* A thread in a call runs on; nobody has to call, or to replace the file.
FairSpec == Spec /\ \A c \in Callers : WF_vars(Proceed(c))

-----------------------------------------------------------------------------
(* Properties *)

Loading == {"open", "setRows", "setTs", "setSummary", "setLoaded"}

\* Types, and the lock: who loads holds it, and who holds it loads or takes.
TypeOK ==
    /\ {file, newest, loaded, rows, ts} \subseteq Version
    /\ vanished \in 0 .. MaxVanish
    /\ summary \in Version \cup {NoSummary}
    /\ pc \in [Callers -> Loading \cup
                  {"idle", "stat", "check", "lock", "takeRows", "takeTs",
                   "queried", "look", "compute", "fetch", "summarised"}]
    /\ op \in [Callers -> {"query", "summary"}]
    /\ mtime \in [Callers -> Version] /\ began \in [Callers -> Version]
    /\ got \in [Callers -> [rows : Version, ts : Version]]
    /\ answer \in [Callers -> Version \cup {NoSummary}]
    /\ lock \in Callers \cup {Nobody}
    /\ emptied \subseteq Callers
    /\ \A c \in Callers : pc[c] \in Loading => lock = c
    /\ lock # Nobody => pc[lock] \in Loading \cup {"takeRows", "takeTs"}

\* The cache is never believed to be newer than it is: while nobody loads,
\* a cache marked with the file's present mtime holds the file's content.
CacheIsFresh ==
    (loaded = file /\ \A c \in Callers : pc[c] \notin Loading) =>
        rows = file /\ ts = file

\* A call that finds the file works with rows and timestamps at least as new
\* as the file was when it began, whoever reloads, waits, replaces and deletes
\* in between.  Only "no rows" may stand in their place, and only where another
\* call, which had looked while there was no file, stored them meanwhile.
AnswersAreFresh ==
    \A c \in Callers : pc[c] \in {"queried", "look"} /\ mtime[c] # 0 =>
        \A version \in {got[c].rows, got[c].ts} :
            version >= began[c] \/ (version = 0 /\ c \in emptied)

\* What dataset_reader.py:27 says: it is the absent file that reads as "no
\* rows".  A call that finds the file has rows.  The code does not keep this.
OnlyAbsentIsEmpty ==
    \A c \in Callers : pc[c] \in {"queried", "look"} /\ mtime[c] # 0 =>
        got[c].rows # 0

\* Every call returns.
CallsReturn == \A c \in Callers : (pc[c] = "stat") ~> (pc[c] = "idle")

\* A cached summary is that of the present rows, or was stored by a call
\* whose rows another thread had replaced before (dataset_reader.py:128):
\* nothing else leaves an old one behind.
SummaryHasACause ==
    (~late /\ \A c \in Callers : pc[c] \notin Loading) => summary \in {NoSummary, rows}

\* What is cached is sound while nobody loads: rows, timestamps and summary.
CacheIsSound == CacheIsFresh /\ SummaryHasACause
=============================================================================
