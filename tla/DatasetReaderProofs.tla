-------------------------- MODULE DatasetReaderProofs --------------------------
(***************************************************************************)
(* Proofs about DatasetReader: the lock excludes, the cache is sound       *)
(* while nobody loads, and an answer is no older than its call.            *)
(***************************************************************************)
EXTENDS DatasetReader, TLAPS

Points == Loading \cup {"idle", "stat", "check", "lock", "takeRows", "takeTs",
                        "queried", "look", "compute", "fetch", "summarised"}

\* The load has parsed the file and is storing what it read.
Storing == {"setRows", "setTs", "setSummary", "setLoaded"}

\* No version is newer than the newest, and the file, if there, is the newest.
Versions ==
    /\ file \in {0, newest}
    /\ \A c \in Callers : mtime[c] <= newest

\* The three attributes describe one version, or one newer than the mtime.
CacheFits ==
    /\ ts = rows
    /\ loaded <= rows /\ rows <= newest
    /\ loaded = 0 => rows = 0

\* What caller c has parsed is the version stat saw, or a newer one.
ParsedFits(c) ==
    /\ mtime[c] <= got[c].rows /\ got[c].rows <= newest
    /\ mtime[c] = 0 => got[c].rows = 0

\* The attributes agree except where the one load under way stands: after each
\* of its assignments one more of them is what it parsed.
LoadInvariant ==
    /\ (\A c \in Callers : pc[c] \notin Storing) => CacheFits
    /\ \A c \in Callers : pc[c] \in Storing =>
          /\ ParsedFits(c)
          /\ pc[c] # "setRows" => rows = got[c].rows
          /\ pc[c] \in {"setSummary", "setLoaded"} => ts = got[c].rows

\* A summary kept over a load is dropped by it before the load ends.
SummaryInvariant ==
    (~late /\ \A c \in Callers : pc[c] \notin {"setTs", "setSummary"}) =>
        summary \in {NoSummary, rows}

\* A call is no newer than the newest version, and the mtime it saw is no
\* older than the file was when it began.
CallInvariant ==
    \A c \in Callers :
        /\ began[c] <= newest
        /\ mtime[c] # 0 => began[c] <= mtime[c]
        /\ pc[c] \in {"idle", "stat"} => mtime[c] = 0

\* What is stored is no older than the mtime recorded, or is being emptied; a
\* load that found the file stores no older rows than are there; and a load
\* that empties the cache is known to all calls that may meet it.
StoreInvariant ==
    /\ loaded <= newest
    /\ (loaded <= rows /\ loaded <= ts) \/ Emptying
    /\ loaded <= rows \/ rows = 0
    /\ loaded <= ts \/ ts = 0
    /\ \A d \in Callers : pc[d] \in Storing /\ mtime[d] # 0 => loaded <= got[d].rows
    /\ Emptying => \A c \in Callers : pc[c] # "idle" => c \in emptied

\* A version that caller c may take: no older than its beginning, or none at
\* all because the cache was emptied meanwhile.
Fit(c, version) == began[c] <= version \/ (version = 0 /\ c \in emptied)

\* A call that found the file takes rows and timestamps that fit it, and no
\* load under way will store others before it has them.
FreshInvariant ==
    \A c \in Callers : mtime[c] # 0 =>
        /\ pc[c] = "takeRows" => Fit(c, rows)
        /\ pc[c] \in {"takeRows", "takeTs"} =>
              /\ Fit(c, ts)
              /\ \A d \in Callers : pc[d] \in Storing /\ mtime[d] # 0 => began[c] <= got[d].rows
        /\ pc[c] \in {"takeTs", "queried", "look"} => Fit(c, got[c].rows)
        /\ pc[c] \in {"queried", "look"} => Fit(c, got[c].ts)

IInv == TypeOK /\ Versions /\ LoadInvariant /\ SummaryInvariant

-----------------------------------------------------------------------------
(* The lock, the versions and the load *)

LEMMA InitInvariant == Init => IInv
<1> SUFFICES ASSUME Init PROVE IInv
    OBVIOUS
<1> USE ReaderAssumption DEF Init
<1>1. TypeOK
      BY DEF TypeOK, Version, Loading
<1>2. Versions /\ LoadInvariant /\ SummaryInvariant
      BY DEF Versions, LoadInvariant, CacheFits, SummaryInvariant, Storing
<1>3. QED  BY <1>1, <1>2 DEF IInv

\* Types, and who holds the lock: the lock is taken only when it is free and
\* given back by the step that leaves its region.
LEMMA TypeStep == TypeOK /\ [Next]_vars => TypeOK'
<1> SUFFICES ASSUME TypeOK, [Next]_vars PROVE TypeOK'
    OBVIOUS
<1> USE ReaderAssumption
<1> USE DEF TypeOK, Version, Loading
<1>1. CASE Replace
      BY <1>1 DEF Replace, cache, locals
<1>2. CASE Vanish
      BY <1>2 DEF Vanish, cache, locals
<1>3. ASSUME NEW c \in Callers, Call(c) \/ Proceed(c) PROVE TypeOK'
  <2>1. CASE Call(c)
        BY <2>1 DEF Call, Goto, disk, cache, locals
  <2>2. CASE Stat(c)
        BY <2>2 DEF Stat, Goto, disk, cache, locals
  <2>3. CASE Check(c)
        BY <2>3 DEF Check, Goto, disk, cache, locals
  <2>4. CASE Lock(c)
        BY <2>4 DEF Lock, Goto, disk, cache, locals
  <2>5. CASE OpenFails(c)
        BY <2>5 DEF OpenFails, Goto, Return, disk, cache, locals
  <2>6. CASE Parse(c)
        BY <2>6 DEF Parse, Goto, disk, cache, locals
  <2>7. CASE SetRows(c)
        BY <2>7 DEF SetRows, Goto, disk, cache, locals
  <2>8. CASE SetTs(c)
        BY <2>8 DEF SetTs, Goto, disk, cache, locals
  <2>9. CASE SetSummary(c)
        BY <2>9 DEF SetSummary, Goto, disk, cache, locals
  <2>10. CASE SetLoaded(c)
        BY <2>10 DEF SetLoaded, Goto, disk, cache, locals
  <2>11. CASE TakeRows(c)
        BY <2>11 DEF TakeRows, Goto, disk, cache, locals
  <2>12. CASE TakeTs(c)
        BY <2>12 DEF TakeTs, Goto, disk, cache, locals
  <2>13. CASE Query(c)
        BY <2>13 DEF Query, Goto, Return, disk, cache, locals
  <2>14. CASE Look(c)
        BY <2>14 DEF Look, Goto, disk, cache, locals
  <2>15. CASE Compute(c)
        BY <2>15 DEF Compute, Goto, disk, cache, locals
  <2>16. CASE Fetch(c)
        BY <2>16 DEF Fetch, Goto, disk, cache, locals
  <2>17. CASE Summarise(c)
        BY <2>17 DEF Summarise, Goto, Return, disk, cache, locals
  <2>18. QED
        BY <1>3, <2>1, <2>2, <2>3, <2>4, <2>5, <2>6, <2>7, <2>8,
           <2>9, <2>10, <2>11, <2>12, <2>13, <2>14, <2>15, <2>16, <2>17 DEF Proceed
<1>4. CASE UNCHANGED vars
      BY <1>4 DEF vars, disk, cache, locals
<1>5. QED  BY <1>1, <1>2, <1>3, <1>4 DEF Next

\* A stat sees the newest version or none, and the newest only grows.
LEMMA VersionsStep == TypeOK /\ Versions /\ [Next]_vars => Versions'
<1> SUFFICES ASSUME TypeOK /\ Versions, [Next]_vars PROVE Versions'
    OBVIOUS
<1> USE ReaderAssumption
<1> USE DEF TypeOK, Versions, Version
<1>1. CASE Replace
      BY <1>1 DEF Replace, cache, locals
<1>2. CASE Vanish
      BY <1>2 DEF Vanish, cache, locals
<1>3. ASSUME NEW c \in Callers, Call(c) \/ Proceed(c) PROVE Versions'
  <2>1. CASE Call(c)
        BY <2>1 DEF Call, Goto, disk, cache, locals
  <2>2. CASE Stat(c)
        BY <2>2 DEF Stat, Goto, disk, cache, locals
  <2>3. CASE Check(c)
        BY <2>3 DEF Check, Goto, disk, cache, locals
  <2>4. CASE Lock(c)
        BY <2>4 DEF Lock, Goto, disk, cache, locals
  <2>5. CASE OpenFails(c)
        BY <2>5 DEF OpenFails, Goto, Return, disk, cache, locals
  <2>6. CASE Parse(c)
        BY <2>6 DEF Parse, Goto, disk, cache, locals
  <2>7. CASE SetRows(c)
        BY <2>7 DEF SetRows, Goto, disk, cache, locals
  <2>8. CASE SetTs(c)
        BY <2>8 DEF SetTs, Goto, disk, cache, locals
  <2>9. CASE SetSummary(c)
        BY <2>9 DEF SetSummary, Goto, disk, cache, locals
  <2>10. CASE SetLoaded(c)
        BY <2>10 DEF SetLoaded, Goto, disk, cache, locals
  <2>11. CASE TakeRows(c)
        BY <2>11 DEF TakeRows, Goto, disk, cache, locals
  <2>12. CASE TakeTs(c)
        BY <2>12 DEF TakeTs, Goto, disk, cache, locals
  <2>13. CASE Query(c)
        BY <2>13 DEF Query, Goto, Return, disk, cache, locals
  <2>14. CASE Look(c)
        BY <2>14 DEF Look, Goto, disk, cache, locals
  <2>15. CASE Compute(c)
        BY <2>15 DEF Compute, Goto, disk, cache, locals
  <2>16. CASE Fetch(c)
        BY <2>16 DEF Fetch, Goto, disk, cache, locals
  <2>17. CASE Summarise(c)
        BY <2>17 DEF Summarise, Goto, Return, disk, cache, locals
  <2>18. QED
        BY <1>3, <2>1, <2>2, <2>3, <2>4, <2>5, <2>6, <2>7, <2>8,
           <2>9, <2>10, <2>11, <2>12, <2>13, <2>14, <2>15, <2>16, <2>17 DEF Proceed
<1>4. CASE UNCHANGED vars
      BY <1>4 DEF vars, disk, cache, locals
<1>5. QED  BY <1>1, <1>2, <1>3, <1>4 DEF Next

\* The lock makes the load under way the only one.
LEMMA LoadStep == TypeOK /\ Versions /\ LoadInvariant /\ [Next]_vars => LoadInvariant'
<1> SUFFICES ASSUME TypeOK /\ Versions /\ LoadInvariant, [Next]_vars PROVE LoadInvariant'
    OBVIOUS
<1> USE ReaderAssumption
<1> USE DEF TypeOK, Versions, Version, Loading, Storing, LoadInvariant, CacheFits, ParsedFits
<1>1. CASE Replace
      BY <1>1 DEF Replace, cache, locals
<1>2. CASE Vanish
      BY <1>2 DEF Vanish, cache, locals
<1>3. ASSUME NEW c \in Callers, Call(c) \/ Proceed(c) PROVE LoadInvariant'
  <2>1. CASE Call(c)
        BY <2>1 DEF Call, Goto, disk, cache, locals
  <2>2. CASE Stat(c)
        BY <2>2 DEF Stat, Goto, disk, cache, locals
  <2>3. CASE Check(c)
        BY <2>3 DEF Check, Goto, disk, cache, locals
  <2>4. CASE Lock(c)
        BY <2>4 DEF Lock, Goto, disk, cache, locals
  <2>5. CASE OpenFails(c)
        BY <2>5 DEF OpenFails, Goto, Return, disk, cache, locals
  <2>6. CASE Parse(c)
        BY <2>6 DEF Parse, Goto, disk, cache, locals
  <2>7. CASE SetRows(c)
        BY <2>7 DEF SetRows, Goto, disk, cache, locals
  <2>8. CASE SetTs(c)
        BY <2>8 DEF SetTs, Goto, disk, cache, locals
  <2>9. CASE SetSummary(c)
        BY <2>9 DEF SetSummary, Goto, disk, cache, locals
  <2>10. CASE SetLoaded(c)
        BY <2>10 DEF SetLoaded, Goto, disk, cache, locals
  <2>11. CASE TakeRows(c)
        BY <2>11 DEF TakeRows, Goto, disk, cache, locals
  <2>12. CASE TakeTs(c)
        BY <2>12 DEF TakeTs, Goto, disk, cache, locals
  <2>13. CASE Query(c)
        BY <2>13 DEF Query, Goto, Return, disk, cache, locals
  <2>14. CASE Look(c)
        BY <2>14 DEF Look, Goto, disk, cache, locals
  <2>15. CASE Compute(c)
        BY <2>15 DEF Compute, Goto, disk, cache, locals
  <2>16. CASE Fetch(c)
        BY <2>16 DEF Fetch, Goto, disk, cache, locals
  <2>17. CASE Summarise(c)
        BY <2>17 DEF Summarise, Goto, Return, disk, cache, locals
  <2>18. QED
        BY <1>3, <2>1, <2>2, <2>3, <2>4, <2>5, <2>6, <2>7, <2>8,
           <2>9, <2>10, <2>11, <2>12, <2>13, <2>14, <2>15, <2>16, <2>17 DEF Proceed
<1>4. CASE UNCHANGED vars
      BY <1>4 DEF vars, disk, cache, locals
<1>5. QED  BY <1>1, <1>2, <1>3, <1>4 DEF Next

\* A summary of other rows is marked late or is dropped before the load ends.
LEMMA SummaryStep == TypeOK /\ LoadInvariant /\ SummaryInvariant /\ [Next]_vars => SummaryInvariant'
<1> SUFFICES ASSUME TypeOK /\ LoadInvariant /\ SummaryInvariant, [Next]_vars PROVE SummaryInvariant'
    OBVIOUS
<1> USE ReaderAssumption
<1> USE DEF TypeOK, Loading, Storing, LoadInvariant, SummaryInvariant
<1>1. CASE Replace
      BY <1>1 DEF Replace, cache, locals
<1>2. CASE Vanish
      BY <1>2 DEF Vanish, cache, locals
<1>3. ASSUME NEW c \in Callers, Call(c) \/ Proceed(c) PROVE SummaryInvariant'
  <2>1. CASE Call(c)
        BY <2>1 DEF Call, Goto, disk, cache, locals
  <2>2. CASE Stat(c)
        BY <2>2 DEF Stat, Goto, disk, cache, locals
  <2>3. CASE Check(c)
        BY <2>3 DEF Check, Goto, disk, cache, locals
  <2>4. CASE Lock(c)
        BY <2>4 DEF Lock, Goto, disk, cache, locals
  <2>5. CASE OpenFails(c)
        BY <2>5 DEF OpenFails, Goto, Return, disk, cache, locals
  <2>6. CASE Parse(c)
        BY <2>6 DEF Parse, Goto, disk, cache, locals
  <2>7. CASE SetRows(c)
        BY <2>7 DEF SetRows, Goto, disk, cache, locals
  <2>8. CASE SetTs(c)
        BY <2>8 DEF SetTs, Goto, disk, cache, locals
  <2>9. CASE SetSummary(c)
        BY <2>9 DEF SetSummary, Goto, disk, cache, locals
  <2>10. CASE SetLoaded(c)
        BY <2>10 DEF SetLoaded, Goto, disk, cache, locals
  <2>11. CASE TakeRows(c)
        BY <2>11 DEF TakeRows, Goto, disk, cache, locals
  <2>12. CASE TakeTs(c)
        BY <2>12 DEF TakeTs, Goto, disk, cache, locals
  <2>13. CASE Query(c)
        BY <2>13 DEF Query, Goto, Return, disk, cache, locals
  <2>14. CASE Look(c)
        BY <2>14 DEF Look, Goto, disk, cache, locals
  <2>15. CASE Compute(c)
        BY <2>15 DEF Compute, Goto, disk, cache, locals
  <2>16. CASE Fetch(c)
        BY <2>16 DEF Fetch, Goto, disk, cache, locals
  <2>17. CASE Summarise(c)
        BY <2>17 DEF Summarise, Goto, Return, disk, cache, locals
  <2>18. QED
        BY <1>3, <2>1, <2>2, <2>3, <2>4, <2>5, <2>6, <2>7, <2>8,
           <2>9, <2>10, <2>11, <2>12, <2>13, <2>14, <2>15, <2>16, <2>17 DEF Proceed
<1>4. CASE UNCHANGED vars
      BY <1>4 DEF vars, disk, cache, locals
<1>5. QED  BY <1>1, <1>2, <1>3, <1>4 DEF Next

\* A call's mtime is the newest version when it looks.
LEMMA CallStep == TypeOK /\ Versions /\ CallInvariant /\ [Next]_vars => CallInvariant'
<1> SUFFICES ASSUME TypeOK /\ Versions /\ CallInvariant, [Next]_vars PROVE CallInvariant'
    OBVIOUS
<1> USE ReaderAssumption
<1> USE DEF TypeOK, Versions, Version, Loading, CallInvariant
<1>1. CASE Replace
      BY <1>1 DEF Replace, cache, locals
<1>2. CASE Vanish
      BY <1>2 DEF Vanish, cache, locals
<1>3. ASSUME NEW c \in Callers, Call(c) \/ Proceed(c) PROVE CallInvariant'
  <2>1. CASE Call(c)
        BY <2>1 DEF Call, Goto, disk, cache, locals
  <2>2. CASE Stat(c)
        BY <2>2 DEF Stat, Goto, disk, cache, locals
  <2>3. CASE Check(c)
        BY <2>3 DEF Check, Goto, disk, cache, locals
  <2>4. CASE Lock(c)
        BY <2>4 DEF Lock, Goto, disk, cache, locals
  <2>5. CASE OpenFails(c)
        BY <2>5 DEF OpenFails, Goto, Return, disk, cache, locals
  <2>6. CASE Parse(c)
        BY <2>6 DEF Parse, Goto, disk, cache, locals
  <2>7. CASE SetRows(c)
        BY <2>7 DEF SetRows, Goto, disk, cache, locals
  <2>8. CASE SetTs(c)
        BY <2>8 DEF SetTs, Goto, disk, cache, locals
  <2>9. CASE SetSummary(c)
        BY <2>9 DEF SetSummary, Goto, disk, cache, locals
  <2>10. CASE SetLoaded(c)
        BY <2>10 DEF SetLoaded, Goto, disk, cache, locals
  <2>11. CASE TakeRows(c)
        BY <2>11 DEF TakeRows, Goto, disk, cache, locals
  <2>12. CASE TakeTs(c)
        BY <2>12 DEF TakeTs, Goto, disk, cache, locals
  <2>13. CASE Query(c)
        BY <2>13 DEF Query, Goto, Return, disk, cache, locals
  <2>14. CASE Look(c)
        BY <2>14 DEF Look, Goto, disk, cache, locals
  <2>15. CASE Compute(c)
        BY <2>15 DEF Compute, Goto, disk, cache, locals
  <2>16. CASE Fetch(c)
        BY <2>16 DEF Fetch, Goto, disk, cache, locals
  <2>17. CASE Summarise(c)
        BY <2>17 DEF Summarise, Goto, Return, disk, cache, locals
  <2>18. QED
        BY <1>3, <2>1, <2>2, <2>3, <2>4, <2>5, <2>6, <2>7, <2>8,
           <2>9, <2>10, <2>11, <2>12, <2>13, <2>14, <2>15, <2>16, <2>17 DEF Proceed
<1>4. CASE UNCHANGED vars
      BY <1>4 DEF vars, disk, cache, locals
<1>5. QED  BY <1>1, <1>2, <1>3, <1>4 DEF Next

\* A load that found the file parses the newest version.
LEMMA StoreStep == IInv /\ CallInvariant /\ StoreInvariant /\ [Next]_vars => StoreInvariant'
<1> SUFFICES ASSUME IInv /\ CallInvariant /\ StoreInvariant, [Next]_vars PROVE StoreInvariant'
    OBVIOUS
<1> USE ReaderAssumption
<1> USE DEF IInv, TypeOK, Versions, Version, Loading, Storing, LoadInvariant, CacheFits, ParsedFits, CallInvariant, StoreInvariant, Emptying
<1>1. CASE Replace
      BY <1>1 DEF Replace, cache, locals
<1>2. CASE Vanish
      BY <1>2 DEF Vanish, cache, locals
<1>3. ASSUME NEW c \in Callers, Call(c) \/ Proceed(c) PROVE StoreInvariant'
  <2>1. CASE Call(c)
        BY <2>1 DEF Call, Goto, disk, cache, locals
  <2>2. CASE Stat(c)
        BY <2>2 DEF Stat, Goto, disk, cache, locals
  <2>3. CASE Check(c)
        BY <2>3 DEF Check, Goto, disk, cache, locals
  <2>4. CASE Lock(c)
        BY <2>4 DEF Lock, Goto, disk, cache, locals
  <2>5. CASE OpenFails(c)
        BY <2>5 DEF OpenFails, Goto, Return, disk, cache, locals
  <2>6. CASE Parse(c)
        BY <2>6 DEF Parse, Goto, disk, cache, locals
  <2>7. CASE SetRows(c)
        BY <2>7 DEF SetRows, Goto, disk, cache, locals
  <2>8. CASE SetTs(c)
        BY <2>8 DEF SetTs, Goto, disk, cache, locals
  <2>9. CASE SetSummary(c)
        BY <2>9 DEF SetSummary, Goto, disk, cache, locals
  <2>10. CASE SetLoaded(c)
        BY <2>10 DEF SetLoaded, Goto, disk, cache, locals
  <2>11. CASE TakeRows(c)
        BY <2>11 DEF TakeRows, Goto, disk, cache, locals
  <2>12. CASE TakeTs(c)
        BY <2>12 DEF TakeTs, Goto, disk, cache, locals
  <2>13. CASE Query(c)
        BY <2>13 DEF Query, Goto, Return, disk, cache, locals
  <2>14. CASE Look(c)
        BY <2>14 DEF Look, Goto, disk, cache, locals
  <2>15. CASE Compute(c)
        BY <2>15 DEF Compute, Goto, disk, cache, locals
  <2>16. CASE Fetch(c)
        BY <2>16 DEF Fetch, Goto, disk, cache, locals
  <2>17. CASE Summarise(c)
        BY <2>17 DEF Summarise, Goto, Return, disk, cache, locals
  <2>18. QED
        BY <1>3, <2>1, <2>2, <2>3, <2>4, <2>5, <2>6, <2>7, <2>8,
           <2>9, <2>10, <2>11, <2>12, <2>13, <2>14, <2>15, <2>16, <2>17 DEF Proceed
<1>4. CASE UNCHANGED vars
      BY <1>4 DEF vars, disk, cache, locals
<1>5. QED  BY <1>1, <1>2, <1>3, <1>4 DEF Next

\* A call past its check meets what fits it, whatever is stored next.
LEMMA FreshStep == IInv /\ CallInvariant /\ StoreInvariant /\ FreshInvariant /\ [Next]_vars => FreshInvariant'
<1> SUFFICES ASSUME IInv /\ CallInvariant /\ StoreInvariant /\ FreshInvariant, [Next]_vars PROVE FreshInvariant'
    OBVIOUS
<1> USE ReaderAssumption
<1> USE DEF IInv, TypeOK, Versions, Version, Loading, Storing, LoadInvariant, CacheFits, ParsedFits, CallInvariant, StoreInvariant, Emptying, Fit, FreshInvariant
<1>1. CASE Replace
      BY <1>1 DEF Replace, cache, locals
<1>2. CASE Vanish
      BY <1>2 DEF Vanish, cache, locals
<1>3. ASSUME NEW c \in Callers, Call(c) \/ Proceed(c) PROVE FreshInvariant'
  <2>1. CASE Call(c)
        BY <2>1 DEF Call, Goto, disk, cache, locals
  <2>2. CASE Stat(c)
        BY <2>2 DEF Stat, Goto, disk, cache, locals
  <2>3. CASE Check(c)
        BY <2>3 DEF Check, Goto, disk, cache, locals
  <2>4. CASE Lock(c)
        BY <2>4 DEF Lock, Goto, disk, cache, locals
  <2>5. CASE OpenFails(c)
        BY <2>5 DEF OpenFails, Goto, Return, disk, cache, locals
  <2>6. CASE Parse(c)
        BY <2>6 DEF Parse, Goto, disk, cache, locals
  <2>7. CASE SetRows(c)
        BY <2>7 DEF SetRows, Goto, disk, cache, locals
  <2>8. CASE SetTs(c)
        BY <2>8 DEF SetTs, Goto, disk, cache, locals
  <2>9. CASE SetSummary(c)
        BY <2>9 DEF SetSummary, Goto, disk, cache, locals
  <2>10. CASE SetLoaded(c)
        BY <2>10 DEF SetLoaded, Goto, disk, cache, locals
  <2>11. CASE TakeRows(c)
        BY <2>11 DEF TakeRows, Goto, disk, cache, locals
  <2>12. CASE TakeTs(c)
        BY <2>12 DEF TakeTs, Goto, disk, cache, locals
  <2>13. CASE Query(c)
        BY <2>13 DEF Query, Goto, Return, disk, cache, locals
  <2>14. CASE Look(c)
        BY <2>14 DEF Look, Goto, disk, cache, locals
  <2>15. CASE Compute(c)
        BY <2>15 DEF Compute, Goto, disk, cache, locals
  <2>16. CASE Fetch(c)
        BY <2>16 DEF Fetch, Goto, disk, cache, locals
  <2>17. CASE Summarise(c)
        BY <2>17 DEF Summarise, Goto, Return, disk, cache, locals
  <2>18. QED
        BY <1>3, <2>1, <2>2, <2>3, <2>4, <2>5, <2>6, <2>7, <2>8,
           <2>9, <2>10, <2>11, <2>12, <2>13, <2>14, <2>15, <2>16, <2>17 DEF Proceed
<1>4. CASE UNCHANGED vars
      BY <1>4 DEF vars, disk, cache, locals
<1>5. QED  BY <1>1, <1>2, <1>3, <1>4 DEF Next

-----------------------------------------------------------------------------
(* Theorems *)

\* Every reachable state satisfies the inductive invariant.
THEOREM Invariant == Spec => []IInv
<1>1. IInv /\ [Next]_vars => IInv'
      BY TypeStep, VersionsStep, LoadStep, SummaryStep DEF IInv
<1>2. QED  BY InitInvariant, <1>1, PTL DEF Spec

\* Types, and the lock of _current: a call loads only while it holds the lock,
\* and nobody holds it who is not loading or taking what he loaded.
THEOREM TypeHolds == Spec => []TypeOK
<1>1. IInv => TypeOK
      BY DEF IInv
<1>2. QED  BY Invariant, <1>1, PTL

\* However many threads find the cache outdated, one of them scans the file
\* at a time: what _lock is there for (dataset_reader.py:40).
THEOREM OneLoader ==
    Spec => [](\A c, d \in Callers : pc[c] \in Loading /\ pc[d] \in Loading => c = d)
<1>1. TypeOK => \A c, d \in Callers : pc[c] \in Loading /\ pc[d] \in Loading => c = d
      BY DEF TypeOK
<1>2. QED  BY TypeHolds, <1>1, PTL

\* While nobody loads, a cache with the file's mtime has the file's rows and
\* timestamps, and the cached summary is of these rows or was marked late.
THEOREM CacheHolds == Spec => []CacheIsSound
<1>1. IInv => CacheIsFresh
  <2> SUFFICES ASSUME IInv, loaded = file, \A c \in Callers : pc[c] \notin Loading
               PROVE  rows = file /\ ts = file
      BY DEF CacheIsFresh
  <2>1. CacheFits
        BY DEF IInv, LoadInvariant, Storing, Loading
  <2>2. {file, newest, rows} \subseteq Nat
        BY ReaderAssumption DEF IInv, TypeOK, Version
  <2>3. CASE file = 0
        BY <2>1, <2>3 DEF CacheFits
  <2>4. CASE file = newest
        BY <2>1, <2>2, <2>4 DEF CacheFits
  <2>5. QED  BY <2>3, <2>4 DEF IInv, Versions
<1>2. IInv => SummaryHasACause
      BY DEF IInv, SummaryInvariant, SummaryHasACause, Loading
<1>3. IInv => CacheIsSound
      BY <1>1, <1>2 DEF CacheIsSound
<1>4. QED  BY Invariant, <1>3, PTL

\* A call that finds the file never works with rows or timestamps older than
\* the file was when it began, whenever the file is written, replaced and
\* deleted, and has "no rows" only where a call that had found no file emptied
\* the cache meanwhile.
THEOREM AnswersHold == Spec => []AnswersAreFresh
<1> DEFINE Fresh == CallInvariant /\ StoreInvariant /\ FreshInvariant
<1>1. Init => Fresh
      BY ReaderAssumption DEF Init, CallInvariant, StoreInvariant, FreshInvariant, Storing, Emptying
<1>2. IInv /\ Fresh /\ [Next]_vars => Fresh'
      BY CallStep, StoreStep, FreshStep DEF IInv
<1>3. IInv /\ Fresh => AnswersAreFresh
  <2> SUFFICES ASSUME IInv, FreshInvariant PROVE AnswersAreFresh
      OBVIOUS
  <2> QED  BY ReaderAssumption DEF IInv, TypeOK, Version, FreshInvariant, Fit, AnswersAreFresh
<1> HIDE DEF Fresh
<1>4. QED  BY Invariant, <1>1, <1>2, <1>3, PTL DEF Spec
=============================================================================
