--------------------------- MODULE ServicesProofs ---------------------------
(***************************************************************************)
(* What TLAPS proves of the services beside the reconciler: the download   *)
(* cache (DownloadCache), the dashboard (Dashboard) and the config files   *)
(* (ConfigSync), each for any number of fetches, browsers, jobs, servers   *)
(* and files.  The three do not share state; each part has the inductive   *)
(* invariant, one lemma per step that can disturb a part of it, and at its *)
(* end the theorems.                                                       *)
(***************************************************************************)
EXTENDS DownloadCache, Dashboard, ConfigSync, TLAPS, SequenceTheorems, FiniteSetTheorems

-----------------------------------------------------------------------------
(* The download cache: its inductive invariant.                            *)

\* A fetch that has called os.Create, or ended without.
Opened(f) ==
    fetching[f].at \notin {"new", "stat", "verify", "discard", "request", "create"}

\* What a fetch has at the steps that use it.
Called ==
    \A f \in Fetches :
        /\ ~At(f, "new") => Name(f) \in Names
        /\ At(f, "create") => fetching[f].body \in Bodies
        /\ ~Opened(f) => fetching[f].done = 0
        /\ At(f, "copy") => /\ fetching[f].body \in Bodies
                            /\ fetching[f].fd \in Fetches

\* A file was made by a fetch of the name it has or had.
FilesOfName ==
    /\ \A n \in Names : linked[n] # None =>
         Opened(linked[n]) /\ Name(linked[n]) = n
    /\ \A f \in Fetches : At(f, "copy") =>
         Opened(fetching[f].fd) /\ Name(fetching[f].fd) = Name(f)

\* A fetch that met no other one of its name is the only one at work on it.
AloneUntilMet ==
    \A f, g \in Fetches :
        Live(f) /\ Live(g) /\ f # g /\ Name(f) = Name(g) => f \in disturbed

\* So the file it writes to keeps the name and has what it wrote, and the file
\* it verified, and hands to the build, stays as it is.
Undisturbed ==
    \A f \in Fetches \ disturbed :
        /\ At(f, "copy") =>
             /\ linked[Name(f)] = fetching[f].fd
             /\ Content(f) = [k \in 1 .. fetching[f].done |-> fetching[f].body]
        /\ fetching[f].sha # NoHash =>
             /\ fetching[f].at \in {"returned", "added"} =>
                  Exists(f) /\ Content(f) = Whole(fetching[f].sha)
             /\ At(f, "built") => taken[f] = Whole(fetching[f].sha)

\* What a fetch writes to a file that has a name is among the bodies served.
ServedBodies ==
    /\ \A n \in Names : /\ IsFiniteSet(served[n])
                        /\ linked[n] # None => served[n] # {}
    /\ \A f \in Fetches :
         At(f, "copy") /\ linked[Name(f)] = fetching[f].fd =>
            fetching[f].body \in served[Name(f)]

\* The fetch that truncated a file last is still at it, and what it has written
\* is there, whoever else writes the same body.
Covering(f, n, b) ==
    /\ At(f, "copy") /\ fetching[f].fd = linked[n]
    /\ \A k \in 1 .. fetching[f].done :
         k <= Len(data[linked[n]]) /\ data[linked[n]][k] = b

WholeOrCovered ==
    \A n \in Names : \A b \in Bodies :
        linked[n] # None /\ n \notin torn /\ served[n] \subseteq {b} =>
            \/ data[linked[n]] = Whole(b)
            \/ \E f \in Fetches : Covering(f, n, b)

CacheInv ==
    /\ CacheTypeOK /\ Called /\ FilesOfName /\ AloneUntilMet
    /\ Undisturbed /\ ServedBodies /\ WholeOrCovered

-----------------------------------------------------------------------------
(* Files.                                                                  *)

Files == UNION {[1 .. k -> Bodies \cup {Hole}] : k \in 0 .. Blocks}

\* A file is a sequence of at most Blocks blocks.
LEMMA FileIsSequence ==
    ASSUME NEW x
    PROVE  x \in Files <=> x \in Seq(Bodies \cup {Hole}) /\ Len(x) \in 0 .. Blocks
<1>1. Blocks \in Nat
  BY CacheAssumption
<1>2. ASSUME x \in Files
      PROVE  x \in Seq(Bodies \cup {Hole}) /\ Len(x) \in 0 .. Blocks
  <2>1. PICK k \in 0 .. Blocks : x \in [1 .. k -> Bodies \cup {Hole}]
    BY <1>2 DEF Files
  <2>2. k \in Nat
    BY <1>1
  <2> QED  BY <2>1, <2>2
<1>3. ASSUME x \in Seq(Bodies \cup {Hole}), Len(x) \in 0 .. Blocks
      PROVE  x \in Files
  <2>1. x \in [1 .. Len(x) -> Bodies \cup {Hole}]
    BY <1>3
  <2> QED  BY <2>1, <1>3 DEF Files
<1> QED  BY <1>2, <1>3

\* A write at a place of the body keeps a file one, and reaches that far.
LEMMA WrittenIsFile ==
    ASSUME NEW x \in Files, NEW k \in 1 .. Blocks, NEW b \in Bodies
    PROVE  /\ Written(x, k, b) \in Files
           /\ Len(Written(x, k, b)) = IF Len(x) < k THEN k ELSE Len(x)
           /\ \A j \in 1 .. Len(Written(x, k, b)) :
                Written(x, k, b)[j] =
                    IF j = k THEN b ELSE IF j \in 1 .. Len(x) THEN x[j] ELSE Hole
<1> DEFINE l == IF Len(x) < k THEN k ELSE Len(x)
<1>1. x \in Seq(Bodies \cup {Hole}) /\ Len(x) \in 0 .. Blocks /\ Blocks \in Nat
  BY FileIsSequence, CacheAssumption
<1>2. DOMAIN x = 1 .. Len(x)
  BY <1>1
<1>3. l \in 0 .. Blocks
  BY <1>1
<1>4. \A j \in 1 .. l : (IF j = k THEN b ELSE IF j \in DOMAIN x THEN x[j] ELSE Hole)
                         \in Bodies \cup {Hole}
  BY <1>1
<1>5. Written(x, k, b) \in [1 .. l -> Bodies \cup {Hole}]
  BY <1>4 DEF Written
<1>6. Len(Written(x, k, b)) = l
  BY <1>5, <1>3, <1>1
<1> HIDE DEF l
<1>7. Written(x, k, b) \in Files
  BY <1>5, <1>3 DEF Files
<1>8. \A j \in 1 .. l : Written(x, k, b)[j] =
                    IF j = k THEN b ELSE IF j \in 1 .. Len(x) THEN x[j] ELSE Hole
  BY <1>2 DEF Written, l
<1>9. Len(Written(x, k, b)) = IF Len(x) < k THEN k ELSE Len(x)
  BY <1>6 DEF l
<1> QED  BY <1>6, <1>7, <1>8, <1>9

\* A body is a file, and as long as can be.
LEMMA WholeIsFile ==
    ASSUME NEW b \in Bodies
    PROVE  Whole(b) \in Files /\ Len(Whole(b)) = Blocks
<1>1. Blocks \in 0 .. Blocks /\ Blocks \in Nat
  BY CacheAssumption
<1>2. Whole(b) \in [1 .. Blocks -> Bodies \cup {Hole}]
  BY DEF Whole
<1> QED  BY <1>1, <1>2 DEF Files

\* The empty file.
LEMMA EmptyFile == <<>> \in Files
<1>1. <<>> \in Seq(Bodies \cup {Hole}) /\ Len(<<>>) = 0
  OBVIOUS
<1>2. 0 \in 0 .. Blocks
  BY CacheAssumption
<1> QED  BY <1>1, <1>2, FileIsSequence

-----------------------------------------------------------------------------
(* What steps leave alone.                                                 *)

\* A fetch goes on to another step, with one more thing in its hands.
LEMMA FetchingKept ==
    ASSUME NEW r \in Fetching, NEW step \in Steps
    PROVE  /\ [r EXCEPT !.at = step] \in Fetching
           /\ \A b \in Bodies : [[r EXCEPT !.at = step] EXCEPT !.body = b] \in Fetching
           /\ \A g \in Fetches : [[r EXCEPT !.at = step] EXCEPT !.fd = g] \in Fetching
           /\ \A k \in 0 .. Blocks :
                [[r EXCEPT !.at = step] EXCEPT !.size = k] \in Fetching
<1> DEFINE q == [r EXCEPT !.at = step]
<1>1. q \in Fetching
  BY DEF Fetching
<1> HIDE DEF q
<1>2. \A b \in Bodies : [q EXCEPT !.body = b] \in Fetching
  BY <1>1 DEF Fetching
<1>3. \A g \in Fetches : [q EXCEPT !.fd = g] \in Fetching
  BY <1>1 DEF Fetching
<1>4. \A k \in 0 .. Blocks : [q EXCEPT !.size = k] \in Fetching
  BY <1>1 DEF Fetching
<1> QED  BY <1>1, <1>2, <1>3, <1>4 DEF q

\* A step of a fetch is that fetch's: the others stay where they are, and it
\* keeps what it was asked for.
LEMMA OneFetchMoves ==
    ASSUME CacheTypeOK, NEW f \in Fetches, FetchStep(f)
    PROVE  /\ \A g \in Fetches : g # f => fetching'[g] = fetching[g]
           /\ Name(f)' = Name(f) /\ fetching'[f].sha = fetching[f].sha
           /\ ~At(f, "new") /\ ~At(f, "new")' /\ Live(f)
           /\ (Opened(f) => Opened(f)')
           /\ disturbed' = disturbed /\ crashes' = crashes
<1> USE DEF CacheTypeOK, Opened
<1>1. CASE Stat(f) \/ Verify(f) \/ Discard(f) \/ FetchFails(f) \/ CopyBreaks(f)
           \/ AddRead(f)
  BY <1>1 DEF Stat, Verify, Discard, FetchFails, CopyBreaks, AddRead, Turn, At,
              Unlink, Name, Fetching, Live, Ended
<1>2. CASE \E b \in Bodies : Respond(f, b)
  BY <1>2 DEF Respond, At, Name, Fetching, Live, Ended
<1>3. CASE Create(f) \/ CopyBlock(f) \/ AddStat(f)
  BY <1>3 DEF Create, CopyBlock, AddStat, At, Name, Fetching, Live, Ended
<1>4. CASE Finish(f)
  BY <1>4 DEF Finish, Turn, Unlink, At, Name, Fetching, Live, Ended
<1> QED  BY <1>1, <1>2, <1>3, <1>4 DEF FetchStep

\* Calls come to fetches that are new and change nothing else.
LEMMA CallChanges ==
    ASSUME CacheTypeOK, NEW f \in Fetches, NEW n \in Names,
           NEW h \in Bodies \cup {NoHash}, Call(f, n, h)
    PROVE  /\ \A g \in Fetches : g # f => fetching'[g] = fetching[g]
           /\ At(f, "new") /\ At(f, "stat")'
           /\ Name(f)' = n /\ fetching'[f].sha = h
           /\ fetching'[f].done = fetching[f].done
           /\ fetching'[f] \in Fetching
           /\ disturbed \subseteq disturbed'
           /\ UNCHANGED <<linked, data, taken, served, torn, crashes>>
<1> DEFINE now == [[fetching[f] EXCEPT !.at = "stat"] EXCEPT !.name = n]
           then == [now EXCEPT !.sha = h]
<1>1. now \in Fetching /\ now.at = "stat" /\ now.name = n
      /\ now.done = fetching[f].done
  BY DEF CacheTypeOK, Fetching, Steps
<1> HIDE DEF now
<1>2. then \in Fetching /\ then.at = "stat" /\ then.name = n /\ then.sha = h
      /\ then.done = fetching[f].done
  BY <1>1 DEF Fetching
<1>3. fetching' = [fetching EXCEPT ![f] = then]
  BY DEF Call, now, CacheTypeOK
<1> HIDE DEF then
<1> QED  BY <1>2, <1>3 DEF Call, CacheTypeOK, At, Name

-----------------------------------------------------------------------------
(* Types.                                                                  *)

\* Every step keeps the types.
LEMMA CacheTypesKept ==
    ASSUME CacheTypeOK, Called, [CacheNext]_cacheVars
    PROVE  CacheTypeOK'
<1> USE CacheAssumption
<1>1. CacheTypeOK <=>
        /\ fetching \in [Fetches -> Fetching]
        /\ linked \in [Names -> Fetches \cup {None}]
        /\ data \in [Fetches -> Files] /\ taken \in [Fetches -> Files]
        /\ disturbed \in SUBSET Fetches /\ torn \in SUBSET Names
        /\ served \in [Names -> SUBSET Bodies]
        /\ crashes \in 0 .. MaxCrashes
  BY DEF CacheTypeOK, Files
<1>2. CacheTypeOK' <=>
        /\ fetching' \in [Fetches -> Fetching]
        /\ linked' \in [Names -> Fetches \cup {None}]
        /\ data' \in [Fetches -> Files] /\ taken' \in [Fetches -> Files]
        /\ disturbed' \in SUBSET Fetches /\ torn' \in SUBSET Names
        /\ served' \in [Names -> SUBSET Bodies]
        /\ crashes' \in 0 .. MaxCrashes
  BY DEF CacheTypeOK, Files
<1>3. CASE UNCHANGED cacheVars
  BY <1>1, <1>2, <1>3 DEF cacheVars
<1>4. ASSUME NEW f \in Fetches, FetchStep(f)
      PROVE  CacheTypeOK'
  <2> USE <1>1
  <2>1. CASE Stat(f) \/ Verify(f)
    BY <1>2, <2>1 DEF Stat, Verify, At, Turn, Fetching, Steps
  <2>2. CASE Discard(f) \/ CopyBreaks(f)
    BY <1>2, <2>2 DEF Discard, CopyBreaks, At, Turn, Fetching, Steps, Ended, Unlink
  <2>3. CASE \E b \in Bodies : Respond(f, b)
    <3>1. PICK b \in Bodies : Respond(f, b)
      BY <2>3
    <3>2. [[fetching[f] EXCEPT !.at = "create"] EXCEPT !.body = b] \in Fetching
      BY FetchingKept DEF Steps
    <3>3. fetching' = [fetching EXCEPT ![f] =
                         [[fetching[f] EXCEPT !.at = "create"] EXCEPT !.body = b]]
      BY ONLY <3>1, fetching \in [Fetches -> Fetching] DEF Respond, Fetching
    <3>4. fetching' \in [Fetches -> Fetching]
      BY <3>2, <3>3
    <3> QED  BY <1>2, <3>1, <3>4 DEF Respond
  <2>4. CASE FetchFails(f)
    BY <1>2, <2>4 DEF FetchFails, Turn, Fetching, Steps, Ended
  <2>5. CASE Create(f)
    <3>1. PICK file \in Fetches :
             /\ file = IF Exists(f) THEN linked[Name(f)] ELSE f
             /\ Name(f) \in Names /\ fetching[f].body \in Bodies
      BY <2>5 DEF Create, At, Exists, Called
    <3>2. [[fetching[f] EXCEPT !.at = "copy"] EXCEPT !.fd = file] \in Fetching
      BY FetchingKept DEF Steps
    <3>3. fetching' = [fetching EXCEPT ![f] =
                         [[fetching[f] EXCEPT !.at = "copy"] EXCEPT !.fd = file]]
      BY ONLY <2>5, <3>1, fetching \in [Fetches -> Fetching] DEF Create, Fetching
    <3>4. fetching' \in [Fetches -> Fetching]
      BY <3>2, <3>3
    <3>5. linked' \in [Names -> Fetches \cup {None}]
      BY <2>5, <3>1 DEF Create
    <3>6. data' \in [Fetches -> Files]
      BY <2>5, <3>1, EmptyFile DEF Create
    <3>7. served' \in [Names -> SUBSET Bodies]
      BY <2>5, <3>1 DEF Create
    <3> QED  BY <1>2, <2>5, <3>4, <3>5, <3>6, <3>7 DEF Create
  <2>6. CASE CopyBlock(f)
    <3>1. fetching[f].done + 1 \in 1 .. Blocks /\ fetching[f].body \in Bodies
      BY <2>6 DEF CopyBlock, Fetching, Called
    <3>2. fetching[f].fd \in Fetches
      BY <2>6 DEF CopyBlock, Called
    <3>3. Written(data[fetching[f].fd], fetching[f].done + 1, fetching[f].body) \in Files
      BY <3>1, <3>2, WrittenIsFile
    <3>4. data' \in [Fetches -> Files]
      BY <2>6, <3>3, <3>2 DEF CopyBlock
    <3>5. fetching' \in [Fetches -> Fetching]
      BY <2>6, <3>1 DEF CopyBlock, Fetching
    <3> QED  BY <1>2, <2>6, <3>4, <3>5 DEF CopyBlock
  <2>7. CASE Finish(f)
    BY <1>2, <2>7 DEF Finish, At, Turn, Fetching, Steps, Ended, Unlink
  <2>8. CASE AddStat(f)
    <3>1. Exists(f) => Len(Content(f)) \in 0 .. Blocks
      BY <2>8, FileIsSequence DEF Exists, Content, AddStat, At, Called
    <3>2. 0 \in 0 .. Blocks
      OBVIOUS
    <3>3. PICK step \in Steps, k \in 0 .. Blocks :
             fetching' = [fetching EXCEPT ![f].at = step, ![f].size = k]
      BY <2>8, <3>1, <3>2 DEF AddStat, Steps, Ended
    <3>4. [[fetching[f] EXCEPT !.at = step] EXCEPT !.size = k] \in Fetching
      BY FetchingKept
    <3>5. fetching' = [fetching EXCEPT ![f] = [[fetching[f] EXCEPT !.at = step] EXCEPT !.size = k]]
      BY ONLY <3>3, fetching \in [Fetches -> Fetching] DEF Fetching
    <3>6. fetching' \in [Fetches -> Fetching]
      BY <3>4, <3>5
    <3> QED  BY <1>2, <2>8, <3>6 DEF AddStat
  <2>9. CASE AddRead(f)
    <3>1. Exists(f) => Content(f) \in Files
      BY <2>9 DEF Exists, Content, AddRead, At, Called
    <3>2. fetching' \in [Fetches -> Fetching]
      <4>1. PICK step \in Steps : Turn(f, step)
        BY <2>9 DEF AddRead, Steps, Ended
      <4> QED  BY <4>1 DEF Turn, Fetching
    <3>3. taken' \in [Fetches -> Files]
      BY <2>9, <3>1 DEF AddRead
    <3> QED  BY <1>2, <2>9, <3>2, <3>3 DEF AddRead
  <2> QED  BY <1>4, <2>1, <2>2, <2>3, <2>4, <2>5, <2>6, <2>7, <2>8, <2>9 DEF FetchStep
<1>5. ASSUME NEW f \in Fetches, NEW n \in Names, NEW h \in Bodies \cup {NoHash},
             Call(f, n, h)
      PROVE  CacheTypeOK'
  <2>1. disturbed' \subseteq Fetches
    BY <1>1, <1>5 DEF Call
  <2>3. fetching' \in [Fetches -> Fetching]
    <3>1. \A g \in Fetches : fetching'[g] \in Fetching
      BY <1>5, <1>1, CallChanges
    <3> QED  BY <1>1, <1>5, <3>1 DEF Call
  <2> QED  BY <1>1, <1>2, <1>5, <2>1, <2>3 DEF Call
<1>6. CASE CacheCrash
  <2>1. fetching' \in [Fetches -> Fetching]
    BY <1>1, <1>6 DEF CacheCrash, Fetching, Steps, Ended
  <2>2. crashes' \in 0 .. MaxCrashes
    BY <1>1, <1>6 DEF CacheCrash
  <2> QED  BY <1>1, <1>2, <1>6, <2>1, <2>2 DEF CacheCrash
<1> QED  BY <1>3, <1>4, <1>5, <1>6 DEF CacheNext

-----------------------------------------------------------------------------
(* The parts of the invariant, one after the other.                        *)

\* A crash leaves no fetch alive, and every name and request as it was.
LEMMA CrashEnds ==
    ASSUME CacheTypeOK, CacheCrash
    PROVE  /\ \A f \in Fetches :
                /\ Name(f)' = Name(f) /\ fetching'[f].done = fetching[f].done
                /\ ~Live(f)' /\ (At(f, "new")' => At(f, "new"))
                /\ (Opened(f) => Opened(f)')
                /\ (~At(f, "new")' => Opened(f)')
                /\ (At(f, "built")' => At(f, "built"))
                /\ fetching'[f].sha = fetching[f].sha
           /\ UNCHANGED <<linked, data, taken, disturbed, served>>
           /\ torn \subseteq torn'
<1>1. ASSUME NEW f \in Fetches
      PROVE  /\ Name(f)' = Name(f) /\ fetching'[f].done = fetching[f].done
             /\ ~Live(f)' /\ (At(f, "new")' => At(f, "new"))
             /\ (Opened(f) => Opened(f)')
             /\ (~At(f, "new")' => Opened(f)')
             /\ (At(f, "built")' => At(f, "built"))
             /\ fetching'[f].sha = fetching[f].sha
  <2>1. fetching[f] \in Fetching /\ fetching[f].at \in Steps
    BY DEF CacheTypeOK, Fetching
  <2>2. CASE Live(f)
    <3>1. fetching'[f] = [fetching[f] EXCEPT !.at = "dead"]
      BY <2>2 DEF CacheCrash, CacheTypeOK
    <3> QED  BY <2>1, <3>1 DEF At, Name, Live, Ended, Opened, Fetching
  <2>3. CASE ~Live(f)
    <3>1. fetching'[f] = fetching[f]
      BY <2>3 DEF CacheCrash, CacheTypeOK
    <3> QED  BY <2>3, <3>1 DEF At, Name, Live, Ended, Opened
  <2> QED  BY <2>2, <2>3
<1> QED  BY <1>1 DEF CacheCrash

\* What a step does to the fetch that takes it.
LEMMA CalledKept ==
    ASSUME CacheTypeOK, Called, [CacheNext]_cacheVars
    PROVE  Called'
<1> USE DEF Called, At, Opened, Name
<1>1. CASE UNCHANGED cacheVars
  BY <1>1 DEF cacheVars
<1>2. ASSUME NEW f \in Fetches, FetchStep(f)
      PROVE  Called'
  <2> SUFFICES /\ ~At(f, "new")' => Name(f)' \in Names
               /\ At(f, "create")' => fetching'[f].body \in Bodies
               /\ ~Opened(f)' => fetching'[f].done = 0
               /\ At(f, "copy")' => /\ fetching'[f].body \in Bodies
                                    /\ fetching'[f].fd \in Fetches
    BY <1>2, OneFetchMoves
  <2>1. ~At(f, "new")' => Name(f)' \in Names
    BY <1>2, OneFetchMoves
  <2> USE DEF CacheTypeOK, Fetching
  <2>2. CASE Stat(f) \/ Verify(f) \/ Discard(f) \/ FetchFails(f) \/ CopyBreaks(f)
             \/ AddRead(f)
    BY <2>1, <2>2 DEF Stat, Verify, Discard, FetchFails, CopyBreaks, AddRead, Turn
  <2>3. CASE \E b \in Bodies : Respond(f, b)
    <3>1. PICK b \in Bodies : Respond(f, b)
      BY <2>3
    <3>2. fetching'[f].at = "create" /\ fetching'[f].body = b
      BY <3>1 DEF Respond
    <3>3. fetching'[f].done = fetching[f].done /\ fetching[f].at = "request"
      BY <3>1 DEF Respond
    <3> QED  BY <2>1, <3>2, <3>3
  <2>4. CASE Create(f)
    <3>1. fetching'[f].at = "copy" /\ fetching'[f].body = fetching[f].body
      BY <2>4 DEF Create
    <3>2. fetching'[f].fd = IF Exists(f) THEN linked[Name(f)] ELSE f
      BY <2>4 DEF Create
    <3>3. fetching'[f].fd \in Fetches
      BY <3>2, <2>4 DEF Create, Exists
    <3> QED  BY <2>1, <2>4, <3>1, <3>3 DEF Create
  <2>5. CASE CopyBlock(f)
    BY <2>1, <2>5 DEF CopyBlock
  <2>7. CASE AddStat(f)
    <3>1. fetching'[f].at \in {"added", "failed"}
      BY <2>7 DEF AddStat
    <3> QED  BY <2>1, <3>1
  <2>6. CASE Finish(f)
    BY <2>1, <2>6 DEF Finish, Turn
  <2> QED  BY <1>2, <2>2, <2>3, <2>4, <2>5, <2>6, <2>7 DEF FetchStep
<1>3. ASSUME NEW f \in Fetches, NEW n \in Names, NEW h \in Bodies \cup {NoHash},
             Call(f, n, h)
      PROVE  Called'
  BY <1>3, CallChanges
<1>4. CASE CacheCrash
  <2>1. ASSUME NEW f \in Fetches
        PROVE  /\ ~At(f, "create")' /\ ~At(f, "copy")'
               /\ (~Opened(f)' => ~Opened(f))
    BY <1>4, CrashEnds DEF Live, Ended
  <2>2. \A f \in Fetches : fetching'[f].done = fetching[f].done
    BY <1>4, CrashEnds
  <2>3. ASSUME NEW f \in Fetches, ~At(f, "new")'
        PROVE  Name(f)' \in Names
    <3>1. ~At(f, "new")
      BY <1>4, <2>3 DEF CacheCrash, CacheTypeOK, Live
    <3> QED  BY <1>4, <3>1, CrashEnds
  <2> QED  BY <2>1, <2>2, <2>3
<1> QED  BY <1>1, <1>2, <1>3, <1>4 DEF CacheNext

\* Fetches that do not know of each other do not meet.
LEMMA AloneKept ==
    ASSUME CacheTypeOK, AloneUntilMet, [CacheNext]_cacheVars
    PROVE  AloneUntilMet'
<1>1. CASE UNCHANGED cacheVars
  BY <1>1 DEF cacheVars, AloneUntilMet, Live, Name
<1>2. ASSUME NEW f \in Fetches, FetchStep(f)
      PROVE  AloneUntilMet'
  BY <1>2, OneFetchMoves DEF AloneUntilMet, Live, Name
<1>3. ASSUME NEW f \in Fetches, NEW n \in Names, NEW h \in Bodies \cup {NoHash},
             Call(f, n, h)
      PROVE  AloneUntilMet'
  <2> SUFFICES ASSUME NEW g \in Fetches, NEW k \in Fetches,
                      Live(g)', Live(k)', g # k, Name(g)' = Name(k)'
               PROVE  g \in disturbed'
    BY DEF AloneUntilMet
  <2> DEFINE rivals == {r \in Fetches : Live(r) /\ Name(r) = n}
  <2>1. disturbed' = disturbed \cup rivals \cup (IF rivals = {} THEN {} ELSE {f})
    BY <1>3 DEF Call
  <2>2. \A r \in Fetches : r # f => (Live(r)' <=> Live(r)) /\ Name(r)' = Name(r)
    BY <1>3, CallChanges DEF Live, Name
  <2>3. Name(f)' = n
    BY <1>3, CallChanges
  <2>4. CASE g = f
    BY <2>1, <2>2, <2>3, <2>4
  <2>5. CASE k = f
    BY <2>1, <2>2, <2>3, <2>5
  <2>6. CASE g # f /\ k # f
    BY <2>1, <2>2, <2>6 DEF AloneUntilMet
  <2> QED  BY <2>4, <2>5, <2>6
<1>4. CASE CacheCrash
  BY <1>4, CrashEnds DEF AloneUntilMet
<1> QED  BY <1>1, <1>2, <1>3, <1>4 DEF CacheNext

\* How a step of a fetch changes which file has a name, and what is in files.
\* Only a new file, or one that is open already, gets a name.
LEMMA FilesChange ==
    ASSUME CacheTypeOK, Called, NEW f \in Fetches, FetchStep(f)
    PROVE  \/ /\ UNCHANGED <<linked, data, served, torn>>
              /\ ~At(f, "copy") /\ ~At(f, "copy")' /\ ~At(f, "create")
           \/ At(f, "create") /\ FetchFails(f)
           \/ Create(f)
           \/ CopyBlock(f)
           \/ /\ Unlink(Name(f)) /\ data' = data
              /\ fetching[f].at \in {"discard", "copy"} /\ ~At(f, "copy")'
           \/ /\ At(f, "copy") /\ At(f, "returned")' /\ fetching[f].done = Blocks
              /\ fetching[f].sha \in {NoHash, fetching[f].body}
              /\ UNCHANGED <<linked, data, served, torn>>
<1> USE DEF At, Turn
<1>0. /\ fetching \in [Fetches -> Fetching]
      /\ \A step : Turn(f, step) => fetching'[f].at = step
  BY DEF CacheTypeOK, Fetching
<1>1. CASE Stat(f) \/ Verify(f) \/ AddStat(f) \/ AddRead(f)
  <2>1. fetching'[f].at \in {"request", "returned", "verify", "discard", "added",
                            "failed", "built"}
    <3>1. Stat(f) => fetching'[f].at \in {"request", "returned", "verify"}
      BY <1>0 DEF Stat, Fetching
    <3>2. Verify(f) => fetching'[f].at \in {"returned", "discard"}
      BY <1>0 DEF Verify, Fetching
    <3>3. AddStat(f) => fetching'[f].at \in {"added", "failed"}
      BY <1>0 DEF AddStat, Fetching
    <3>4. AddRead(f) => fetching'[f].at \in {"built", "failed"}
      BY <1>0 DEF AddRead, Fetching
    <3> QED  BY <1>1, <3>1, <3>2, <3>3, <3>4
  <2>2. fetching[f].at \in {"stat", "verify", "returned", "added"}
    BY <1>1 DEF Stat, Verify, AddStat, AddRead
  <2>3. UNCHANGED <<linked, data, served, torn>>
    BY <1>1 DEF Stat, Verify, AddStat, AddRead
  <2> QED  BY <2>1, <2>2, <2>3
<1>2. CASE \E b \in Bodies : Respond(f, b)
  <2>1. PICK b \in Bodies : Respond(f, b)
    BY <1>2
  <2>2. fetching'[f].at = "create"
    BY <1>0, <2>1 DEF Respond, Fetching
  <2> QED  BY <2>1, <2>2 DEF Respond
<1>3. CASE FetchFails(f)
  BY <1>0, <1>3 DEF FetchFails
<1>4. CASE Discard(f) \/ CopyBreaks(f)
  <2>1. fetching'[f].at \in {"request", "failed"}
    BY <1>0, <1>4 DEF Fetching, Discard, CopyBreaks
  <2>2. fetching[f].at \in {"discard", "copy"}
    BY <1>4 DEF Discard, CopyBreaks
  <2>3. Unlink(Name(f)) /\ data' = data
    BY <1>4 DEF Discard, CopyBreaks
  <2> QED  BY <2>1, <2>2, <2>3
<1>5. CASE Finish(f)
  <2>1. fetching'[f].at = IF fetching[f].sha \in {NoHash, fetching[f].body}
                          THEN "returned" ELSE "failed"
    BY <1>0, <1>5 DEF Finish, Fetching
  <2>2. \/ fetching[f].sha \in {NoHash, fetching[f].body}
           /\ UNCHANGED <<linked, served, torn>>
        \/ fetching[f].sha \notin {NoHash, fetching[f].body} /\ Unlink(Name(f))
    BY <1>5 DEF Finish
  <2>3. fetching[f].at = "copy" /\ fetching[f].done = Blocks /\ data' = data
    BY <1>5 DEF Finish
  <2> QED  BY <2>1, <2>2, <2>3
<1> QED  BY <1>1, <1>2, <1>3, <1>4, <1>5 DEF FetchStep

\* A file keeps the name it was created under.
LEMMA FilesOfNameKept ==
    ASSUME CacheTypeOK, Called, FilesOfName, [CacheNext]_cacheVars
    PROVE  FilesOfName'
<1>1. CASE UNCHANGED cacheVars
  BY <1>1 DEF cacheVars, FilesOfName, Opened, At, Name
<1>2. ASSUME NEW f \in Fetches, FetchStep(f)
      PROVE  FilesOfName'
  <2>1. \A g \in Fetches : Name(g)' = Name(g) /\ (Opened(g) => Opened(g)')
    <3>1. Opened(f) => Opened(f)'
      BY <1>2, OneFetchMoves
    <3>2. ASSUME NEW g \in Fetches, g # f
          PROVE  Name(g)' = Name(g) /\ (Opened(g) => Opened(g)')
      BY <1>2, <3>2, OneFetchMoves DEF Name, Opened
    <3> QED  BY <1>2, <3>1, <3>2, OneFetchMoves
  <2>2. CASE Create(f)
    <3>1. Name(f) \in Names
      BY <2>2 DEF Create, Called, At
    <3>2. PICK file \in Fetches : file = IF Exists(f) THEN linked[Name(f)] ELSE f
      BY <3>1 DEF CacheTypeOK, Exists
    <3>3. /\ linked' = [linked EXCEPT ![Name(f)] = file]
          /\ fetching'[f].fd = file /\ At(f, "copy")'
      <4>1. linked' = [linked EXCEPT ![Name(f)] = file]
        BY <2>2, <3>2 DEF Create
      <4>2. fetching'[f].fd = IF Exists(f) THEN linked[Name(f)] ELSE f
        BY <2>2 DEF Create, CacheTypeOK, Fetching
      <4>3. fetching'[f].at = "copy"
        BY <2>2 DEF Create, CacheTypeOK, Fetching
      <4> QED  BY <4>1, <4>2, <4>3, <3>2 DEF At
    <3>4. Opened(f)'
      BY <3>3 DEF Opened, At
    <3>5. Opened(file)' /\ Name(file)' = Name(f)
      <4>1. CASE Exists(f)
        BY <4>1, <3>1, <3>2, <2>1 DEF FilesOfName, Exists, Opened, Name
      <4>2. CASE ~Exists(f)
        BY <4>2, <3>2, <3>4, <2>1
      <4> QED  BY <4>1, <4>2
    <3>6. \A n \in Names : linked'[n] # None => Opened(linked[n])' /\ Name(linked[n])' = n
      BY <3>1, <3>2, <3>3, <3>5, <2>1 DEF FilesOfName, CacheTypeOK, Opened, Name
    <3>7. ASSUME NEW g \in Fetches, At(g, "copy")'
          PROVE  Opened(fetching[g].fd)' /\ Name(fetching[g].fd)' = Name(g)'
      <4>1. CASE g = f
        BY <4>1, <3>3, <3>5, <2>1 DEF Opened, Name
      <4>2. CASE g # f
        <5>1. fetching'[g] = fetching[g] /\ At(g, "copy")
          BY <4>2, <3>7, <1>2, OneFetchMoves DEF At
        <5> QED  BY <5>1, <2>1 DEF FilesOfName, Called, Opened, Name
      <4> QED  BY <4>1, <4>2
    <3> QED  BY <3>6, <3>7 DEF FilesOfName
  <2>3. CASE ~Create(f)
    <3>1. \A n \in Names : linked'[n] = linked[n] \/ linked'[n] = None
      BY <2>3, <1>2, FilesChange DEF Unlink, FetchFails, CopyBlock, CacheTypeOK
    <3>2. ASSUME NEW g \in Fetches, At(g, "copy")'
          PROVE  At(g, "copy") /\ fetching'[g].fd = fetching[g].fd
      <4>1. CASE g # f
        BY <4>1, <3>2, <1>2, OneFetchMoves DEF At
      <4>2. CASE g = f
        <5>1. FetchFails(f) => ~At(f, "copy")'
          BY DEF FetchFails, Turn, At, CacheTypeOK
        <5>2. CopyBlock(f)
          BY <4>2, <2>3, <3>2, <1>2, <5>1, FilesChange DEF At
        <5> QED  BY <4>2, <5>2 DEF CopyBlock, At, CacheTypeOK, Fetching
      <4> QED  BY <4>1, <4>2
    <3>3. \A n \in Names : linked'[n] # None => Opened(linked[n])' /\ Name(linked[n])' = n
      <4> SUFFICES ASSUME NEW n \in Names, linked'[n] # None
                   PROVE  Opened(linked[n])' /\ Name(linked[n])' = n
        OBVIOUS
      <4>1. linked'[n] = linked[n] /\ linked[n] \in Fetches
        BY <3>1 DEF CacheTypeOK
      <4>2. Opened(linked[n]) /\ Name(linked[n]) = n
        BY <4>1 DEF FilesOfName
      <4> QED  BY <4>1, <4>2, <2>1 DEF Opened, Name
    <3>4. ASSUME NEW g \in Fetches, At(g, "copy")'
          PROVE  Opened(fetching[g].fd)' /\ Name(fetching[g].fd)' = Name(g)'
      BY <3>4, <3>2, <2>1 DEF FilesOfName, Called, Opened, Name
    <3> QED  BY <3>3, <3>4 DEF FilesOfName
  <2> QED  BY <2>2, <2>3
<1>3. ASSUME NEW f \in Fetches, NEW n \in Names, NEW h \in Bodies \cup {NoHash},
             Call(f, n, h)
      PROVE  FilesOfName'
  <2>1. \A g \in Fetches : Opened(g) => fetching'[g] = fetching[g]
    BY <1>3, CallChanges DEF Opened, At
  <2>2. \A g \in Fetches : Opened(g) => Opened(g)' /\ Name(g)' = Name(g)
    BY <2>1 DEF Opened, Name
  <2>3. \A m \in Names : linked'[m] # None => Opened(linked[m])' /\ Name(linked[m])' = m
    BY <1>3, <2>2, CallChanges DEF FilesOfName, CacheTypeOK, Opened, Name
  <2>4. ASSUME NEW g \in Fetches, At(g, "copy")'
        PROVE  At(g, "copy") /\ fetching'[g] = fetching[g]
    BY <1>3, <2>4, CallChanges DEF At
  <2>5. ASSUME NEW g \in Fetches, At(g, "copy")'
        PROVE  Opened(fetching[g].fd)' /\ Name(fetching[g].fd)' = Name(g)'
    BY <2>2, <2>4, <2>5 DEF FilesOfName, Called, Opened, Name
  <2> QED  BY <2>3, <2>5 DEF FilesOfName
<1>4. CASE CacheCrash
  <2>1. \A g \in Fetches : ~At(g, "copy")'
    BY <1>4, CrashEnds DEF At, Live, Ended
  <2>2. \A g \in Fetches : (Opened(g) => Opened(g)') /\ Name(g)' = Name(g)
    BY <1>4, CrashEnds
  <2>3. linked' = linked
    BY <1>4, CrashEnds
  <2> QED  BY <2>1, <2>2, <2>3 DEF FilesOfName, CacheTypeOK, Opened, Name
<1> QED  BY <1>1, <1>2, <1>3, <1>4 DEF CacheNext

\* A fetch leaves the files of other names alone.
LEMMA OtherNamesKept ==
    ASSUME CacheTypeOK, Called, FilesOfName, NEW f \in Fetches, FetchStep(f),
           NEW n \in Names, n # Name(f)
    PROVE  /\ linked'[n] = linked[n]
           /\ linked[n] # None => data'[linked[n]] = data[linked[n]]
<1>1. Name(f) \in Names
  BY OneFetchMoves DEF Called
<1>2. CASE UNCHANGED <<linked, data>>
  BY <1>2
<1>3. CASE Create(f)
  <2>1. PICK file \in Fetches : file = IF Exists(f) THEN linked[Name(f)] ELSE f
    BY <1>1 DEF CacheTypeOK, Exists
  <2>2. linked' = [linked EXCEPT ![Name(f)] = file] /\ data' = [data EXCEPT ![file] = <<>>]
    BY <1>3, <2>1 DEF Create
  <2>3. linked'[n] = linked[n]
    BY <2>2 DEF CacheTypeOK
  <2>4. linked[n] # None => linked[n] # file
    <3>1. Name(file) = Name(f)
      BY <1>1, <2>1 DEF FilesOfName, Exists
    <3> QED  BY <3>1 DEF FilesOfName
  <2>5. linked[n] # None => data'[linked[n]] = data[linked[n]]
    BY <2>2, <2>4 DEF CacheTypeOK
  <2> QED  BY <2>3, <2>5
<1>4. CASE CopyBlock(f)
  <2>1. linked' = linked
    BY <1>4 DEF CopyBlock
  <2>2. linked[n] # None => linked[n] # fetching[f].fd
    BY <1>4 DEF CopyBlock, FilesOfName
  <2>3. linked[n] # None => data'[linked[n]] = data[linked[n]]
    BY <1>4, <2>2 DEF CopyBlock, CacheTypeOK
  <2> QED  BY <2>1, <2>3
<1>5. CASE Unlink(Name(f)) /\ data' = data
  BY <1>5, <1>1 DEF Unlink, CacheTypeOK
<1>6. CASE FetchFails(f)
  BY <1>6 DEF FetchFails
<1> QED  BY <1>2, <1>3, <1>4, <1>5, <1>6, FilesChange

\* A fetch builds or hands over what its own steps, and no one else's, allow.
LEMMA UndisturbedKept ==
    ASSUME CacheTypeOK, Called, FilesOfName, AloneUntilMet, Undisturbed,
           [CacheNext]_cacheVars
    PROVE  Undisturbed'
<1> DEFINE Writes(g) ==
             At(g, "copy") =>
               /\ linked[Name(g)] = fetching[g].fd
               /\ data[linked[Name(g)]] =
                    [k \in 1 .. fetching[g].done |-> fetching[g].body]
           Hands(g) ==
             fetching[g].sha # NoHash =>
               /\ fetching[g].at \in {"returned", "added"} =>
                    /\ linked[Name(g)] # None
                    /\ data[linked[Name(g)]] = Whole(fetching[g].sha)
               /\ At(g, "built") => taken[g] = Whole(fetching[g].sha)
<1>0. Undisturbed = \A g \in Fetches \ disturbed : Writes(g) /\ Hands(g)
  BY DEF Undisturbed, Exists, Content
<1>1. CASE UNCHANGED cacheVars
  BY <1>1 DEF cacheVars, Undisturbed, At, Name, Exists, Content
<1>2. ASSUME NEW f \in Fetches, FetchStep(f), NEW g \in Fetches \ disturbed, g # f
      PROVE  Writes(g)' /\ Hands(g)'
  <2>1. fetching'[g] = fetching[g] /\ Live(f) /\ Name(f) \in Names
    BY <1>2, OneFetchMoves DEF Called
  <2>2. CASE Live(g)
    <3>1. Name(g) # Name(f) /\ Name(g) \in Names
      BY <1>2, <2>1, <2>2 DEF AloneUntilMet, Called, Live, At
    <3>2. /\ linked'[Name(g)] = linked[Name(g)]
          /\ linked[Name(g)] # None => data'[linked[Name(g)]] = data[linked[Name(g)]]
      BY <1>2, <3>1, OtherNamesKept
    <3>3. Writes(g) /\ Hands(g) /\ fetching[g].at # "built"
      BY <1>0, <1>2, <2>2 DEF Live, Ended
    <3>4. At(g, "copy") => linked[Name(g)] # None
      BY <1>2, <3>3, CacheAssumption DEF Called
    <3> QED  BY <2>1, <3>2, <3>3, <3>4 DEF At, Name
  <2>3. CASE ~Live(g)
    <3>1. taken'[g] = taken[g]
      BY <1>2 DEF FetchStep, Stat, Verify, Discard, Respond, FetchFails, Create,
         CopyBlock, CopyBreaks, Finish, AddStat, AddRead, CacheTypeOK
    <3> QED  BY <1>0, <1>2, <2>1, <2>3, <3>1 DEF At, Name, Live, Ended
  <2> QED  BY <2>2, <2>3

<1>3. ASSUME NEW f \in Fetches \ disturbed, FetchStep(f)
      PROVE  Writes(f)' /\ Hands(f)'
  <2>0. Name(f) \in Names /\ Name(f)' = Name(f) /\ fetching'[f].sha = fetching[f].sha
    BY <1>3, OneFetchMoves DEF Called
  <2>1. Writes(f) /\ Hands(f)
    BY <1>0, <1>3
  <2>2. /\ fetching \in [Fetches -> Fetching] /\ taken \in [Fetches -> Files]
        /\ linked \in [Names -> Fetches \cup {None}] /\ data \in [Fetches -> Files]
    BY DEF CacheTypeOK, Files
  <2>3. CASE Stat(f)
    <3>1. At(f, "returned")' => fetching[f].sha = NoHash
      BY <1>3, <2>2, <2>3 DEF Stat, Turn, At, Fetching
    <3>2. fetching'[f].at \in {"request", "returned", "verify"}
      BY <1>3, <2>2, <2>3 DEF Stat, Turn, At, Fetching
    <3> QED  BY <2>0, <3>1, <3>2 DEF At
  <2>4. CASE Verify(f)
    <3>1. At(f, "returned")' => Exists(f) /\ Content(f) = Whole(fetching[f].sha)
      BY <1>3, <2>2, <2>4 DEF Verify, Verified, Turn, At, Fetching
    <3>2. fetching'[f].at \in {"returned", "discard"}
      BY <1>3, <2>2, <2>4 DEF Verify, Turn, At, Fetching
    <3>3. linked' = linked /\ data' = data
      BY <2>4 DEF Verify
    <3> QED  BY <2>0, <3>1, <3>2, <3>3 DEF At, Exists, Content, Whole
  <2>5. CASE Discard(f) \/ FetchFails(f) \/ CopyBreaks(f)
    <3>1. fetching'[f].at \in {"request", "failed"}
      BY <1>3, <2>2, <2>5 DEF Discard, FetchFails, CopyBreaks, Turn, At, Fetching
    <3> QED  BY <3>1 DEF At
  <2>6. CASE \E b \in Bodies : Respond(f, b)
    <3>1. fetching'[f].at = "create"
      BY <1>3, <2>2, <2>6 DEF Respond, Fetching
    <3> QED  BY <3>1 DEF At
  <2>7. CASE Create(f)
    <3>1. PICK file \in Fetches : file = IF Exists(f) THEN linked[Name(f)] ELSE f
      BY <2>0, <2>2, CacheAssumption DEF Exists
    <3>2. /\ linked' = [linked EXCEPT ![Name(f)] = file]
          /\ data' = [data EXCEPT ![file] = <<>>]
      BY <2>7, <3>1 DEF Create
    <3>3. fetching'[f].at = "copy" /\ fetching'[f].done = fetching[f].done
      BY <1>3, <2>2, <2>7 DEF Create, Fetching
    <3>4. fetching'[f].fd = file
      BY <1>3, <2>2, <2>7, <3>1 DEF Create, Fetching
    <3>5. fetching[f].done = 0
      BY <1>3, <2>7 DEF Create, At, Called, Opened
    <3>6. linked'[Name(f)] = file /\ data'[file] = <<>>
      BY <2>0, <2>2, <3>2
    <3>7. [k \in 1 .. 0 |-> fetching'[f].body] = <<>>
      OBVIOUS
    <3>8. Writes(f)'
      BY <2>0, <3>3, <3>4, <3>5, <3>6, <3>7
    <3> QED  BY <3>3, <3>8 DEF At
  <2>8. CASE CopyBlock(f)
    <3> DEFINE k == fetching[f].done + 1
               b == fetching[f].body
               x == data[fetching[f].fd]
    <3>1. k \in 1 .. Blocks /\ b \in Bodies /\ x \in Files /\ fetching[f].fd \in Fetches
      BY <1>3, <2>2, <2>8 DEF CopyBlock, Called, Fetching
    <3>2. /\ linked[Name(f)] = fetching[f].fd
          /\ x = [j \in 1 .. fetching[f].done |-> b]
      BY <2>1, <2>8 DEF CopyBlock
    <3>3. fetching[f].done \in Nat /\ Len(x) = fetching[f].done
      BY <1>3, <2>2, <3>2, CacheAssumption DEF Fetching
    <3>4. data' = [data EXCEPT ![fetching[f].fd] = Written(x, k, b)]
      BY <2>8 DEF CopyBlock
    <3>5. fetching' = [fetching EXCEPT ![f].done = k] /\ linked' = linked
      BY <2>8 DEF CopyBlock
    <3>6. /\ fetching'[f].done = k /\ fetching'[f].body = b
          /\ fetching'[f].fd = fetching[f].fd /\ fetching'[f].at = "copy"
      BY <1>3, <2>2, <2>8, <3>5 DEF Fetching, CopyBlock, At
    <3>7. /\ Written(x, k, b) \in Files /\ Len(Written(x, k, b)) = k
          /\ \A j \in 1 .. k : Written(x, k, b)[j] = b
      <4>1. Written(x, k, b) \in Files /\ Len(Written(x, k, b)) = k
        BY <3>1, <3>3, WrittenIsFile
      <4>2. \A j \in 1 .. k : j # k => j \in 1 .. Len(x) /\ x[j] = b
        BY <3>2, <3>3
      <4>3. \A j \in 1 .. k : Written(x, k, b)[j] =
                    IF j = k THEN b ELSE IF j \in 1 .. Len(x) THEN x[j] ELSE Hole
        BY <3>1, <4>1, WrittenIsFile
      <4> QED  BY <4>1, <4>2, <4>3
    <3>8. Written(x, k, b) = [j \in 1 .. k |-> b]
      BY <3>7, FileIsSequence
    <3>9. data'[fetching[f].fd] = Written(x, k, b)
      BY <2>2, <3>1, <3>4
    <3> HIDE DEF k, b, x
    <3>10. Writes(f)'
      <4>1. linked'[Name(f)'] = fetching'[f].fd
        BY <2>0, <3>2, <3>5, <3>6
      <4>2. data'[linked'[Name(f)']] = [j \in 1 .. k |-> b]
        BY <4>1, <3>6, <3>8, <3>9
      <4>3. data'[linked'[Name(f)']] =
              [j \in 1 .. fetching'[f].done |-> fetching'[f].body]
        BY <4>2, <3>6
      <4> QED  BY <4>1, <4>3
    <3> QED  BY <3>6, <3>10 DEF At
  <2>9. CASE Finish(f)
    <3>1. fetching[f].done = Blocks /\ At(f, "copy") /\ data' = data
      BY <2>9 DEF Finish
    <3>2. /\ fetching'[f].at \in {"returned", "failed"}
          /\ At(f, "returned")' => /\ linked' = linked
                                   /\ fetching[f].sha \in {NoHash, fetching[f].body}
      <4>1. CASE fetching[f].sha \in {NoHash, fetching[f].body}
        BY <1>3, <2>2, <2>9, <4>1 DEF Finish, Turn, At, Fetching
      <4>2. CASE fetching[f].sha \notin {NoHash, fetching[f].body}
        BY <1>3, <2>2, <2>9, <4>2 DEF Finish, Turn, At, Fetching
      <4> QED  BY <4>1, <4>2
    <3>3. linked[Name(f)] = fetching[f].fd /\ fetching[f].fd \in Fetches
      BY <1>3, <2>1, <3>1 DEF Called
    <3>4. data[linked[Name(f)]] = Whole(fetching[f].body)
      BY <2>1, <3>1 DEF Whole
    <3> QED  BY <2>0, <3>1, <3>2, <3>3, <3>4, CacheAssumption DEF At, Whole
  <2>10. CASE AddStat(f)
    <3>1. /\ fetching'[f].at \in {"added", "failed"} /\ At(f, "returned")
          /\ linked' = linked /\ data' = data
      BY <1>3, <2>2, <2>10 DEF AddStat, Fetching
    <3> QED  BY <2>0, <2>1, <3>1 DEF At, Whole
  <2>11. CASE AddRead(f)
    <3>1. fetching'[f].at \in {"built", "failed"} /\ At(f, "added")
      BY <1>3, <2>2, <2>11 DEF AddRead, Turn, Fetching
    <3>2. At(f, "built")' => taken'[f] = data[linked[Name(f)]]
      BY <1>3, <2>2, <2>11 DEF AddRead, Turn, At, Fetching, Content
    <3> QED  BY <2>0, <2>1, <3>1, <3>2 DEF At, Whole
  <2> QED  BY <1>3, <2>3, <2>4, <2>5, <2>6, <2>7, <2>8, <2>9, <2>10, <2>11 DEF FetchStep
<1>4. ASSUME NEW f \in Fetches, FetchStep(f)
      PROVE  Undisturbed'
  <2>1. disturbed' = disturbed
    BY <1>4, OneFetchMoves
  <2>2. ASSUME NEW g \in Fetches \ disturbed
        PROVE  Writes(g)' /\ Hands(g)'
    <3>1. CASE g = f
      BY <1>4, <1>3, <3>1
    <3>2. CASE g # f
      BY <1>4, <1>2, <3>2
    <3> QED  BY <3>1, <3>2
  <2> QED  BY <2>1, <2>2 DEF Undisturbed, Exists, Content
<1>5. ASSUME NEW f \in Fetches, NEW n \in Names, NEW h \in Bodies \cup {NoHash},
             Call(f, n, h)
      PROVE  Undisturbed'
  <2>1. UNCHANGED <<linked, data, taken>> /\ disturbed \subseteq disturbed'
    BY <1>5, CallChanges
  <2>2. \A g \in Fetches : g # f => fetching'[g] = fetching[g]
    BY <1>5, CallChanges
  <2>3. fetching'[f].at = "stat"
    BY <1>5, CallChanges DEF At
  <2> QED  BY <2>1, <2>2, <2>3 DEF Undisturbed, At, Name, Exists, Content
<1>6. CASE CacheCrash
  <2>1. \A g \in Fetches : ~Live(g)' /\ (At(g, "built")' => At(g, "built"))
    BY <1>6, CrashEnds
  <2>2. \A g \in Fetches : fetching'[g].sha = fetching[g].sha
    BY <1>6, CrashEnds
  <2>3. UNCHANGED <<taken, disturbed>>
    BY <1>6, CrashEnds
  <2> QED  BY <2>1, <2>2, <2>3 DEF Undisturbed, At, Live, Ended
<1> QED  BY <1>1, <1>4, <1>5, <1>6 DEF CacheNext

\* A new file is not one that another fetch has open.
LEMMA CreatedIsOwn ==
    ASSUME CacheTypeOK, Called, FilesOfName, NEW f \in Fetches, Create(f)
    PROVE  \E file \in Fetches :
             /\ linked' = [linked EXCEPT ![Name(f)] = file]
             /\ data' = [data EXCEPT ![file] = <<>>]
             /\ fetching'[f].at = "copy" /\ fetching'[f].fd = file
             /\ fetching'[f].done = 0 /\ fetching'[f].body = fetching[f].body
             /\ served' = [served EXCEPT ![Name(f)] = @ \cup {fetching[f].body}]
             /\ torn' = torn \ {Name(f)}
             /\ \A g \in Fetches : At(g, "copy") /\ fetching[g].fd = file =>
                  file = linked[Name(f)]
<1>0. FetchStep(f)
  BY DEF FetchStep
<1>1. Name(f) \in Names
  BY <1>0, OneFetchMoves DEF Called
<1>2. PICK file \in Fetches : file = IF Exists(f) THEN linked[Name(f)] ELSE f
  BY <1>1 DEF CacheTypeOK, Exists
<1>3. /\ linked' = [linked EXCEPT ![Name(f)] = file]
      /\ data' = [data EXCEPT ![file] = <<>>]
      /\ served' = [served EXCEPT ![Name(f)] = @ \cup {fetching[f].body}]
      /\ torn' = torn \ {Name(f)}
  BY <1>2 DEF Create
<1>4. fetching'[f].at = "copy" /\ fetching'[f].body = fetching[f].body
  BY DEF Create, CacheTypeOK, Fetching
<1>5. fetching'[f].fd = file
  BY <1>2 DEF Create, CacheTypeOK, Fetching
<1>6. fetching'[f].done = fetching[f].done
  BY DEF Create, CacheTypeOK, Fetching
<1>7. fetching[f].done = 0 /\ ~Opened(f)
  BY DEF Create, At, Called, Opened
<1>8. \A g \in Fetches : At(g, "copy") /\ fetching[g].fd = file =>
          file = linked[Name(f)]
  BY <1>2, <1>7 DEF FilesOfName
<1> QED  BY <1>3, <1>4, <1>5, <1>6, <1>7, <1>8

\* Only Create and CopyBlock leave a fetch in its download.
LEMMA StillCopying ==
    ASSUME CacheTypeOK, Called, NEW f \in Fetches, FetchStep(f), At(f, "copy")'
    PROVE  Create(f) \/ CopyBlock(f)
<1>1. FetchFails(f) => ~At(f, "copy")'
  BY DEF FetchFails, Turn, At, CacheTypeOK, Fetching
<1>2. At(f, "returned")' => ~At(f, "copy")'
  BY DEF At
<1> QED  BY <1>1, <1>2, FilesChange

\* What is written to a named file was served under that name.
LEMMA ServedKept ==
    ASSUME CacheTypeOK, Called, FilesOfName, ServedBodies, [CacheNext]_cacheVars
    PROVE  ServedBodies'
<1>1. CASE UNCHANGED cacheVars
  BY <1>1 DEF cacheVars, ServedBodies, At, Name
<1>2. ASSUME NEW f \in Fetches, FetchStep(f)
      PROVE  ServedBodies'
  <2>0. Name(f) \in Names /\ Name(f)' = Name(f)
    BY <1>2, OneFetchMoves DEF Called
  <2>1. CASE Create(f)
    <3>1. PICK file \in Fetches :
             /\ linked' = [linked EXCEPT ![Name(f)] = file]
             /\ fetching'[f].body = fetching[f].body
             /\ served' = [served EXCEPT ![Name(f)] = @ \cup {fetching[f].body}]
             /\ \A g \in Fetches : At(g, "copy") /\ fetching[g].fd = file =>
                  file = linked[Name(f)]
      BY <2>1, CreatedIsOwn
    <3>2. IsFiniteSet(served[Name(f)] \cup {fetching[f].body})
      BY <2>0, FS_AddElement DEF ServedBodies
    <3>3. ASSUME NEW n \in Names
          PROVE  IsFiniteSet(served'[n]) /\ (linked'[n] # None => served'[n] # {})
      BY <2>0, <3>1, <3>2 DEF ServedBodies, CacheTypeOK
    <3>4. ASSUME NEW g \in Fetches, At(g, "copy")', linked'[Name(g)'] = fetching'[g].fd
          PROVE  fetching'[g].body \in served'[Name(g)']
      <4>1. CASE g = f
        BY <2>0, <3>1, <4>1 DEF CacheTypeOK
      <4>2. CASE g # f
        <5>1. fetching'[g] = fetching[g] /\ At(g, "copy") /\ Name(g)' = Name(g)
          BY <1>2, <3>4, <4>2, OneFetchMoves DEF At, Name
        <5>2. Name(g) \in Names
          BY <5>1 DEF Called, At
        <5>3. linked[Name(g)] = fetching[g].fd
          BY <2>0, <3>1, <3>4, <5>1, <5>2 DEF CacheTypeOK
        <5>4. fetching[g].body \in served[Name(g)]
          BY <5>1, <5>3 DEF ServedBodies
        <5> QED  BY <2>0, <3>1, <5>1, <5>2, <5>4 DEF CacheTypeOK
      <4> QED  BY <4>1, <4>2
    <3> QED  BY <3>3, <3>4 DEF ServedBodies
  <2>2. CASE ~Create(f)
    <3>1. ASSUME NEW n \in Names
          PROVE  \/ linked'[n] = linked[n] /\ served'[n] = served[n]
                 \/ linked'[n] = None /\ served'[n] = {}
      BY <1>2, <2>0, <2>2, FilesChange DEF Unlink, FetchFails, CopyBlock, CacheTypeOK
    <3>2. ASSUME NEW g \in Fetches, At(g, "copy")'
          PROVE  /\ At(g, "copy") /\ Name(g)' = Name(g)
                 /\ fetching'[g].fd = fetching[g].fd
                 /\ fetching'[g].body = fetching[g].body
      <4>1. CASE g = f
        <5>1. CopyBlock(f)
          BY <1>2, <2>2, <3>2, <4>1, StillCopying
        <5> QED  BY <2>0, <4>1, <5>1 DEF CopyBlock, At, CacheTypeOK, Fetching
      <4>2. CASE g # f
        BY <1>2, <3>2, <4>2, OneFetchMoves DEF At, Name
      <4> QED  BY <4>1, <4>2
    <3>3. ASSUME NEW n \in Names
          PROVE  IsFiniteSet(served'[n]) /\ (linked'[n] # None => served'[n] # {})
      BY <3>1, FS_EmptySet DEF ServedBodies
    <3>4. ASSUME NEW g \in Fetches, At(g, "copy")', linked'[Name(g)'] = fetching'[g].fd
          PROVE  fetching'[g].body \in served'[Name(g)']
      <4>1. Name(g) \in Names /\ fetching[g].fd # None
        BY <3>2, <3>4, CacheAssumption DEF Called, At
      <4>2. linked[Name(g)] = fetching[g].fd /\ served'[Name(g)] = served[Name(g)]
        BY <3>1, <3>2, <3>4, <4>1
      <4> QED  BY <3>2, <3>4, <4>2 DEF ServedBodies
    <3> QED  BY <3>3, <3>4 DEF ServedBodies
  <2> QED  BY <2>1, <2>2
<1>3. ASSUME NEW f \in Fetches, NEW n \in Names, NEW h \in Bodies \cup {NoHash},
             Call(f, n, h)
      PROVE  ServedBodies'
  <2>1. \A g \in Fetches : At(g, "copy")' => fetching'[g] = fetching[g]
    BY <1>3, CallChanges DEF At
  <2>2. linked' = linked /\ served' = served
    BY <1>3, CallChanges
  <2> QED  BY <2>1, <2>2 DEF ServedBodies, At, Name
<1>4. CASE CacheCrash
  <2>1. \A g \in Fetches : ~At(g, "copy")'
    BY <1>4, CrashEnds DEF At, Live, Ended
  <2>2. linked' = linked /\ served' = served
    BY <1>4, CrashEnds
  <2> QED  BY <2>1, <2>2 DEF ServedBodies
<1> QED  BY <1>1, <1>2, <1>3, <1>4 DEF CacheNext

\* Where a step leaves a file's name, content and history alone, and its writers
\* in their downloads, what was written stays written.
LEMMA CoverStays ==
    ASSUME NEW n \in Names, NEW b \in Bodies,
           linked'[n] = linked[n], data'[linked[n]] = data[linked[n]],
           \A g \in Fetches : Covering(g, n, b) => fetching'[g] = fetching[g],
           data[linked[n]] = Whole(b) \/ \E g \in Fetches : Covering(g, n, b)
    PROVE  (data[linked[n]] = Whole(b) \/ \E g \in Fetches : Covering(g, n, b))'
<1>1. CASE data[linked[n]] = Whole(b)
  BY <1>1 DEF Whole
<1>2. CASE \E g \in Fetches : Covering(g, n, b)
  <2>1. PICK g \in Fetches : Covering(g, n, b)
    BY <1>2
  <2>2. fetching'[g] = fetching[g]
    BY <2>1
  <2>3. Covering(g, n, b)'
    BY <2>1, <2>2 DEF Covering, At
  <2> QED  BY <2>3
<1> QED  BY <1>1, <1>2

\* A block of the body the file has is written.
LEMMA CoverGrows ==
    ASSUME CacheTypeOK, Called, FilesOfName, ServedBodies,
           NEW f \in Fetches, CopyBlock(f), NEW n \in Names, NEW b \in Bodies,
           linked[n] # None, fetching[f].fd = linked[n], served[n] \subseteq {b},
           data[linked[n]] = Whole(b) \/ \E g \in Fetches : Covering(g, n, b)
    PROVE  (data[linked[n]] = Whole(b) \/ \E g \in Fetches : Covering(g, n, b))'
<1> DEFINE k == fetching[f].done + 1
           x == data[linked[n]]
<1>0. Blocks \in Nat /\ linked[n] \in Fetches
  BY CacheAssumption DEF CacheTypeOK
<1>1. At(f, "copy") /\ k \in 1 .. Blocks /\ fetching[f].done \in Nat
  BY <1>0 DEF CopyBlock, CacheTypeOK, Fetching
<1>2. x \in Files
  BY <1>0 DEF CacheTypeOK, Files
<1>3. Name(f) = n
  BY <1>1 DEF FilesOfName
<1>4. fetching[f].body = b
  BY <1>1, <1>3 DEF ServedBodies
<1>5. linked' = linked /\ data' = [data EXCEPT ![linked[n]] = Written(x, k, b)]
  BY <1>4 DEF CopyBlock
<1>6. data'[linked'[n]] = Written(x, k, b)
  BY <1>0, <1>5 DEF CacheTypeOK
<1>7. /\ fetching'[f].at = "copy" /\ fetching'[f].fd = fetching[f].fd
      /\ fetching'[f].done = k
      /\ \A g \in Fetches : g # f => fetching'[g] = fetching[g]
  BY <1>1 DEF CopyBlock, CacheTypeOK, Fetching, At
<1> HIDE DEF k, x
<1>8. x \in Seq(Bodies \cup {Hole}) /\ Len(x) \in 0 .. Blocks
  BY <1>2, FileIsSequence
<1>9. /\ Written(x, k, b) \in Files
      /\ Len(Written(x, k, b)) = IF Len(x) < k THEN k ELSE Len(x)
      /\ \A j \in 1 .. Len(Written(x, k, b)) :
           Written(x, k, b)[j] =
              IF j = k THEN b ELSE IF j \in 1 .. Len(x) THEN x[j] ELSE Hole
  BY <1>1, <1>2, WrittenIsFile
<1>10. \A j \in 1 .. Len(x) : x[j] = b =>
          j <= Len(Written(x, k, b)) /\ Written(x, k, b)[j] = b
  BY <1>1, <1>8, <1>9
<1>11. k <= Len(Written(x, k, b)) /\ Written(x, k, b)[k] = b
  BY <1>1, <1>8, <1>9
<1>12. CASE x = Whole(b)
  <2>1. Len(x) = Blocks /\ \A j \in 1 .. Blocks : x[j] = b
    BY <1>0, <1>12, WholeIsFile DEF Whole
  <2>2. Len(Written(x, k, b)) = Blocks
    BY <1>0, <1>1, <1>9, <2>1
  <2>3. \A j \in 1 .. Blocks : Written(x, k, b)[j] = b
    BY <1>10, <2>1
  <2>4. Written(x, k, b) = [j \in 1 .. Blocks |-> b]
    BY <1>9, <2>2, <2>3, FileIsSequence
  <2> QED  BY <1>6, <2>4 DEF Whole
<1>13. ASSUME NEW g \in Fetches, Covering(g, n, b)
       PROVE  Covering(g, n, b)'
  <2>1. /\ At(g, "copy") /\ fetching[g].fd = linked[n]
        /\ \A j \in 1 .. fetching[g].done : j <= Len(x) /\ x[j] = b
    BY <1>13 DEF Covering, x
  <2>2. fetching[g].done \in Nat
    BY <1>0 DEF CacheTypeOK, Fetching
  <2>3. \A j \in 1 .. fetching[g].done :
           j <= Len(Written(x, k, b)) /\ Written(x, k, b)[j] = b
    BY <1>8, <1>10, <2>1, <2>2
  <2>4. CASE g = f
    <3>1. \A j \in 1 .. k : j \in 1 .. fetching[g].done \/ j = k
      BY <1>1, <2>4 DEF k
    <3>2. \A j \in 1 .. k : j <= Len(Written(x, k, b)) /\ Written(x, k, b)[j] = b
      BY <1>11, <2>3, <3>1
    <3> QED  BY <1>5, <1>6, <1>7, <2>1, <2>4, <3>2 DEF Covering, At
  <2>5. CASE g # f
    BY <1>5, <1>6, <1>7, <2>1, <2>3, <2>5 DEF Covering, At
  <2> QED  BY <2>4, <2>5
<1> QED  BY <1>12, <1>13 DEF x

\* A body that is not whole has someone who still writes it.
LEMMA CoveredKept ==
    ASSUME CacheTypeOK, Called, FilesOfName, ServedBodies, WholeOrCovered,
           [CacheNext]_cacheVars
    PROVE  WholeOrCovered'
<1> DEFINE Fine(n, b) == data[linked[n]] = Whole(b) \/ \E g \in Fetches : Covering(g, n, b)
<1> SUFFICES ASSUME NEW n \in Names, NEW b \in Bodies, linked'[n] # None,
                    n \notin torn', served'[n] \subseteq {b}
             PROVE  Fine(n, b)'
  BY DEF WholeOrCovered
<1>0. linked[n] # None /\ n \notin torn /\ served[n] \subseteq {b} => Fine(n, b)
  BY DEF WholeOrCovered
<1> HIDE DEF Fine
<1>1. CASE UNCHANGED cacheVars
  <2>1. linked' = linked /\ data' = data /\ fetching' = fetching
        /\ torn' = torn /\ served' = served
    BY <1>1 DEF cacheVars
  <2> QED  BY <1>0, <2>1, CoverStays DEF Fine
<1>2. ASSUME NEW f \in Fetches, FetchStep(f)
      PROVE  Fine(n, b)'
  <2>0. Name(f) \in Names /\ \A g \in Fetches : g # f => fetching'[g] = fetching[g]
    BY <1>2, OneFetchMoves DEF Called
  <2>1. CASE Create(f)
    <3>1. PICK file \in Fetches :
             /\ linked' = [linked EXCEPT ![Name(f)] = file]
             /\ data' = [data EXCEPT ![file] = <<>>]
             /\ fetching'[f].at = "copy" /\ fetching'[f].fd = file
             /\ fetching'[f].done = 0
             /\ served' = [served EXCEPT ![Name(f)] = @ \cup {fetching[f].body}]
             /\ torn' = torn \ {Name(f)}
      BY <2>1, CreatedIsOwn
    <3>2. CASE n = Name(f)
      <4>1. linked'[n] = file
        BY <2>0, <3>1, <3>2 DEF CacheTypeOK
      <4>2. Covering(f, n, b)'
        BY <3>1, <4>1 DEF Covering, At
      <4> QED  BY <4>2 DEF Fine
    <3>3. CASE n # Name(f)
      <4>1. /\ linked'[n] = linked[n] /\ data'[linked[n]] = data[linked[n]]
        BY <1>2, <3>3, OtherNamesKept
      <4>2. n \notin torn /\ served[n] \subseteq {b}
        BY <3>1, <3>3 DEF CacheTypeOK
      <4>3. ASSUME NEW g \in Fetches, Covering(g, n, b)
            PROVE  fetching'[g] = fetching[g]
        BY <2>0, <2>1, <4>3 DEF Covering, At, Create
      <4> QED  BY <1>0, <4>1, <4>2, <4>3, CoverStays DEF Fine
    <3> QED  BY <3>2, <3>3
  <2>2. CASE CopyBlock(f)
    <3>1. linked' = linked /\ served' = served /\ torn' = torn
      BY <2>2 DEF CopyBlock
    <3>2. Fine(n, b)
      BY <1>0, <3>1
    <3>3. CASE fetching[f].fd = linked[n]
      BY <2>2, <3>1, <3>2, <3>3, CoverGrows DEF Fine
    <3>4. CASE fetching[f].fd # linked[n]
      <4>1. data'[linked[n]] = data[linked[n]]
        BY <2>2, <3>1, <3>4 DEF CopyBlock, CacheTypeOK
      <4>2. ASSUME NEW g \in Fetches, Covering(g, n, b)
            PROVE  fetching'[g] = fetching[g]
        BY <2>0, <3>4, <4>2 DEF Covering
      <4> QED  BY <3>1, <3>2, <4>1, <4>2, CoverStays DEF Fine
    <3> QED  BY <3>3, <3>4
  <2>3. CASE Unlink(Name(f)) /\ data' = data
    <3>1. n # Name(f)
      BY <2>3 DEF Unlink, CacheTypeOK
    <3>2. linked'[n] = linked[n] /\ n \notin torn /\ served'[n] = served[n]
      BY <2>3, <3>1 DEF Unlink, CacheTypeOK
    <3>3. Fine(n, b)
      BY <1>0, <3>2
    <3>4. ASSUME NEW g \in Fetches, Covering(g, n, b)
          PROVE  fetching'[g] = fetching[g]
      <4>1. Name(g) = n
        BY <3>2, <3>4 DEF Covering, FilesOfName
      <4> QED  BY <2>0, <3>1, <4>1
    <3> QED  BY <2>3, <3>2, <3>3, <3>4, CoverStays DEF Fine
  <2>4. CASE ~At(f, "copy") /\ UNCHANGED <<linked, data, served, torn>>
    <3>1. ASSUME NEW g \in Fetches, Covering(g, n, b)
          PROVE  fetching'[g] = fetching[g]
      BY <2>0, <2>4, <3>1 DEF Covering
    <3> QED  BY <1>0, <2>4, <3>1, CoverStays DEF Fine
  <2>5. CASE fetching[f].done = Blocks /\ UNCHANGED <<linked, data, served, torn>>
    <3>1. Fine(n, b) /\ linked[n] \in Fetches
      BY <1>0, <2>5 DEF CacheTypeOK
    <3>2. CASE Covering(f, n, b)
      <4>1. /\ data[linked[n]] \in Files /\ Blocks \in Nat
            /\ \A k \in 1 .. Blocks : k <= Len(data[linked[n]]) /\ data[linked[n]][k] = b
        BY <2>5, <3>1, <3>2, CacheAssumption DEF Covering, CacheTypeOK, Files
      <4>2. data[linked[n]] \in Seq(Bodies \cup {Hole}) /\ Len(data[linked[n]]) \in 0 .. Blocks
        BY <4>1, FileIsSequence
      <4>3. Len(data[linked[n]]) = Blocks
        <5>1. Blocks \in 1 .. Blocks
          BY CacheAssumption
        <5> QED  BY <4>1, <4>2, <5>1
      <4>4. data[linked[n]] = [k \in 1 .. Blocks |-> b]
        BY <4>1, <4>2, <4>3
      <4> QED  BY <2>5, <4>4 DEF Fine, Whole
    <3>3. CASE ~Covering(f, n, b)
      <4>1. ASSUME NEW g \in Fetches, Covering(g, n, b)
            PROVE  fetching'[g] = fetching[g]
        BY <2>0, <3>3, <4>1
      <4> QED  BY <2>5, <3>1, <4>1, CoverStays DEF Fine
    <3> QED  BY <3>2, <3>3
  <2>6. At(f, "create") /\ FetchFails(f) =>
           ~At(f, "copy") /\ UNCHANGED <<linked, data, served, torn>>
    BY DEF FetchFails, At
  <2> QED  BY <1>2, <2>1, <2>2, <2>3, <2>4, <2>5, <2>6, FilesChange
<1>3. ASSUME NEW f \in Fetches, NEW m \in Names, NEW h \in Bodies \cup {NoHash},
             Call(f, m, h)
      PROVE  Fine(n, b)'
  <2>1. UNCHANGED <<linked, data, served, torn>>
    BY <1>3, CallChanges
  <2>2. ASSUME NEW g \in Fetches, Covering(g, n, b)
        PROVE  fetching'[g] = fetching[g]
    BY <1>3, <2>2, CallChanges DEF Covering, At
  <2> QED  BY <1>0, <2>1, <2>2, CoverStays DEF Fine
<1>4. CASE CacheCrash
  <2>1. UNCHANGED <<linked, data, served>> /\ torn \subseteq torn'
    BY <1>4, CrashEnds
  <2>2. Fine(n, b)
    BY <1>0, <2>1
  <2>3. ASSUME NEW g \in Fetches
        PROVE  ~Covering(g, n, b)
    BY <1>4, <2>1 DEF CacheCrash, Covering
  <2> QED  BY <2>1, <2>2, <2>3, CoverStays DEF Fine
<1> QED  BY <1>1, <1>2, <1>3, <1>4 DEF CacheNext

-----------------------------------------------------------------------------
(* Theorems about the cache.                                               *)

\* At the start no fetch has been called.
LEMMA CacheStarts == CacheInit => CacheInv
<1> SUFFICES ASSUME CacheInit
             PROVE  CacheInv
  OBVIOUS
<1>0. Blocks \in Nat /\ MaxCrashes \in Nat
  BY CacheAssumption
<1>1. CacheTypeOK
  <2>1. NotCalled \in Fetching
    BY <1>0 DEF NotCalled, Fetching, Steps
  <2>2. fetching \in [Fetches -> Fetching]
    BY <2>1 DEF CacheInit
  <2>3. data \in [Fetches -> Files] /\ taken \in [Fetches -> Files]
    BY EmptyFile DEF CacheInit
  <2>4. /\ linked \in [Names -> Fetches \cup {None}]
        /\ served \in [Names -> SUBSET Bodies]
    BY DEF CacheInit
  <2>5. disturbed = {} /\ torn = {} /\ crashes \in 0 .. MaxCrashes
    BY <1>0 DEF CacheInit
  <2> QED  BY <2>2, <2>3, <2>4, <2>5 DEF CacheTypeOK, Files
<1>2. \A f \in Fetches : fetching[f].at = "new" /\ fetching[f].done = 0
  BY DEF CacheInit, NotCalled
<1>3. \A n \in Names : linked[n] = None /\ IsFiniteSet(served[n])
  BY FS_EmptySet DEF CacheInit
<1>4. Called /\ FilesOfName /\ AloneUntilMet /\ Undisturbed /\ ServedBodies
  BY <1>2, <1>3 DEF Called, FilesOfName, AloneUntilMet, Undisturbed, ServedBodies,
     At, Live
<1>5. WholeOrCovered
  BY <1>3 DEF WholeOrCovered
<1> QED  BY <1>1, <1>4, <1>5 DEF CacheInv

\* All of it, along every behaviour.
LEMMA CacheInvariant == CacheSpec => []CacheInv
<1>1. CacheInv /\ [CacheNext]_cacheVars => CacheInv'
  <2> SUFFICES ASSUME CacheInv, [CacheNext]_cacheVars
               PROVE  CacheInv'
    OBVIOUS
  <2> USE DEF CacheInv
  <2>1. CacheTypeOK' /\ Called' /\ FilesOfName'
    BY CacheTypesKept, CalledKept, FilesOfNameKept
  <2>2. AloneUntilMet' /\ Undisturbed'
    BY AloneKept, UndisturbedKept
  <2>3. ServedBodies' /\ WholeOrCovered'
    BY ServedKept, CoveredKept
  <2> QED  BY <2>1, <2>2, <2>3
<1> QED  BY <1>1, CacheStarts, PTL DEF CacheSpec

\* Every reachable state of the fetches, the builds and the shared directory is
\* of its type, and no file is longer than a body.
THEOREM CacheTypeCorrect == CacheSpec => []CacheTypeOK
<1>1. CacheInv => CacheTypeOK
  BY DEF CacheInv
<1> QED  BY <1>1, CacheInvariant, PTL

\* Fetch verifies and AddFile reads later; between them, and across crashes,
\* failed downloads and other URLs of the name, a build that asked with a hash
\* and met no other fetch of the name gets the content of that hash.
THEOREM HashedBuildGenuineAlways == CacheSpec => []HashedBuildGenuine
<1>1. CacheInv => HashedBuildGenuine
  BY DEF CacheInv, Undisturbed, HashedBuildGenuine
<1> QED  BY <1>1, CacheInvariant, PTL

\* A set that is not empty and has no two elements.
LEMMA OneElement ==
    ASSUME NEW S, IsFiniteSet(S), S # {}, ~(Cardinality(S) > 1)
    PROVE  \E b \in S : S = {b}
<1>1. PICK b \in S : TRUE
  OBVIOUS
<1>2. IsFiniteSet(S \ {b}) /\ Cardinality(S \ {b}) = Cardinality(S) - 1
  BY <1>1, FS_RemoveElement
<1>3. Cardinality(S) \in Nat /\ Cardinality(S \ {b}) \in Nat
  BY <1>2, FS_CardinalityType
<1>4. Cardinality(S \ {b}) = 0
  BY <1>2, <1>3
<1>5. S \ {b} = {}
  BY <1>2, <1>4, FS_EmptySet
<1> QED  BY <1>1, <1>5

\* However many fetches write over each other, fail, remove the file or end with
\* the process: a file nobody writes to is whole, unless a crash cut it off or
\* two different bodies went into it.
THEOREM SettledFileWholeAlways == CacheSpec => []SettledFileWhole
<1>1. CacheInv => SettledFileWhole
  <2> SUFFICES ASSUME CacheInv, NEW n \in Names, linked[n] # None, n \notin torn,
                      ~(Cardinality(served[n]) > 1),
                      \A f \in Fetches : ~(At(f, "copy") /\ fetching[f].fd = linked[n])
               PROVE  \E b \in served[n] : data[linked[n]] = Whole(b)
    BY DEF SettledFileWhole
  <2>1. PICK b \in served[n] : served[n] = {b}
    BY OneElement DEF CacheInv, ServedBodies
  <2>2. b \in Bodies
    BY <2>1 DEF CacheInv, CacheTypeOK
  <2>3. data[linked[n]] = Whole(b)
    BY <2>1, <2>2 DEF CacheInv, WholeOrCovered, Covering
  <2> QED  BY <2>3
<1> QED  BY <1>1, CacheInvariant, PTL

-----------------------------------------------------------------------------
(* The dashboard: its inductive invariant.                                 *)

\* Deploys that may have written their record once, and twice.
Marked == {d \in Deploys : stage[d] \notin {"new", "accepted"}}
Settled == {d \in Deploys :
              stage[d] \in {"recorded", "unrecorded", "logged", "reporting", "over"}}

\* Each deploy writes the record when it begins and when it ends, once each.
WrittenTwice == record <= Cardinality(Marked) + Cardinality(Settled)

\* The channel of a subscriber is open, and publishers send to subscribers only:
\* who leaves waits for them, who is not there yet is not on their list.
OpenToPublishers ==
    /\ closed \cap Subscribed = {}
    /\ \A p \in Publishers : ~Free(p) => publishing[p].left \subseteq Subscribed

\* The ring is the end of all that was ever added.
HistoryIsTail ==
    /\ Len(history) = IF Len(added) <= MaxHistory THEN Len(added) ELSE MaxHistory
    /\ \A j \in 1 .. Len(history) :
         history[j] = added[Len(added) - Len(history) + j]

\* A deploy is added before the message that it ended is made.
Added(d) == \E i \in DOMAIN added : added[i] = d
Announced(note) == note.kind = "ended" => Added(note.about)
AddedFirst ==
    /\ \A d \in Deploys : stage[d] = "logged" => Added(d)
    /\ \A i \in DOMAIN events : Announced(events[i])
    /\ \A p \in Publishers : ~Free(p) => Announced(publishing[p].note)
    /\ \A b \in Browsers : \A i \in DOMAIN buffer[b] : Announced(buffer[b][i])

BoardInv ==
    /\ BoardTypeOK /\ WrittenTwice /\ OpenToPublishers
    /\ HistoryIsTail /\ AddedFirst

-----------------------------------------------------------------------------
(* Sequences.                                                              *)

\* Appending to a sequence, and taking its head away.
LEMMA AppendFacts ==
    ASSUME NEW S, NEW s \in Seq(S), NEW e \in S
    PROVE  /\ Append(s, e) \in Seq(S) /\ Len(Append(s, e)) = Len(s) + 1
           /\ \A i \in DOMAIN Append(s, e) :
                Append(s, e)[i] = IF i = Len(s) + 1 THEN e ELSE s[i]
           /\ DOMAIN Append(s, e) = 1 .. Len(s) + 1
OBVIOUS

\* What Tail leaves of a sequence.
LEMMA TailFacts ==
    ASSUME NEW S, NEW s \in Seq(S), s # <<>>
    PROVE  /\ Head(s) \in S /\ Head(s) = s[1] /\ 1 \in DOMAIN s
           /\ Tail(s) \in Seq(S) /\ Len(Tail(s)) = Len(s) - 1
           /\ \A i \in DOMAIN Tail(s) : i + 1 \in DOMAIN s /\ Tail(s)[i] = s[i + 1]
<1>1. /\ Head(s) \in S /\ Tail(s) \in Seq(S) /\ Len(Tail(s)) = Len(s) - 1
      /\ \A i \in 1 .. Len(Tail(s)) : Tail(s)[i] = s[i + 1]
  BY HeadTailProperties
<1>2. Len(s) \in Nat \ {0} /\ DOMAIN s = 1 .. Len(s) /\ Head(s) = s[1]
  BY EmptySeq
<1>3. DOMAIN Tail(s) = 1 .. Len(Tail(s))
  BY <1>1
<1> QED  BY <1>1, <1>2, <1>3

\* The ring after it was cut is the end of what it was before.
LEMMA KeptFacts ==
    ASSUME NEW S, NEW s \in Seq(S)
    PROVE  /\ Kept(s) \in Seq(S)
           /\ Len(Kept(s)) = IF Len(s) <= MaxHistory THEN Len(s) ELSE MaxHistory
           /\ \A j \in 1 .. Len(Kept(s)) : Kept(s)[j] = s[Len(s) - Len(Kept(s)) + j]
<1>0. Len(s) \in Nat /\ MaxHistory \in Nat \ {0} /\ DOMAIN s = 1 .. Len(s)
  BY BoardAssumption
<1>1. CASE Len(s) <= MaxHistory
  BY <1>0, <1>1 DEF Kept
<1>2. CASE Len(s) > MaxHistory
  <2> DEFINE m == Len(s) - MaxHistory + 1
  <2>1. m \in Int /\ Len(s) \in Int /\ m >= 1 /\ m <= Len(s)
    BY <1>0, <1>2
  <2>2. \A i \in m .. Len(s) : s[i] \in S
    BY <1>0, <2>1
  <2>3. Kept(s) = SubSeq(s, m, Len(s))
    BY <1>0, <1>2 DEF Kept
  <2> HIDE DEF m
  <2>4. /\ Kept(s) \in Seq(S)
        /\ Len(Kept(s)) = Len(s) - m + 1
        /\ \A i \in 1 .. Len(s) - m + 1 : Kept(s)[i] = s[m + i - 1]
    BY <2>1, <2>2, <2>3, SubSeqProperties
  <2>5. Len(s) - m + 1 = MaxHistory /\ m = Len(s) - MaxHistory + 1
    BY <1>0 DEF m
  <2>6. \A j \in 1 .. MaxHistory : m + j - 1 = Len(s) - MaxHistory + j
    BY <1>0, <2>5
  <2>7. \A j \in 1 .. MaxHistory : Kept(s)[j] = s[Len(s) - MaxHistory + j]
    BY <2>4, <2>5, <2>6
  <2>8. Len(Kept(s)) = MaxHistory
    BY <2>4, <2>5
  <2>9. \A j \in 1 .. Len(Kept(s)) : Kept(s)[j] = s[Len(s) - Len(Kept(s)) + j]
    BY <2>7, <2>8
  <2> QED  BY <1>0, <1>2, <2>4, <2>8, <2>9
<1> QED  BY <1>0, <1>1, <1>2

-----------------------------------------------------------------------------
(* Types.                                                                  *)

\* Publish hands a publisher that is free the list of the subscribers.
LEMMA PublishTypes ==
    ASSUME BoardTypeOK, NEW p \in Publishers, NEW note \in Notes, Publish(p, note)
    PROVE  publishing' \in [Publishers ->
                              [note : Notes, left : SUBSET Browsers] \cup {Idle}]
BY DEF BoardTypeOK, Publish, Subscribed

\* A message joins the events.
LEMMA EmitTypes ==
    ASSUME BoardTypeOK, NEW note \in Notes, Emit(note)
    PROVE  events' \in Seq(Notes) /\ Len(events') <= EventsSize
<1>1. Len(events) \in Nat /\ EventsSize \in Nat
  BY BoardAssumption DEF BoardTypeOK
<1> QED  BY <1>1, AppendFacts DEF BoardTypeOK, Emit

\* What a step of a deploy publishes or emits is a message.
LEMMA NoteTypes == \A d \in Deploys : \A k \in Kinds : Note(k, d) \in Notes
BY DEF Note, Notes

\* A deploy goes to its next stage.
LEMMA StageTypes ==
    ASSUME BoardTypeOK, NEW d \in Deploys, NEW from, NEW to \in Stages, Stage(d, from, to)
    PROVE  stage' \in [Deploys -> Stages]
BY DEF BoardTypeOK, Stage

\* Versions are numbers up to two for every deploy.
LEMMA VersionFacts ==
    /\ Cardinality(Deploys) \in Nat
    /\ \A n \in Nat : n \in Versions <=> n <= 2 * Cardinality(Deploys)
    /\ Versions \subseteq Nat
<1>1. Cardinality(Deploys) \in Nat
  BY FS_CardinalityType, BoardAssumption
<1> QED  BY <1>1 DEF Versions

\* No more than two writes for every deploy.
LEMMA WritesBounded ==
    ASSUME record \in Nat, WrittenTwice
    PROVE  record \in Versions
<1>1. /\ IsFiniteSet(Deploys) /\ Marked \subseteq Deploys /\ Settled \subseteq Deploys
  BY BoardAssumption DEF Marked, Settled
<1>2. /\ Cardinality(Marked) \in Nat /\ Cardinality(Marked) <= Cardinality(Deploys)
      /\ Cardinality(Settled) \in Nat /\ Cardinality(Settled) <= Cardinality(Deploys)
  BY <1>1, FS_Subset, FS_CardinalityType
<1> QED  BY <1>2, VersionFacts DEF WrittenTwice

\* The deploys that have come so far only get more.
LEMMA CountsGrow ==
    ASSUME BoardTypeOK, stage' \in [Deploys -> Stages],
           Marked \subseteq Marked', Settled \subseteq Settled'
    PROVE  /\ Cardinality(Marked) <= Cardinality(Marked')
           /\ Cardinality(Settled) <= Cardinality(Settled')
           /\ Cardinality(Marked) \in Nat /\ Cardinality(Marked') \in Nat
           /\ Cardinality(Settled) \in Nat /\ Cardinality(Settled') \in Nat
           /\ Marked # Marked' => Cardinality(Marked) < Cardinality(Marked')
           /\ Settled # Settled' => Cardinality(Settled) < Cardinality(Settled')
<1>1. IsFiniteSet(Marked') /\ IsFiniteSet(Settled')
  <2>1. Marked' \subseteq Deploys /\ Settled' \subseteq Deploys
    BY DEF Marked, Settled
  <2> QED  BY <2>1, FS_Subset, BoardAssumption
<1> HIDE DEF Marked, Settled
<1>2. /\ IsFiniteSet(Marked) /\ Cardinality(Marked) <= Cardinality(Marked')
      /\ (Cardinality(Marked) = Cardinality(Marked') => Marked = Marked')
  BY <1>1, FS_Subset
<1>3. /\ IsFiniteSet(Settled) /\ Cardinality(Settled) <= Cardinality(Settled')
      /\ (Cardinality(Settled) = Cardinality(Settled') => Settled = Settled')
  BY <1>1, FS_Subset
<1>4. /\ Cardinality(Marked) \in Nat /\ Cardinality(Marked') \in Nat
      /\ Cardinality(Settled) \in Nat /\ Cardinality(Settled') \in Nat
  BY <1>1, <1>2, <1>3, FS_CardinalityType
<1> QED  BY <1>2, <1>3, <1>4

\* Only the goroutines of deploys write the record and the history.
LEMMA OnlyDeploysWrite ==
    ASSUME [BoardNext]_boardVars
    PROVE  \/ UNCHANGED <<record, history, added, stage>>
           \/ \E d \in Deploys :
                \/ Accept(d) \/ MarkProgressing(d) \/ EmitProgressing(d)
                \/ PipelineSays(d) \/ MarkEnd(d) \/ AddHistory(d) \/ EmitEnd(d)
                \/ Report(d)
<1>1. ASSUME NEW p \in Publishers, Publishing(p)
      PROVE  UNCHANGED <<record, history, added, stage>>
  BY <1>1 DEF Publishing, Release, Offer
<1>2. ASSUME Forward
      PROVE  UNCHANGED <<record, history, added, stage>>
  BY <1>2 DEF Forward
<1>3. ASSUME NEW b \in Browsers,
             \/ Join(b) \/ Leave(b) \/ Locking(b) \/ Deliver(b) \/ PageGoesOn(b)
             \/ \E k \in Slots : Miss(b, k)
      PROVE  UNCHANGED <<record, history, added, stage>>
  BY <1>3 DEF Join, Leave, Locking, Subscribe, Unsubscribe, Deliver, PageGoesOn, Poll,
     Serve, Arrive, Miss
<1>4. CASE UNCHANGED boardVars
  BY <1>4 DEF boardVars
<1>5. Deploys \subseteq Publishers /\ Bridge \in Publishers
  BY DEF Publishers
<1> QED  BY <1>1, <1>2, <1>3, <1>4, <1>5 DEF BoardNext, DeployGoesOn, BridgeGoesOn

\* Who writes the record has not written it before.
LEMMA WrittenTwiceKept ==
    ASSUME BoardTypeOK, WrittenTwice, stage' \in [Deploys -> Stages],
           [BoardNext]_boardVars
    PROVE  WrittenTwice'
<1>0. record \in Nat /\ stage \in [Deploys -> Stages]
  BY VersionFacts DEF BoardTypeOK
<1>1. ASSUME NEW d \in Deploys, MarkProgressing(d)
      PROVE  WrittenTwice'
  <2>1. stage[d] = "accepted" /\ stage'[d] = "marked" /\ record' = record + 1
    BY <1>0, <1>1 DEF MarkProgressing, Stage
  <2>2. \A e \in Deploys : e # d => stage'[e] = stage[e]
    BY <1>0, <1>1 DEF MarkProgressing, Stage
  <2>3. Marked \subseteq Marked' /\ Settled \subseteq Settled' /\ d \in Marked' \ Marked
    BY <2>1, <2>2 DEF Marked, Settled
  <2> QED  BY <1>0, <2>1, <2>3, CountsGrow DEF WrittenTwice
<1>2. ASSUME NEW d \in Deploys, MarkEnd(d)
      PROVE  WrittenTwice'
  <2>1. stage[d] \in {"running", "working"} /\ stage'[d] \in {"recorded", "unrecorded"}
    BY <1>0, <1>2 DEF MarkEnd, Stage
  <2>2. \A e \in Deploys : e # d => stage'[e] = stage[e]
    BY <1>0, <1>2 DEF MarkEnd, Stage
  <2>3. Marked \subseteq Marked' /\ Settled \subseteq Settled' /\ d \in Settled' \ Settled
    BY <2>1, <2>2 DEF Marked, Settled
  <2>4. record' = record + 1
    BY <1>2 DEF MarkEnd
  <2> QED  BY <1>0, <2>3, <2>4, CountsGrow DEF WrittenTwice
<1>3. ASSUME NEW d \in Deploys, Accept(d) \/ EmitProgressing(d) \/ PipelineSays(d)
                                \/ AddHistory(d) \/ EmitEnd(d) \/ Report(d)
      PROVE  WrittenTwice'
  <2>1. \/ stage[d] = "new" /\ stage'[d] = "accepted"
        \/ stage[d] = "marked" /\ stage'[d] = "running"
        \/ stage[d] = "running" /\ stage'[d] = "working"
        \/ stage[d] = "recorded" /\ stage'[d] = "logged"
        \/ stage[d] = "logged" /\ stage'[d] \in {"over", "reporting"}
        \/ stage[d] \in {"unrecorded", "reporting", "accepted"} /\ stage'[d] = "over"
    BY <1>0, <1>3 DEF Accept, EmitProgressing, PipelineSays, AddHistory, EmitEnd,
       Report, Stage
  <2>2. \A e \in Deploys : e # d => stage'[e] = stage[e]
    BY <1>0, <1>3 DEF Accept, EmitProgressing, PipelineSays, AddHistory, EmitEnd,
       Report, Stage
  <2>3. Marked \subseteq Marked' /\ Settled \subseteq Settled'
    BY <2>1, <2>2 DEF Marked, Settled
  <2>4. record' = record
    BY <1>3 DEF Accept, EmitProgressing, PipelineSays, AddHistory, EmitEnd, Report
  <2> QED  BY <1>0, <2>3, <2>4, CountsGrow DEF WrittenTwice
<1>4. CASE UNCHANGED <<record, stage>>
  BY <1>4 DEF WrittenTwice, Marked, Settled
<1> QED  BY <1>1, <1>2, <1>3, <1>4, OnlyDeploysWrite

\* The life of a subscriber and the read lock of the publishers.
LEMMA OpenKept ==
    ASSUME BoardTypeOK, OpenToPublishers, [BoardNext]_boardVars
    PROVE  OpenToPublishers'
<1>0. /\ handler \in [Browsers -> {"off", "joining", "on", "leaving"}]
      /\ publishing \in [Publishers -> [note : Notes, left : SUBSET Browsers] \cup {Idle}]
  BY DEF BoardTypeOK
<1>1. ASSUME NEW p \in Publishers, NEW note, Publish(p, note), UNCHANGED <<handler, closed>>
      PROVE  OpenToPublishers'
  <2>1. Subscribed' = Subscribed
    BY <1>1 DEF Subscribed
  <2>2. publishing'[p].left = Subscribed
    BY <1>0, <1>1 DEF Publish
  <2>3. \A q \in Publishers : q # p => publishing'[q] = publishing[q]
    BY <1>0, <1>1 DEF Publish
  <2> QED  BY <1>1, <2>1, <2>2, <2>3 DEF OpenToPublishers, Free
<1>2. ASSUME NEW p \in Publishers, NEW b \in Browsers, Offer(p, b)
      PROVE  OpenToPublishers'
  <2>1. Subscribed' = Subscribed /\ closed' = closed
    BY <1>2 DEF Subscribed, Offer
  <2>2. publishing'[p].left \subseteq publishing[p].left /\ publishing[p] # Idle
    BY <1>0, <1>2 DEF Offer, Free
  <2>3. \A q \in Publishers : q # p => publishing'[q] = publishing[q]
    BY <1>0, <1>2 DEF Offer
  <2> QED  BY <2>1, <2>2, <2>3 DEF OpenToPublishers, Free
<1>3. ASSUME NEW p \in Publishers, Release(p)
      PROVE  OpenToPublishers'
  <2>1. Subscribed' = Subscribed /\ closed' = closed
    BY <1>3 DEF Subscribed, Release, sseVars
  <2>2. publishing' = [publishing EXCEPT ![p] = Idle]
    BY <1>3 DEF Release
  <2> QED  BY <1>0, <2>1, <2>2 DEF OpenToPublishers, Free
<1>4. ASSUME NEW b \in Browsers, Join(b) \/ Leave(b)
      PROVE  OpenToPublishers'
  <2>1. Subscribed' = Subscribed
    BY <1>0, <1>4 DEF Subscribed, Join, Leave, Handler
  <2>2. closed' = closed /\ publishing' = publishing
    BY <1>4 DEF Join, Leave
  <2> QED  BY <2>1, <2>2 DEF OpenToPublishers, Free
<1>5. ASSUME NEW b \in Browsers, Subscribe(b) \/ Unsubscribe(b)
      PROVE  OpenToPublishers'
  <2>1. \A p \in Publishers : Free(p)
    BY <1>5 DEF Subscribe, Unsubscribe, Unsubscribable, NoReader
  <2>2. publishing' = publishing
    BY <1>5 DEF Subscribe, Unsubscribe
  <2>3. closed' \cap Subscribed' = {}
    BY <1>0, <1>5 DEF Subscribe, Unsubscribe, Subscribed, Handler, OpenToPublishers
  <2> QED  BY <2>1, <2>2, <2>3 DEF OpenToPublishers, Free
<1>6. CASE UNCHANGED <<handler, closed, publishing>>
  BY <1>6 DEF OpenToPublishers, Free, Subscribed
<1>7. ASSUME NEW d \in Deploys,
             \/ Accept(d) \/ MarkProgressing(d) \/ EmitProgressing(d) \/ PipelineSays(d)
             \/ MarkEnd(d) \/ AddHistory(d) \/ EmitEnd(d) \/ Report(d)
      PROVE  OpenToPublishers'
  <2>1. d \in Publishers
    BY DEF Publishers
  <2>2. CASE Accept(d) \/ PipelineSays(d) \/ Report(d)
    BY <1>1, <2>1, <2>2 DEF Accept, PipelineSays, Report, sseVars
  <2>3. CASE \/ MarkProgressing(d) \/ EmitProgressing(d) \/ MarkEnd(d) \/ AddHistory(d)
             \/ EmitEnd(d)
    BY <1>6, <2>3 DEF MarkProgressing, EmitProgressing, MarkEnd, AddHistory, EmitEnd,
       sseVars
  <2> QED  BY <1>7, <2>2, <2>3
<1>8. CASE Forward
  <2>1. Bridge \in Publishers
    BY DEF Publishers
  <2> QED  BY <1>1, <1>8, <2>1 DEF Forward, sseVars
<1>9. ASSUME NEW b \in Browsers,
             Deliver(b) \/ PageGoesOn(b) \/ \E k \in Slots : Miss(b, k)
      PROVE  OpenToPublishers'
  BY <1>6, <1>9 DEF Deliver, PageGoesOn, Poll, Serve, Arrive, Miss, sseVars
<1>10. CASE UNCHANGED boardVars
  BY <1>6, <1>10 DEF boardVars
<1>11. Deploys \subseteq Publishers /\ Bridge \in Publishers
  BY DEF Publishers
<1> QED  BY <1>2, <1>3, <1>4, <1>5, <1>7, <1>8, <1>9, <1>10, <1>11
         DEF BoardNext, DeployGoesOn, BridgeGoesOn, Locking, Publishing

\* The ring is cut where the newest entry comes in.
LEMMA HistoryKept ==
    ASSUME BoardTypeOK, HistoryIsTail, [BoardNext]_boardVars
    PROVE  HistoryIsTail'
<1>1. ASSUME NEW d \in Deploys, AddHistory(d)
      PROVE  HistoryIsTail'
  <2> DEFINE h == Append(history, d)
  <2>1. /\ history \in Seq(Deploys) /\ added \in Seq(Deploys)
        /\ Len(history) \in Nat /\ Len(added) \in Nat /\ MaxHistory \in Nat \ {0}
    BY BoardAssumption DEF BoardTypeOK
  <2>2. /\ added' = Append(added, d) /\ history' = Kept(h)
    BY <1>1 DEF AddHistory
  <2>3. /\ h \in Seq(Deploys) /\ Len(h) = Len(history) + 1
        /\ \A i \in 1 .. Len(history) + 1 :
             h[i] = IF i = Len(history) + 1 THEN d ELSE history[i]
    BY <2>1, AppendFacts
  <2>4. /\ Len(added') = Len(added) + 1
        /\ \A i \in 1 .. Len(added) + 1 :
             added'[i] = IF i = Len(added) + 1 THEN d ELSE added[i]
    BY <2>1, <2>2, AppendFacts
  <2> HIDE DEF h
  <2>5. /\ Len(history') = IF Len(h) <= MaxHistory THEN Len(h) ELSE MaxHistory
        /\ \A j \in 1 .. Len(history') : history'[j] = h[Len(h) - Len(history') + j]
    BY <2>2, <2>3, KeptFacts
  <2>6. /\ Len(history) = IF Len(added) <= MaxHistory THEN Len(added) ELSE MaxHistory
        /\ \A j \in 1 .. Len(history) : history[j] = added[Len(added) - Len(history) + j]
    BY DEF HistoryIsTail
  <2>7. Len(history') = IF Len(added') <= MaxHistory THEN Len(added') ELSE MaxHistory
    BY <2>1, <2>3, <2>4, <2>5, <2>6
  <2>8. ASSUME NEW j \in 1 .. Len(history')
        PROVE  history'[j] = added'[Len(added') - Len(history') + j]
    <3> DEFINE i == Len(h) - Len(history') + j
    <3>0. Len(history') \in Nat /\ Len(h) \in Nat /\ Len(added') \in Nat /\ j \in Nat
      BY <2>1, <2>3, <2>4, <2>7
    <3>1. history'[j] = h[i] /\ i \in 1 .. Len(history) + 1
      <4>1. history'[j] = h[i]
        BY <2>5
      <4>2. Len(h) = Len(history) + 1 /\ j <= Len(history')
        BY <2>3, <3>0
      <4>3. Len(history') <= Len(h)
        BY <2>1, <2>5, <3>0
      <4>4. i >= 1 /\ i <= Len(history) + 1
        BY <2>1, <3>0, <4>2, <4>3
      <4> QED  BY <2>1, <3>0, <4>1, <4>4
    <3>2. Len(added') - Len(history') + j = i + (Len(added) - Len(history))
      <4>1. Len(h) = Len(history) + 1 /\ Len(added') = Len(added) + 1
        BY <2>3, <2>4
      <4> QED  BY <2>1, <3>0, <4>1
    <3> HIDE DEF i
    <3>3. CASE i = Len(history) + 1
      <4>1. Len(added') - Len(history') + j = Len(added) + 1
        BY <2>1, <3>2, <3>3
      <4> QED  BY <2>1, <2>3, <2>4, <3>1, <3>3, <4>1
    <3>4. CASE i # Len(history) + 1
      <4>1. i \in 1 .. Len(history)
        BY <2>1, <3>1, <3>4
      <4>2. h[i] = added[Len(added) - Len(history) + i]
        BY <2>3, <2>6, <3>1, <3>4, <4>1
      <4>3. Len(added) - Len(history) + i \in 1 .. Len(added)
        BY <2>1, <2>6, <4>1
      <4>4. Len(added') - Len(history') + j = Len(added) - Len(history) + i
        BY <2>1, <3>2, <4>1
      <4>5. added'[Len(added) - Len(history) + i] = added[Len(added) - Len(history) + i]
        BY <2>1, <2>4, <4>3
      <4> QED  BY <3>1, <4>2, <4>4, <4>5
    <3> QED  BY <3>3, <3>4
  <2> QED  BY <2>7, <2>8 DEF HistoryIsTail
<1>2. CASE UNCHANGED <<history, added>>
  BY <1>2 DEF HistoryIsTail
<1>3. ASSUME NEW d \in Deploys,
             \/ Accept(d) \/ MarkProgressing(d) \/ EmitProgressing(d) \/ PipelineSays(d)
             \/ MarkEnd(d) \/ EmitEnd(d) \/ Report(d)
      PROVE  UNCHANGED <<history, added>>
  BY <1>3 DEF Accept, MarkProgressing, EmitProgressing, PipelineSays, MarkEnd, EmitEnd,
     Report
<1> QED  BY <1>1, <1>2, <1>3, OnlyDeploysWrite

\* Nothing is ever taken out of added.
LEMMA AddedGrows ==
    ASSUME BoardTypeOK, [BoardNext]_boardVars
    PROVE  /\ \A d \in Deploys : Added(d) => Added(d)'
           /\ added' = added \/ \E d \in Deploys : AddHistory(d)
<1>1. ASSUME NEW d \in Deploys, AddHistory(d)
      PROVE  \A e \in Deploys : Added(e) => Added(e)'
  <2>1. added' = Append(added, d) /\ added \in Seq(Deploys)
    BY <1>1 DEF AddHistory, BoardTypeOK
  <2>2. \A i \in DOMAIN added : i \in DOMAIN added' /\ added'[i] = added[i]
    BY <2>1
  <2> QED  BY <2>2 DEF Added
<1>2. added' = added => \A e \in Deploys : Added(e) => Added(e)'
  BY DEF Added
<1>3. ASSUME NEW d \in Deploys,
             \/ Accept(d) \/ MarkProgressing(d) \/ EmitProgressing(d) \/ PipelineSays(d)
             \/ MarkEnd(d) \/ EmitEnd(d) \/ Report(d)
      PROVE  added' = added
  BY <1>3 DEF Accept, MarkProgressing, EmitProgressing, PipelineSays, MarkEnd, EmitEnd,
     Report
<1> QED  BY <1>1, <1>2, <1>3, OnlyDeploysWrite

\* Where a message goes, what it announces was added before it was made.
LEMMA AddedFirstKept ==
    ASSUME BoardTypeOK, AddedFirst, [BoardNext]_boardVars
    PROVE  AddedFirst'
<1> DEFINE St == \A d \in Deploys : stage[d] = "logged" => Added(d)
           Ev == \A i \in DOMAIN events : Announced(events[i])
           Pu == \A p \in Publishers : ~Free(p) => Announced(publishing[p].note)
           Bu == \A b \in Browsers : \A i \in DOMAIN buffer[b] : Announced(buffer[b][i])
<1>0. /\ events \in Seq(Notes) /\ buffer \in [Browsers -> Seq(Notes)]
      /\ publishing \in [Publishers -> [note : Notes, left : SUBSET Browsers] \cup {Idle}]
      /\ stage \in [Deploys -> Stages]
  BY DEF BoardTypeOK
<1>1. St /\ Ev /\ Pu /\ Bu
  BY DEF AddedFirst
<1>2. \A d \in Deploys : Added(d) => Added(d)'
  BY AddedGrows
<1>3. \A note \in Notes : Announced(note) => Announced(note)'
  BY <1>2 DEF Announced, Notes
<1>4. events' = events => Ev'
  <2> SUFFICES ASSUME events' = events, NEW i \in DOMAIN events
               PROVE  Announced(events[i])'
    OBVIOUS
  <2>1. Announced(events[i])
    BY <1>1
  <2> QED  BY <1>0, <1>3, <2>1 DEF Announced, Added
<1>5. publishing' = publishing => Pu'
  <2> SUFFICES ASSUME publishing' = publishing, NEW p \in Publishers, ~Free(p)
               PROVE  Announced(publishing[p].note)'
    BY DEF Free
  <2>1. Announced(publishing[p].note) /\ publishing[p].note \in Notes
    BY <1>0, <1>1 DEF Free
  <2> QED  BY <1>3, <2>1 DEF Announced, Added
<1>6. buffer' = buffer => Bu'
  <2> SUFFICES ASSUME buffer' = buffer, NEW b \in Browsers, NEW i \in DOMAIN buffer[b]
               PROVE  Announced(buffer[b][i])'
    OBVIOUS
  <2>1. Announced(buffer[b][i]) /\ buffer[b][i] \in Notes
    BY <1>0, <1>1
  <2> QED  BY <1>3, <2>1 DEF Announced, Added
<1>7. St'
  <2> SUFFICES ASSUME NEW d \in Deploys, stage'[d] = "logged"
               PROVE  Added(d)'
    OBVIOUS
  <2>1. CASE AddHistory(d)
    <3>1. added' = Append(added, d) /\ added \in Seq(Deploys)
      BY <2>1 DEF AddHistory, BoardTypeOK
    <3>2. Len(added) + 1 \in DOMAIN added' /\ added'[Len(added) + 1] = d
      BY <3>1
    <3> QED  BY <3>2 DEF Added
  <2>2. CASE ~AddHistory(d)
    <3>1. ASSUME NEW e \in Deploys,
                 \/ Accept(e) \/ MarkProgressing(e) \/ EmitProgressing(e)
                 \/ PipelineSays(e) \/ MarkEnd(e) \/ AddHistory(e) \/ EmitEnd(e)
                 \/ Report(e)
          PROVE  stage[d] = "logged"
      <4>1. CASE e = d
        BY <1>0, <2>2, <3>1, <4>1 DEF Accept, MarkProgressing, EmitProgressing,
           PipelineSays, MarkEnd, EmitEnd, Report, Stage
      <4>2. CASE e # d
        BY <1>0, <3>1, <4>2 DEF Accept, MarkProgressing, EmitProgressing,
           PipelineSays, MarkEnd, AddHistory, EmitEnd, Report, Stage
      <4> QED  BY <4>1, <4>2
    <3>2. stage[d] = "logged"
      BY <3>1, OnlyDeploysWrite
    <3> QED  BY <1>1, <1>2, <3>2
  <2> QED  BY <2>1, <2>2
<1>8. ASSUME NEW note \in Notes, Emit(note), Announced(note)
      PROVE  Ev'
  <2>1. CASE events' = events
    BY <1>4, <2>1
  <2>2. CASE events' = Append(events, note)
    <3> SUFFICES ASSUME NEW i \in DOMAIN events'
                 PROVE  Announced(events[i])'
      OBVIOUS
    <3>1. \/ events'[i] = note
          \/ i \in DOMAIN events /\ events'[i] = events[i]
      <4>1. /\ events'[i] = IF i = Len(events) + 1 THEN note ELSE events[i]
            /\ i \in 1 .. Len(events) + 1
        BY <1>0, <2>2, AppendFacts
      <4>2. DOMAIN events = 1 .. Len(events) /\ Len(events) \in Nat
        BY <1>0
      <4>3. i = Len(events) + 1 \/ i \in 1 .. Len(events)
        BY <4>1, <4>2
      <4>4. CASE i = Len(events) + 1
        BY <4>1, <4>4
      <4>5. CASE i # Len(events) + 1
        BY <4>1, <4>2, <4>3, <4>5
      <4> QED  BY <4>4, <4>5
    <3>2. \E m \in Notes : Announced(m) /\ events'[i] = m
      BY <1>0, <1>1, <1>8, <3>1
    <3> QED  BY <1>3, <3>2 DEF Announced, Added
  <2> QED  BY <1>8, <2>1, <2>2 DEF Emit
<1>9. ASSUME NEW p \in Publishers, NEW note \in Notes, Publish(p, note), Announced(note)
      PROVE  Pu'
  <2> SUFFICES ASSUME NEW q \in Publishers, ~Free(q)'
               PROVE  Announced(publishing[q].note)'
    OBVIOUS
  <2>1. \E m \in Notes : Announced(m) /\ publishing'[q].note = m
    <3>1. CASE q = p
      BY <1>0, <1>9, <3>1 DEF Publish
    <3>2. CASE q # p
      <4>1. publishing'[q] = publishing[q]
        BY <1>0, <1>9, <3>2 DEF Publish
      <4> QED  BY <1>0, <1>1, <4>1 DEF Free
    <3> QED  BY <3>1, <3>2
  <2> QED  BY <1>3, <2>1 DEF Announced, Added
<1>10. ASSUME NEW d \in Deploys, NEW kind \in Kinds, kind # "ended" \/ stage[d] = "logged"
       PROVE  Note(kind, d) \in Notes /\ Announced(Note(kind, d))
  BY <1>1, <1>10, NoteTypes DEF Announced, Note
<1>11. ASSUME NEW d \in Deploys,
              \/ Accept(d) \/ MarkProgressing(d) \/ EmitProgressing(d) \/ PipelineSays(d)
              \/ MarkEnd(d) \/ AddHistory(d) \/ EmitEnd(d) \/ Report(d)
       PROVE  Ev' /\ Pu' /\ Bu'
  <2>0. d \in Publishers
    BY DEF Publishers
  <2>1. buffer' = buffer
    BY <1>11 DEF Accept, MarkProgressing, EmitProgressing, PipelineSays, MarkEnd,
       AddHistory, EmitEnd, Report, sseVars
  <2>2. \/ events' = events
        \/ Emit(Note("reconcile", d))
        \/ stage[d] = "logged" /\ Emit(Note("ended", d))
    <3>1. CASE Accept(d) \/ MarkProgressing(d) \/ PipelineSays(d) \/ MarkEnd(d)
               \/ AddHistory(d) \/ Report(d)
      BY <3>1 DEF Accept, MarkProgressing, PipelineSays, MarkEnd, AddHistory, Report
    <3>2. CASE EmitProgressing(d)
      BY <3>2 DEF EmitProgressing
    <3>3. CASE EmitEnd(d)
      <4>1. stage[d] = "logged"
        BY <3>3 DEF EmitEnd, Stage
      <4>2. Emit(Note("ended", d))
        BY <3>3 DEF EmitEnd
      <4> QED  BY <4>1, <4>2
    <3> QED  BY <1>11, <3>1, <3>2, <3>3
  <2>3. \/ publishing' = publishing
        \/ Publish(d, Note("sync", d)) \/ Publish(d, Note("deploy", d))
        \/ Publish(d, Note("error", d))
    BY <1>11 DEF Accept, MarkProgressing, EmitProgressing, PipelineSays, MarkEnd,
       AddHistory, EmitEnd, Report
  <2>4. Ev'
    BY <1>4, <1>8, <1>10, <2>2 DEF Kinds
  <2>5. Pu'
    BY <1>5, <1>9, <1>10, <2>0, <2>3 DEF Kinds
  <2> QED  BY <1>6, <2>1, <2>4, <2>5

<1>12. ASSUME Forward
       PROVE  Ev' /\ Pu' /\ Bu'
  <2>0. Bridge \in Publishers
    BY DEF Publishers
  <2>1. /\ Head(events) \in Notes /\ Head(events) = events[1] /\ 1 \in DOMAIN events
        /\ \A i \in DOMAIN Tail(events) :
             i + 1 \in DOMAIN events /\ Tail(events)[i] = events[i + 1]
    BY <1>0, <1>12, TailFacts DEF Forward
  <2>2. events' = Tail(events) /\ buffer' = buffer /\ Publish(Bridge, Head(events))
    BY <1>12 DEF Forward, sseVars
  <2>3. Announced(Head(events))
    BY <1>1, <2>1
  <2>4. Pu'
    BY <1>9, <2>0, <2>1, <2>2, <2>3
  <2>5. ASSUME NEW i \in DOMAIN events'
        PROVE  Announced(events[i])'
    <3>1. \E m \in Notes : Announced(m) /\ events'[i] = m
      BY <1>0, <1>1, <2>1, <2>2
    <3> QED  BY <1>3, <3>1 DEF Announced, Added
  <2> QED  BY <1>6, <2>2, <2>4, <2>5
<1>13. ASSUME NEW b \in Browsers, NEW s \in Seq(Notes),
              buffer' = [buffer EXCEPT ![b] = s],
              \A i \in DOMAIN s : Announced(s[i])
       PROVE  Bu'
  <2> SUFFICES ASSUME NEW c \in Browsers, NEW i \in DOMAIN buffer'[c]
               PROVE  Announced(buffer[c][i])'
    OBVIOUS
  <2>1. \E m \in Notes : Announced(m) /\ buffer'[c][i] = m
    <3>1. CASE c = b
      BY <1>0, <1>13, <3>1
    <3>2. CASE c # b
      BY <1>0, <1>1, <1>13, <3>2
    <3> QED  BY <3>1, <3>2
  <2> QED  BY <1>3, <2>1 DEF Announced, Added
<1>14. ASSUME NEW p \in Publishers, NEW b \in Browsers, Offer(p, b)
       PROVE  Ev' /\ Pu' /\ Bu'
  <2> DEFINE note == publishing[p].note
  <2>1. note \in Notes /\ Announced(note)
    BY <1>0, <1>1, <1>14 DEF Offer, Free
  <2>2. events' = events /\ Sent(b, note)
    BY <1>14 DEF Offer
  <2>3. Pu'
    <3> SUFFICES ASSUME NEW q \in Publishers, ~Free(q)'
                 PROVE  Announced(publishing[q].note)'
      OBVIOUS
    <3>1. publishing'[q].note = publishing[q].note /\ ~Free(q)
      <4>1. CASE q = p
        <5>1. publishing'[p] = [publishing[p] EXCEPT !.left = @ \ {b}]
          BY <1>0, <1>14 DEF Offer
        <5>2. publishing[p] \in [note : Notes, left : SUBSET Browsers]
          BY <1>0, <1>14 DEF Offer, Free
        <5>3. publishing'[p].note = publishing[p].note
          BY <5>1, <5>2
        <5> QED  BY <1>14, <4>1, <5>3 DEF Offer
      <4>2. CASE q # p
        BY <1>0, <1>14, <4>2 DEF Offer, Free
      <4> QED  BY <4>1, <4>2
    <3>2. publishing[q].note \in Notes /\ Announced(publishing[q].note)
      BY <1>0, <1>1, <3>1 DEF Free
    <3> QED  BY <1>3, <3>1, <3>2 DEF Announced, Added
  <2> HIDE DEF note
  <2>4. Bu'
    <3> DEFINE s == IF Len(buffer[b]) < BufferSize THEN Append(buffer[b], note)
                    ELSE buffer[b]
    <3>1. buffer' = [buffer EXCEPT ![b] = s]
      BY <2>2 DEF Sent
    <3>2. s \in Seq(Notes)
      BY <1>0, <2>1
    <3>3. \A i \in DOMAIN s : Announced(s[i])
      <4>1. \A i \in DOMAIN Append(buffer[b], note) :
               \/ i \in DOMAIN buffer[b] /\ Append(buffer[b], note)[i] = buffer[b][i]
               \/ Append(buffer[b], note)[i] = note
        BY <1>0, <2>1
      <4> QED  BY <1>1, <2>1, <4>1
    <3> HIDE DEF s
    <3> QED  BY <1>13, <3>1, <3>2, <3>3
  <2> QED  BY <1>4, <2>2, <2>3, <2>4
<1>15. ASSUME NEW p \in Publishers, Release(p)
       PROVE  Ev' /\ Pu' /\ Bu'
  <2>1. events' = events /\ buffer' = buffer
    BY <1>15 DEF Release, sseVars
  <2> SUFFICES ASSUME NEW q \in Publishers, ~Free(q)'
               PROVE  Announced(publishing[q].note)'
    BY <1>4, <1>6, <2>1
  <2>2. publishing'[q] = publishing[q] /\ ~Free(q)
    BY <1>0, <1>15 DEF Release, Free
  <2>3. publishing[q].note \in Notes /\ Announced(publishing[q].note)
    BY <1>0, <1>1, <2>2 DEF Free
  <2> QED  BY <1>3, <2>2, <2>3 DEF Announced, Added
<1>16. ASSUME NEW b \in Browsers,
              \/ Join(b) \/ Leave(b) \/ Locking(b) \/ Deliver(b) \/ PageGoesOn(b)
              \/ \E k \in Slots : Miss(b, k)
       PROVE  Ev' /\ Pu' /\ Bu'
  <2>1. events' = events /\ publishing' = publishing
    BY <1>16 DEF Join, Leave, Locking, Subscribe, Unsubscribe, Deliver, PageGoesOn, Poll,
       Serve, Arrive, Miss
  <2>2. CASE Join(b) \/ Leave(b) \/ Subscribe(b) \/ PageGoesOn(b) \/ \E k \in Slots : Miss(b, k)
    <3>1. buffer' = buffer
      BY <2>2 DEF Join, Leave, Subscribe, PageGoesOn, Poll, Serve, Arrive, Miss, sseVars
    <3> QED  BY <1>4, <1>5, <1>6, <2>1, <3>1
  <2>3. CASE Unsubscribe(b)
    <3>1. buffer' = [buffer EXCEPT ![b] = <<>>] /\ <<>> \in Seq(Notes)
      BY <2>3 DEF Unsubscribe
    <3>2. DOMAIN <<>> = {}
      OBVIOUS
    <3>3. Bu'
      BY <1>13, <3>1, <3>2
    <3> QED  BY <1>4, <1>5, <2>1, <3>3
  <2>4. CASE Deliver(b)
    <3>1. buffer' = [buffer EXCEPT ![b] = Tail(buffer[b])] /\ buffer[b] # <<>>
      BY <2>4 DEF Deliver
    <3>2. /\ Tail(buffer[b]) \in Seq(Notes)
          /\ \A i \in DOMAIN Tail(buffer[b]) :
               i + 1 \in DOMAIN buffer[b] /\ Tail(buffer[b])[i] = buffer[b][i + 1]
      BY <1>0, <3>1, TailFacts
    <3>3. \A i \in DOMAIN Tail(buffer[b]) : Announced(Tail(buffer[b])[i])
      BY <1>1, <3>2
    <3>4. Bu'
      BY <1>13, <3>1, <3>2, <3>3
    <3> QED  BY <1>4, <1>5, <2>1, <3>4
  <2> QED  BY <1>16, <2>2, <2>3, <2>4 DEF Locking
<1> HIDE DEF St, Ev, Pu, Bu
<1>17. ASSUME UNCHANGED boardVars
       PROVE  Ev' /\ Pu' /\ Bu'
  BY <1>4, <1>5, <1>6, <1>17 DEF boardVars
<1>18. Deploys \subseteq Publishers /\ Bridge \in Publishers
  BY DEF Publishers
<1>19. ASSUME BoardNext
       PROVE  Ev' /\ Pu' /\ Bu'
  BY <1>11, <1>12, <1>14, <1>15, <1>16, <1>18, <1>19
     DEF BoardNext, DeployGoesOn, BridgeGoesOn, Publishing
<1> QED  BY <1>7, <1>17, <1>19 DEF AddedFirst, St, Ev, Pu, Bu

\* Each variable stays in its type; the record does because of WrittenTwice.
LEMMA BoardTypesKept ==
    ASSUME BoardTypeOK, WrittenTwice, [BoardNext]_boardVars
    PROVE  BoardTypeOK'
<1> USE BoardAssumption
<1>0. /\ record \in Nat /\ record \in Versions
      /\ history \in Seq(Deploys) /\ Len(history) <= MaxHistory
      /\ added \in Seq(Deploys)
      /\ stage \in [Deploys -> Stages]
      /\ events \in Seq(Notes) /\ Len(events) <= EventsSize
      /\ publishing \in [Publishers -> [note : Notes, left : SUBSET Browsers] \cup {Idle}]
      /\ handler \in [Browsers -> {"off", "joining", "on", "leaving"}]
      /\ buffer \in [Browsers -> Seq(Notes)]
      /\ \A b \in Browsers : Len(buffer[b]) <= BufferSize
      /\ closed \in SUBSET Browsers
      /\ request \in [Browsers -> [Slots -> Versions \cup {Asked, Idle}]]
      /\ shown \in [Browsers -> Versions]
      /\ joins \in [Browsers -> 0 .. MaxJoins]
      /\ misses \in [Browsers -> 0 .. MaxLost]
  BY VersionFacts DEF BoardTypeOK
<1>1. Deploys \subseteq Publishers /\ Bridge \in Publishers
  BY DEF Publishers
<1>2. CASE UNCHANGED boardVars
  BY <1>0, <1>2 DEF BoardTypeOK, boardVars
<1>3. stage' \in [Deploys -> Stages]
  <2>1. ASSUME NEW d \in Deploys,
               \/ Accept(d) \/ MarkProgressing(d) \/ EmitProgressing(d)
               \/ PipelineSays(d) \/ MarkEnd(d) \/ AddHistory(d) \/ EmitEnd(d)
               \/ Report(d)
        PROVE  stage' \in [Deploys -> Stages]
    <3>1. PICK to \in Stages : stage' = [stage EXCEPT ![d] = to]
      BY <2>1 DEF Accept, MarkProgressing, EmitProgressing, PipelineSays, MarkEnd,
         AddHistory, EmitEnd, Report, Stage, Stages
    <3> QED  BY <1>0, <3>1
  <2> QED  BY <1>0, <2>1, OnlyDeploysWrite
<1>4. record' \in Versions
  <2>1. record' \in Nat
    <3>1. record' = record \/ record' = record + 1
      BY OnlyDeploysWrite DEF Accept, MarkProgressing, EmitProgressing, PipelineSays,
         MarkEnd, AddHistory, EmitEnd, Report
    <3> QED  BY <1>0, <3>1
  <2>2. WrittenTwice'
    BY <1>3, WrittenTwiceKept
  <2>3. Cardinality(Marked') \in Nat /\ Cardinality(Settled') \in Nat
        /\ Cardinality(Marked') <= Cardinality(Deploys)
        /\ Cardinality(Settled') <= Cardinality(Deploys)
    <3>1. Marked' \subseteq Deploys /\ Settled' \subseteq Deploys
      BY DEF Marked, Settled
    <3> QED  BY <3>1, FS_Subset, FS_CardinalityType
  <2>4. record' <= 2 * Cardinality(Deploys)
    BY <2>1, <2>2, <2>3, VersionFacts DEF WrittenTwice
  <2> QED  BY <2>1, <2>4, VersionFacts
<1>5. /\ history' \in Seq(Deploys) /\ Len(history') <= MaxHistory
      /\ added' \in Seq(Deploys)
  <2>1. ASSUME NEW d \in Deploys, AddHistory(d)
        PROVE  /\ history' \in Seq(Deploys) /\ Len(history') <= MaxHistory
               /\ added' \in Seq(Deploys)
    <3>1. Append(history, d) \in Seq(Deploys) /\ Append(added, d) \in Seq(Deploys)
      BY <1>0
    <3>2. Kept(Append(history, d)) \in Seq(Deploys)
          /\ Len(Kept(Append(history, d))) <= MaxHistory
      <4> DEFINE h == Append(history, d)
      <4>1. Len(h) \in Nat /\ MaxHistory \in Nat
        BY <3>1
      <4>2. /\ Kept(h) \in Seq(Deploys)
            /\ Len(Kept(h)) = IF Len(h) <= MaxHistory THEN Len(h) ELSE MaxHistory
        BY <3>1, KeptFacts
      <4> HIDE DEF h
      <4>3. Len(Kept(h)) <= MaxHistory
        BY <4>1, <4>2
      <4> QED  BY <4>2, <4>3 DEF h
    <3> QED  BY <2>1, <3>1, <3>2 DEF AddHistory
  <2>2. ASSUME NEW d \in Deploys,
               \/ Accept(d) \/ MarkProgressing(d) \/ EmitProgressing(d)
               \/ PipelineSays(d) \/ MarkEnd(d) \/ EmitEnd(d) \/ Report(d)
        PROVE  history' = history /\ added' = added
    BY <2>2 DEF Accept, MarkProgressing, EmitProgressing, PipelineSays, MarkEnd,
       EmitEnd, Report
  <2> QED  BY <1>0, <2>1, <2>2, OnlyDeploysWrite
<1> DEFINE Rest == /\ events \in Seq(Notes) /\ Len(events) <= EventsSize
                   /\ publishing \in [Publishers ->
                        [note : Notes, left : SUBSET Browsers] \cup {Idle}]
                   /\ handler \in [Browsers -> {"off", "joining", "on", "leaving"}]
                   /\ buffer \in [Browsers -> Seq(Notes)]
                   /\ \A b \in Browsers : Len(buffer[b]) <= BufferSize
                   /\ closed \in SUBSET Browsers
                   /\ request \in [Browsers -> [Slots -> Versions \cup {Asked, Idle}]]
                   /\ shown \in [Browsers -> Versions]
                   /\ joins \in [Browsers -> 0 .. MaxJoins]
                   /\ misses \in [Browsers -> 0 .. MaxLost]
<1>6. ASSUME Rest'
      PROVE  BoardTypeOK'
  BY <1>3, <1>4, <1>5, <1>6 DEF BoardTypeOK
<1>7. ASSUME NEW d \in Deploys, Accept(d) \/ PipelineSays(d) \/ Report(d)
      PROVE  Rest'
  <2>1. PICK kind \in Kinds : Publish(d, Note(kind, d))
    BY <1>7 DEF Accept, PipelineSays, Report, Kinds
  <2>2. publishing' \in [Publishers -> [note : Notes, left : SUBSET Browsers] \cup {Idle}]
    BY <1>1, <2>1, PublishTypes, NoteTypes
  <2>3. UNCHANGED <<events, sseVars, pageVars>>
    BY <1>7 DEF Accept, PipelineSays, Report
  <2> QED  BY <1>0, <2>2, <2>3 DEF sseVars, pageVars
<1>8. ASSUME NEW d \in Deploys, EmitProgressing(d) \/ EmitEnd(d)
      PROVE  Rest'
  <2>1. PICK kind \in Kinds : Emit(Note(kind, d))
    BY <1>8 DEF EmitProgressing, EmitEnd, Kinds
  <2>2. events' \in Seq(Notes) /\ Len(events') <= EventsSize
    BY <2>1, EmitTypes, NoteTypes
  <2>3. UNCHANGED <<publishing, sseVars, pageVars>>
    BY <1>8 DEF EmitProgressing, EmitEnd
  <2> QED  BY <1>0, <2>2, <2>3 DEF sseVars, pageVars
<1>9. ASSUME NEW d \in Deploys, MarkProgressing(d) \/ MarkEnd(d) \/ AddHistory(d)
      PROVE  Rest'
  <2>1. UNCHANGED <<events, publishing, sseVars, pageVars>>
    BY <1>9 DEF MarkProgressing, MarkEnd, AddHistory
  <2> QED  BY <1>0, <2>1 DEF sseVars, pageVars
<1>10. ASSUME NEW p \in Publishers, Publishing(p)
       PROVE  Rest'
  <2>1. CASE Release(p)
    <3>1. publishing' \in [Publishers -> [note : Notes, left : SUBSET Browsers] \cup {Idle}]
      BY <1>0, <2>1 DEF Release
    <3>2. UNCHANGED <<events, sseVars, pageVars>>
      BY <2>1 DEF Release
    <3> QED  BY <1>0, <3>1, <3>2 DEF sseVars, pageVars
  <2>2. ASSUME NEW b \in Browsers, Offer(p, b)
        PROVE  Rest'
    <3>1. publishing[p] \in [note : Notes, left : SUBSET Browsers]
      BY <1>0, <2>2 DEF Offer, Free
    <3>2. publishing' = [publishing EXCEPT ![p] = [publishing[p] EXCEPT !.left = @ \ {b}]]
      BY <2>2 DEF Offer
    <3>3. [publishing[p] EXCEPT !.left = @ \ {b}] \in [note : Notes, left : SUBSET Browsers]
      BY <3>1
    <3>4. publishing' \in [Publishers -> [note : Notes, left : SUBSET Browsers] \cup {Idle}]
      BY <1>0, <3>2, <3>3
    <3> DEFINE s == IF Len(buffer[b]) < BufferSize
                    THEN Append(buffer[b], publishing[p].note) ELSE buffer[b]
    <3>5. buffer' = [buffer EXCEPT ![b] = s]
      BY <2>2 DEF Offer, Sent
    <3>6. s \in Seq(Notes) /\ Len(s) <= BufferSize
      <4>1. publishing[p].note \in Notes /\ Len(buffer[b]) \in Nat
        BY <1>0, <3>1
      <4> QED  BY <1>0, <4>1, AppendFacts
    <3> HIDE DEF s
    <3>7. buffer' \in [Browsers -> Seq(Notes)] /\ \A c \in Browsers : Len(buffer'[c]) <= BufferSize
      BY <1>0, <3>5, <3>6
    <3>8. UNCHANGED <<events, handler, closed, joins, pageVars>>
      BY <2>2 DEF Offer
    <3> QED  BY <1>0, <3>4, <3>7, <3>8 DEF pageVars
  <2> QED  BY <1>10, <2>1, <2>2 DEF Publishing
<1>11. ASSUME Forward
       PROVE  Rest'
  <2>1. Head(events) \in Notes /\ Tail(events) \in Seq(Notes)
        /\ Len(Tail(events)) = Len(events) - 1
    BY <1>0, <1>11, TailFacts DEF Forward
  <2>2. events' = Tail(events) /\ UNCHANGED <<sseVars, pageVars>>
    BY <1>11 DEF Forward
  <2>3. publishing' \in [Publishers -> [note : Notes, left : SUBSET Browsers] \cup {Idle}]
    BY <1>1, <1>11, <2>1, PublishTypes DEF Forward
  <2>4. events' \in Seq(Notes) /\ Len(events') <= EventsSize
    BY <1>0, <2>1, <2>2
  <2> QED  BY <1>0, <2>2, <2>3, <2>4 DEF sseVars, pageVars
<1>12. ASSUME NEW b \in Browsers, Join(b) \/ Leave(b) \/ Subscribe(b)
       PROVE  Rest'
  <2>1. /\ handler' \in [Browsers -> {"off", "joining", "on", "leaving"}]
        /\ closed' \in SUBSET Browsers
    BY <1>0, <1>12 DEF Join, Leave, Subscribe, Handler
  <2>2. joins' \in [Browsers -> 0 .. MaxJoins]
    <3>1. CASE Join(b)
      <4>1. joins[b] + 1 \in 0 .. MaxJoins
        BY <1>0, <3>1 DEF Join
      <4> QED  BY <1>0, <3>1, <4>1 DEF Join
    <3>2. CASE Leave(b) \/ Subscribe(b)
      BY <1>0, <3>2 DEF Leave, Subscribe
    <3> QED  BY <1>12, <3>1, <3>2
  <2>3. UNCHANGED <<events, publishing, buffer, pageVars>>
    BY <1>12 DEF Join, Leave, Subscribe
  <2> QED  BY <1>0, <2>1, <2>2, <2>3 DEF pageVars
<1>13. ASSUME NEW b \in Browsers, Unsubscribe(b)
       PROVE  Rest'
  <2>1. /\ handler' \in [Browsers -> {"off", "joining", "on", "leaving"}]
        /\ closed' \in SUBSET Browsers
    BY <1>0, <1>13 DEF Unsubscribe, Handler
  <2>2. <<>> \in Seq(Notes) /\ Len(<<>>) = 0
    OBVIOUS
  <2>3. buffer' \in [Browsers -> Seq(Notes)] /\ \A c \in Browsers : Len(buffer'[c]) <= BufferSize
    BY <1>0, <1>13, <2>2 DEF Unsubscribe
  <2>4. UNCHANGED <<events, publishing, joins, pageVars>>
    BY <1>13 DEF Unsubscribe
  <2> QED  BY <1>0, <2>1, <2>3, <2>4 DEF pageVars
<1>14. ASSUME NEW b \in Browsers, Deliver(b)
       PROVE  Rest'
  <2>1. buffer' = [buffer EXCEPT ![b] = Tail(buffer[b])] /\ buffer[b] # <<>>
    BY <1>14 DEF Deliver
  <2>2. Tail(buffer[b]) \in Seq(Notes) /\ Len(Tail(buffer[b])) <= BufferSize
    <3>1. /\ Tail(buffer[b]) \in Seq(Notes) /\ Len(Tail(buffer[b])) = Len(buffer[b]) - 1
          /\ Len(buffer[b]) \in Nat /\ Len(buffer[b]) <= BufferSize
      BY <1>0, <2>1, TailFacts
    <3> QED  BY <3>1
  <2>3. buffer' \in [Browsers -> Seq(Notes)] /\ \A c \in Browsers : Len(buffer'[c]) <= BufferSize
    BY <1>0, <2>1, <2>2
  <2>4. request' = request \/ \E k \in Slots : request' = [request EXCEPT ![b][k] = Asked]
    BY <1>14 DEF Deliver
  <2>5. request' \in [Browsers -> [Slots -> Versions \cup {Asked, Idle}]]
    <3>1. CASE request' = request
      BY <1>0, <3>1
    <3>2. ASSUME NEW k \in Slots, request' = [request EXCEPT ![b][k] = Asked]
          PROVE  request' \in [Browsers -> [Slots -> Versions \cup {Asked, Idle}]]
      BY <1>0, <3>2
    <3> QED  BY <2>4, <3>1, <3>2
  <2>6. UNCHANGED <<events, publishing, handler, closed, joins, shown, misses>>
    BY <1>14 DEF Deliver
  <2> QED  BY <1>0, <2>3, <2>5, <2>6
<1>15. ASSUME NEW b \in Browsers, NEW k \in Slots,
              Poll(b, k) \/ Serve(b, k) \/ Arrive(b, k) \/ Miss(b, k)
       PROVE  Rest'
  <2>1. PICK r \in Versions \cup {Asked, Idle} : request' = [request EXCEPT ![b][k] = r]
    BY <1>0, <1>15 DEF Poll, Serve, Arrive, Miss
  <2>2. request' \in [Browsers -> [Slots -> Versions \cup {Asked, Idle}]]
    BY <1>0, <2>1
  <2>3. shown' \in [Browsers -> Versions]
    BY <1>0, <1>15 DEF Poll, Serve, Arrive, Miss
  <2>4. misses' \in [Browsers -> 0 .. MaxLost]
    <3>1. CASE Miss(b, k)
      <4>1. misses[b] + 1 \in 0 .. MaxLost
        BY <1>0, <3>1 DEF Miss
      <4> QED  BY <1>0, <3>1, <4>1 DEF Miss
    <3>2. CASE Poll(b, k) \/ Serve(b, k) \/ Arrive(b, k)
      BY <1>0, <3>2 DEF Poll, Serve, Arrive
    <3> QED  BY <1>15, <3>1, <3>2
  <2>5. UNCHANGED <<events, publishing, sseVars>>
    BY <1>15 DEF Poll, Serve, Arrive, Miss
  <2> QED  BY <1>0, <2>2, <2>3, <2>4, <2>5 DEF sseVars
<1> HIDE DEF Rest
<1> QED  BY <1>1, <1>2, <1>6, <1>7, <1>8, <1>9, <1>10, <1>11, <1>12, <1>13, <1>14, <1>15
         DEF BoardNext, DeployGoesOn, BridgeGoesOn, Locking, PageGoesOn

-----------------------------------------------------------------------------
(* Theorems about the dashboard.                                           *)

\* At the start nothing is deployed and nobody listens.
LEMMA BoardStarts == BoardInit => BoardInv
<1> SUFFICES ASSUME BoardInit
             PROVE  BoardInv
  OBVIOUS
<1> USE BoardAssumption
<1>1. /\ Cardinality(Past) \in Nat /\ IsFiniteSet(Past)
      /\ Cardinality(Past) <= Cardinality(Deploys)
  BY FS_Subset, FS_CardinalityType
<1>2. record \in Versions /\ record = 2 * Cardinality(Past)
  BY <1>1, VersionFacts DEF BoardInit
<1>3. added \in Seq(Deploys) /\ history = Kept(added)
  <2>1. added \in [1 .. Cardinality(Past) -> Past]
    BY DEF BoardInit
  <2>2. added \in [1 .. Cardinality(Past) -> Deploys]
    BY <2>1
  <2> QED  BY <1>1, <2>2 DEF BoardInit
<1>4. /\ history \in Seq(Deploys)
      /\ Len(history) = IF Len(added) <= MaxHistory THEN Len(added) ELSE MaxHistory
      /\ \A j \in 1 .. Len(history) : history[j] = added[Len(added) - Len(history) + j]
  BY <1>3, KeptFacts
<1>5. /\ events = <<>> /\ \A b \in Browsers : buffer[b] = <<>>
      /\ \A p \in Publishers : publishing[p] = Idle
      /\ closed = {} /\ \A b \in Browsers : handler[b] = "off"
  BY DEF BoardInit
<1>6. BoardTypeOK
  <2>1. /\ record \in Versions /\ added \in Seq(Deploys)
        /\ history \in Seq(Deploys) /\ Len(history) <= MaxHistory
    BY <1>2, <1>3, <1>4
  <2>2. stage \in [Deploys -> Stages]
    BY DEF BoardInit, Stages
  <2>3. /\ events \in Seq(Notes) /\ Len(events) <= EventsSize
        /\ \A b \in Browsers : Len(buffer[b]) <= BufferSize
    BY <1>5
  <2>4. buffer \in [Browsers -> Seq(Notes)]
    BY DEF BoardInit
  <2>5. /\ publishing \in [Publishers -> [note : Notes, left : SUBSET Browsers] \cup {Idle}]
        /\ handler \in [Browsers -> {"off", "joining", "on", "leaving"}]
        /\ closed \in SUBSET Browsers
        /\ request \in [Browsers -> [Slots -> Versions \cup {Asked, Idle}]]
    BY DEF BoardInit
  <2>6. shown \in [Browsers -> Versions]
    BY <1>2 DEF BoardInit
  <2>7. joins \in [Browsers -> 0 .. MaxJoins] /\ misses \in [Browsers -> 0 .. MaxLost]
    BY DEF BoardInit
  <2> QED  BY <2>1, <2>2, <2>3, <2>4, <2>5, <2>6, <2>7 DEF BoardTypeOK
<1>7. WrittenTwice
  <2>1. Marked = Past /\ Settled = Past
    BY DEF BoardInit, Marked, Settled
  <2> QED  BY <1>1, <1>2, <2>1 DEF WrittenTwice
<1>8. OpenToPublishers
  BY <1>5 DEF OpenToPublishers, Free
<1>9. HistoryIsTail
  BY <1>4 DEF HistoryIsTail
<1>10. AddedFirst
  <2>1. \A d \in Deploys : stage[d] # "logged"
    BY DEF BoardInit
  <2>2. DOMAIN <<>> = {}
    OBVIOUS
  <2> QED  BY <1>5, <2>1, <2>2 DEF AddedFirst, Free
<1> QED  BY <1>6, <1>7, <1>8, <1>9, <1>10 DEF BoardInv

\* All of it, along every behaviour.
LEMMA BoardInvariant == BoardSpec => []BoardInv
<1>1. BoardInv /\ [BoardNext]_boardVars => BoardInv'
  <2> SUFFICES ASSUME BoardInv, [BoardNext]_boardVars
               PROVE  BoardInv'
    OBVIOUS
  <2> USE DEF BoardInv
  <2>1. BoardTypeOK'
    BY BoardTypesKept
  <2>2. stage' \in [Deploys -> Stages]
    BY <2>1 DEF BoardTypeOK
  <2>3. WrittenTwice' /\ OpenToPublishers'
    BY <2>2, WrittenTwiceKept, OpenKept
  <2>4. HistoryIsTail' /\ AddedFirst'
    BY HistoryKept, AddedFirstKept
  <2> QED  BY <2>1, <2>3, <2>4
<1> QED  BY <1>1, BoardStarts, PTL DEF BoardSpec

\* Every reachable state of the deploys, the bridge, the broker and the pages is
\* of its type; no channel is ever fuller than it is made, and the record is
\* written at most twice for every deploy.
THEOREM BoardTypeCorrect == BoardSpec => []BoardTypeOK
<1>1. BoardInv => BoardTypeOK
  BY DEF BoardInv
<1> QED  BY <1>1, BoardInvariant, PTL

\* With any number of publishers and of browsers that come and go, no publisher
\* holds a subscriber whose channel unsub has closed.
THEOREM NoSendOnClosedAlways == BoardSpec => []NoSendOnClosed
<1>1. BoardInv => NoSendOnClosed
  BY DEF BoardInv, OpenToPublishers, NoSendOnClosed
<1> QED  BY <1>1, BoardInvariant, PTL

\* Whoever holds the message that a deploy ended finds its entry in the history,
\* unless MaxHistory later ones have pushed it out.
THEOREM EndedIsInHistoryAlways == BoardSpec => []EndedIsInHistory
<1>1. BoardInv => EndedIsInHistory
  <2> SUFFICES ASSUME BoardInv, NEW d \in EndsOnTheWay
               PROVE  \E i \in DOMAIN added :
                        /\ added[i] = d
                        /\ Len(added) - i < MaxHistory =>
                             \E j \in DOMAIN history : history[j] = d
    BY DEF EndedIsInHistory
  <2>1. PICK i \in DOMAIN added : added[i] = d
    BY DEF BoardInv, AddedFirst, EndsOnTheWay, Announced, Added
  <2>2. /\ DOMAIN added = 1 .. Len(added) /\ DOMAIN history = 1 .. Len(history)
        /\ Len(added) \in Nat /\ Len(history) \in Nat /\ MaxHistory \in Nat
    BY BoardAssumption DEF BoardInv, BoardTypeOK
  <2>3. ASSUME Len(added) - i < MaxHistory
        PROVE  \E j \in DOMAIN history : history[j] = d
    <3> DEFINE j == i - (Len(added) - Len(history))
    <3>1. Len(history) = IF Len(added) <= MaxHistory THEN Len(added) ELSE MaxHistory
      BY DEF BoardInv, HistoryIsTail
    <3>2. j \in 1 .. Len(history) /\ Len(added) - Len(history) + j = i
      BY <2>1, <2>2, <2>3, <3>1
    <3>3. history[j] = added[Len(added) - Len(history) + j]
      BY <3>2 DEF BoardInv, HistoryIsTail
    <3> HIDE DEF j
    <3> QED  BY <2>1, <2>2, <3>2, <3>3
  <2> QED  BY <2>1, <2>3
<1> QED  BY <1>1, BoardInvariant, PTL

-----------------------------------------------------------------------------
(* Config syncs: the inductive invariant.                                  *)

Syncing(j) == sync[j].at \notin SyncEnded

\* What a job has in its hands at each step.
InHand(r) ==
    /\ r.at \notin {"new", "failed"} => r.server \in Servers
    /\ r.at \in {"walk", "find"} => r.todo = r.changed
    /\ r.at = "walk" => r.changed = {}
    /\ r.at = "synced" => r.todo = {}
    /\ r.at \in {"read", "copy"} => r.path \in r.todo
    /\ r.at = "copy" => r.text >= r.need[r.path]
    /\ r.server \in Servers => r.id <= box[r.server].id
JobsInHand == \A j \in Jobs : InHand(sync[j])

\* A file is never older than it was when a job began.
NotAhead(r) ==
    \A p \in Paths : /\ r.need[p] <= commits + 1
                     /\ tree[p] = 0 \/ tree[p] >= r.need[p]
NeverOlder ==
    /\ \A p \in Paths : tree[p] <= commits + 1
    /\ \A j \in Jobs : NotAhead(sync[j])

\* A job that met no other one on its server is alone there while it runs, and
\* what others copy there later was read after it began.
AloneWith(j, k) ==
    Server(j) = Server(k) =>
        /\ ~(Syncing(j) /\ Syncing(k))
        /\ sync[j].at \notin {"new", "failed"} /\ SyncAt(k, "copy") =>
             sync[k].text >= sync[j].need[sync[k].path]
AloneOnServer == \A j \in Jobs \ crossed : \A k \in Jobs \ {j} : AloneWith(j, k)

\* The files of its directory that such a job is done with are in the container
\* it found, and when it has reloaded the game, in the game.
Delivered(file, p, r) == file[p] > 0 /\ file[p] >= r.need[p]
DoneWith(r) ==
    LET s == r.server IN
    /\ r.at \in {"files", "read", "copy", "synced"}
    /\ ~EndsInSlash(ConfigDir[s]) /\ box[s].id = r.id
    => \A p \in r.changed \ r.todo :
         Inside(p, s) => /\ Delivered(box[s].files, p, r)
                         /\ r.at = "synced" /\ s \in Reachable =>
                              Delivered(loaded[s], p, r)
DoneIsThere == \A j \in Jobs \ crossed : DoneWith(sync[j])

SyncInv ==
    SyncTypeOK /\ JobsInHand /\ NeverOlder /\ AloneOnServer /\ DoneIsThere

-----------------------------------------------------------------------------
(* Directories.                                                            *)

\* What MapServersByConfig finds in a directory that is written without a slash
\* at its end, mapConfigPath maps too.
LEMMA InsideIsMapped ==
    ASSUME NEW p \in Paths, NEW s \in Servers, Inside(p, s), ~EndsInSlash(ConfigDir[s])
    PROVE  Mapped(p, s)
<1> DEFINE S == UNION {{q[i] : i \in DOMAIN q} : q \in Paths} \cup {Slash}
           dir == ConfigDir[s]
           long == Append(dir, Slash)
<1>1. dir \in Seq(S) /\ dir # <<>> /\ p \in Seq(Range(p))
  BY SyncAssumption DEF Inside
<1>2. WithoutSlash(dir) = dir
  BY DEF WithoutSlash
<1>3. IsPrefix(long, p)
  BY <1>2 DEF Inside
<1> HIDE DEF S
<1>4. /\ long \in Seq(S \cup {Slash}) /\ Len(long) = Len(dir) + 1
      /\ Len(dir) \in Nat /\ Len(p) \in Nat
      /\ \A i \in 1 .. Len(dir) : long[i] = dir[i]
  <2>1. dir \in Seq(S \cup {Slash})
    BY <1>1, SeqMonotonic
  <2> QED  BY <1>1, <2>1
<1> HIDE DEF long, dir
<1>5. IsPrefix(long, long)
  BY <1>4 DEF IsPrefix
<1>6. MapPrefix(dir) = dir
  BY <1>2, <1>5 DEF MapPrefix, long, dir
<1>7. Len(long) <= Len(p) /\ SubSeq(long, 1, Len(long)) = SubSeq(p, 1, Len(long))
  BY <1>3 DEF IsPrefix
<1>8. \A i \in 1 .. Len(dir) : dir[i] = p[i]
  <2> SUFFICES ASSUME NEW i \in 1 .. Len(dir)
               PROVE  dir[i] = p[i]
    OBVIOUS
  <2>1. i \in 1 .. Len(long)
    BY <1>4
  <2>2. SubSeq(long, 1, Len(long))[i] = long[i] /\ SubSeq(p, 1, Len(long))[i] = p[i]
    BY <1>4, <2>1
  <2> QED  BY <1>4, <1>7, <2>2
<1>9. SubSeq(dir, 1, Len(dir)) = SubSeq(p, 1, Len(dir))
  BY <1>4, <1>8
<1>10. IsPrefix(dir, p)
  BY <1>4, <1>7, <1>9 DEF IsPrefix
<1> QED  BY <1>1, <1>6, <1>10 DEF Mapped, dir

-----------------------------------------------------------------------------
(* Jobs.                                                                   *)

\* A job that begins.
LEMMA BegunFacts ==
    ASSUME SyncTypeOK, NEW step \in SyncSteps, NEW s \in Servers,
           NEW changed \in SUBSET Paths
    PROVE  LET r == Begun(step, s, changed) IN
           /\ r \in Syncs /\ r.at = step /\ r.server = s
           /\ r.changed = changed /\ r.todo = changed /\ r.id = 0
           /\ r.path = NoPath /\ r.text = 0
           /\ r.need = [p \in Paths |-> IF p \in changed THEN tree[p] ELSE 0]
<1> DEFINE need == [p \in Paths |-> IF p \in changed THEN tree[p] ELSE 0]
<1>1. 0 \in Contents /\ tree \in [Paths -> Contents]
  BY SyncAssumption DEF SyncTypeOK, Contents
<1>2. need \in [Paths -> Contents]
  BY <1>1
<1>3. Begun(step, s, changed) =
        [NotBegun EXCEPT !.at = step, !.server = s, !.changed = changed,
                         !.todo = changed, !.need = need]
  BY DEF Begun
<1> HIDE DEF need
<1>4. Begun(step, s, changed) =
        [at |-> step, server |-> s, changed |-> changed, todo |-> changed, id |-> 0,
         path |-> NoPath, text |-> 0, need |-> need]
  BY <1>3 DEF NotBegun
<1>5. Begun(step, s, changed) \in Syncs
  BY <1>1, <1>2, <1>4 DEF Syncs
<1>6. LET r == Begun(step, s, changed) IN
      /\ r.at = step /\ r.server = s /\ r.changed = changed /\ r.todo = changed
      /\ r.id = 0 /\ r.path = NoPath /\ r.text = 0 /\ r.need = need
  BY <1>4
<1> QED  BY <1>5, <1>6 DEF need

\* A job that failed has nothing in its hands.
LEMMA FailedFacts ==
    LET r == [NotBegun EXCEPT !.at = "failed"] IN
    /\ r \in Syncs /\ r.at = "failed" /\ r.server = NoServer
    /\ r.changed = {} /\ r.todo = {} /\ r.id = 0 /\ r.path = NoPath /\ r.text = 0
    /\ r.need = [p \in Paths |-> 0]
<1>1. 0 \in Contents
  BY SyncAssumption DEF Contents
<1>2. [NotBegun EXCEPT !.at = "failed"] =
        [at |-> "failed", server |-> NoServer, changed |-> {}, todo |-> {}, id |-> 0,
         path |-> NoPath, text |-> 0, need |-> [p \in Paths |-> 0]]
  BY DEF NotBegun
<1> QED  BY <1>1, <1>2 DEF Syncs, SyncSteps

\* A job goes on, at most its record is another one.
LEMMA OneJob ==
    ASSUME SyncTypeOK, NEW j \in Jobs, NEW r \in Syncs, sync' = [sync EXCEPT ![j] = r]
    PROVE  /\ sync' \in [Jobs -> Syncs] /\ sync'[j] = r
           /\ \A k \in Jobs \ {j} : sync'[k] = sync[k]
BY DEF SyncTypeOK

\* Two records of a job are the same but for the fields an action names.
SameDir(r, t) == r.server = t.server /\ r.changed = t.changed /\ r.need = t.need

\* FindContainer found it: the job has its id.
LEMMA FindChanges ==
    ASSUME SyncTypeOK, JobsInHand, NEW j \in Jobs, Find(j)
    PROVE  \E r \in Syncs :
             /\ sync' = [sync EXCEPT ![j] = r] /\ SameDir(r, sync[j])
             /\ r.at = "files" /\ r.id = box[Server(j)].id
             /\ r.todo = sync[j].todo /\ r.path = sync[j].path /\ r.text = sync[j].text
<1> DEFINE id == box[Server(j)].id
           r == [sync[j] EXCEPT !.at = "files", !.id = id]
<1>1. sync[j] \in Syncs /\ sync \in [Jobs -> Syncs] /\ id \in Nat
  BY DEF SyncTypeOK, JobsInHand, InHand, Find, SyncAt, Server
<1>2. sync' = [sync EXCEPT ![j] = r]
  BY <1>1 DEF Find
<1> HIDE DEF id
<1>3. r \in Syncs
  BY <1>1 DEF Syncs, SyncSteps
<1>4. /\ SameDir(r, sync[j]) /\ r.at = "files" /\ r.id = id
      /\ r.todo = sync[j].todo /\ r.path = sync[j].path /\ r.text = sync[j].text
  BY <1>1 DEF Syncs, SameDir
<1> HIDE DEF r
<1> QED  BY <1>2, <1>3, <1>4 DEF id

\* A file that is there and is mapped is the one to copy.
LEMMA CheckFileChanges ==
    ASSUME SyncTypeOK, NEW j \in Jobs, NEW p \in Paths,
           tree[p] # 0, Mapped(p, Server(j)), CheckFile(j, p)
    PROVE  \E r \in Syncs :
             /\ sync' = [sync EXCEPT ![j] = r] /\ SameDir(r, sync[j])
             /\ r.at = "read" /\ r.path = p /\ r.id = sync[j].id
             /\ r.todo = sync[j].todo /\ r.text = sync[j].text
<1> DEFINE r == [sync[j] EXCEPT !.at = "read", !.path = p]
<1>1. sync[j] \in Syncs /\ sync \in [Jobs -> Syncs]
  BY DEF SyncTypeOK
<1>2. sync' = [sync EXCEPT ![j] = r]
  BY <1>1 DEF CheckFile
<1>3. r \in Syncs
  BY <1>1 DEF Syncs, SyncSteps
<1>4. /\ SameDir(r, sync[j]) /\ r.at = "read" /\ r.path = p /\ r.id = sync[j].id
      /\ r.todo = sync[j].todo /\ r.text = sync[j].text
  BY <1>1 DEF Syncs, SameDir
<1> HIDE DEF r
<1> QED  BY <1>2, <1>3, <1>4

\* One that is not mapped is done with.
LEMMA CheckFileSkips ==
    ASSUME SyncTypeOK, NEW j \in Jobs, NEW p \in Paths,
           tree[p] # 0, ~Mapped(p, Server(j)), CheckFile(j, p)
    PROVE  \E r \in Syncs :
             /\ sync' = [sync EXCEPT ![j] = r] /\ SameDir(r, sync[j])
             /\ r.at = "files" /\ r.path = sync[j].path /\ r.id = sync[j].id
             /\ r.todo = sync[j].todo \ {p} /\ r.text = sync[j].text
<1> DEFINE r == [sync[j] EXCEPT !.todo = @ \ {p}]
<1>1. sync[j] \in Syncs /\ sync \in [Jobs -> Syncs] /\ sync[j].at = "files"
  BY DEF SyncTypeOK, CheckFile, SyncAt
<1>2. sync' = [sync EXCEPT ![j] = r]
  BY <1>1 DEF CheckFile
<1>3. r \in Syncs
  BY <1>1 DEF Syncs, SyncSteps
<1>4. /\ SameDir(r, sync[j]) /\ r.at = "files" /\ r.path = sync[j].path
      /\ r.id = sync[j].id /\ r.todo = sync[j].todo \ {p} /\ r.text = sync[j].text
  BY <1>1 DEF Syncs, SameDir
<1> HIDE DEF r
<1> QED  BY <1>2, <1>3, <1>4

\* The job has the file's content.
LEMMA ReadFileChanges ==
    ASSUME SyncTypeOK, NEW j \in Jobs, tree[sync[j].path] # 0, ReadFile(j)
    PROVE  \E r \in Syncs :
             /\ sync' = [sync EXCEPT ![j] = r] /\ SameDir(r, sync[j])
             /\ r.at = "copy" /\ r.path = sync[j].path /\ r.id = sync[j].id
             /\ r.todo = sync[j].todo /\ r.text = tree[sync[j].path]
<1> DEFINE now == tree[sync[j].path]
           r == [sync[j] EXCEPT !.at = "copy", !.text = now]
<1>1. sync[j] \in Syncs /\ sync \in [Jobs -> Syncs] /\ now \in Contents
  <2>1. sync[j].path # NoPath
    BY DEF SyncTypeOK, ReadFile, SyncAt
  <2> QED  BY <2>1 DEF SyncTypeOK, Syncs
<1>2. sync' = [sync EXCEPT ![j] = r]
  BY <1>1 DEF ReadFile
<1> HIDE DEF now
<1>3. r \in Syncs
  BY <1>1 DEF Syncs, SyncSteps
<1>4. /\ SameDir(r, sync[j]) /\ r.at = "copy" /\ r.path = sync[j].path
      /\ r.id = sync[j].id /\ r.todo = sync[j].todo /\ r.text = now
  BY <1>1 DEF Syncs, SameDir
<1> HIDE DEF r
<1> QED  BY <1>2, <1>3, <1>4 DEF now

\* CopyFile of a container that is there.
Copies(j) == box[Server(j)].id = sync[j].id /\ Copyable(sync[j].path, Server(j))

\* The file is copied.
LEMMA CopyFileChanges ==
    ASSUME SyncTypeOK, NEW j \in Jobs, Copies(j), CopyFile(j)
    PROVE  \E r \in Syncs :
             /\ sync' = [sync EXCEPT ![j] = r] /\ SameDir(r, sync[j])
             /\ r.at = "files" /\ r.path = NoPath /\ r.id = sync[j].id
             /\ r.todo = sync[j].todo \ {sync[j].path} /\ r.text = 0
<1> DEFINE r == [sync[j] EXCEPT !.at = "files", !.path = NoPath, !.text = 0,
                                !.todo = @ \ {sync[j].path}]
<1>1. sync[j] \in Syncs /\ sync \in [Jobs -> Syncs] /\ 0 \in Contents
  BY SyncAssumption DEF SyncTypeOK, Contents
<1>2. sync' = [sync EXCEPT ![j] = r]
  BY <1>1 DEF CopyFile, Copies
<1>3. r \in Syncs
  BY <1>1 DEF Syncs, SyncSteps
<1>4. /\ SameDir(r, sync[j]) /\ r.at = "files" /\ r.path = NoPath /\ r.id = sync[j].id
      /\ r.todo = sync[j].todo \ {sync[j].path} /\ r.text = 0
  BY <1>1 DEF Syncs, SameDir
<1> HIDE DEF r
<1> QED  BY <1>2, <1>3, <1>4

\* NoOverlay, Reload.
LEMMA SyncTurnChanges ==
    ASSUME SyncTypeOK, NEW j \in Jobs, SyncTurn(j, "synced")
    PROVE  \E r \in Syncs :
             /\ sync' = [sync EXCEPT ![j] = r] /\ SameDir(r, sync[j])
             /\ r.at = "synced" /\ r.path = sync[j].path /\ r.id = sync[j].id
             /\ r.todo = sync[j].todo /\ r.text = sync[j].text
<1> DEFINE r == [sync[j] EXCEPT !.at = "synced"]
<1>1. sync[j] \in Syncs /\ sync \in [Jobs -> Syncs]
  BY DEF SyncTypeOK
<1>2. sync' = [sync EXCEPT ![j] = r]
  BY <1>1 DEF SyncTurn
<1>3. r \in Syncs
  BY <1>1 DEF Syncs, SyncSteps
<1>4. /\ SameDir(r, sync[j]) /\ r.at = "synced" /\ r.path = sync[j].path
      /\ r.id = sync[j].id /\ r.todo = sync[j].todo /\ r.text = sync[j].text
  BY <1>1 DEF Syncs, SameDir
<1> HIDE DEF r
<1> QED  BY <1>2, <1>3, <1>4

\* What the type invariant says of a job besides its record's type.
OwnPath(r) ==
    /\ r.path # NoPath <=> r.at \in {"read", "copy"}
    /\ r.at = "copy" => r.text # 0
    /\ r.todo \subseteq r.changed

-----------------------------------------------------------------------------
(* One job moves, the others stay.                                         *)

\* Types.
LEMMA SyncTypesKept ==
    ASSUME SyncTypeOK, NEW j \in Jobs, NEW r \in Syncs, sync' = [sync EXCEPT ![j] = r],
           OwnPath(r), UNCHANGED <<tree, commits, news, diff>>,
           picked' \in SUBSET Servers, crossed' \in SUBSET Jobs,
           box' \in [Servers -> [id : Nat, files : [Paths -> Contents]]],
           loaded' \in [Servers -> [Paths -> Contents]]
    PROVE  SyncTypeOK'
<1>1. /\ sync' \in [Jobs -> Syncs] /\ sync'[j] = r
      /\ \A k \in Jobs \ {j} : sync'[k] = sync[k]
  BY OneJob
<1>2. \A k \in Jobs : OwnPath(sync[k])
  BY DEF SyncTypeOK, OwnPath, SyncAt
<1>3. \A k \in Jobs : OwnPath(sync'[k])
  BY <1>1, <1>2
<1> QED  BY <1>1, <1>3 DEF SyncTypeOK, OwnPath, SyncAt

\* What the other jobs have in their hands, they keep.
LEMMA InHandKept ==
    ASSUME SyncTypeOK, JobsInHand, NEW j \in Jobs, NEW r \in Syncs,
           sync' = [sync EXCEPT ![j] = r], InHand(r)',
           box' \in [Servers -> [id : Nat, files : [Paths -> Contents]]],
           \A s \in Servers : box[s].id <= box'[s].id
    PROVE  JobsInHand'
<1>1. sync'[j] = r /\ \A k \in Jobs \ {j} : sync'[k] = sync[k]
  BY OneJob
<1> SUFFICES ASSUME NEW k \in Jobs
             PROVE  InHand(sync[k])'
  BY DEF JobsInHand
<1>2. CASE k = j
  BY <1>1, <1>2 DEF InHand
<1>3. CASE k # j
  <2> DEFINE t == sync[k]
  <2>1. t \in Syncs /\ InHand(t) /\ sync'[k] = t
    BY <1>1, <1>3 DEF SyncTypeOK, JobsInHand
  <2> HIDE DEF t
  <2>2. ASSUME t.server \in Servers
        PROVE  t.id <= box'[t.server].id
    <3>1. box[t.server].id \in Nat /\ box'[t.server].id \in Nat /\ t.id \in Nat
      BY <2>1, <2>2 DEF SyncTypeOK, Syncs
    <3>2. t.id <= box[t.server].id
      BY <2>1, <2>2 DEF InHand
    <3> QED  BY <2>2, <3>1, <3>2
  <2> QED  BY <2>1, <2>2 DEF InHand
<1> QED  BY <1>2, <1>3

\* The working copy stays as it is.
LEMMA NeverOlderKept ==
    ASSUME SyncTypeOK, NeverOlder, NEW j \in Jobs, NEW r \in Syncs,
           sync' = [sync EXCEPT ![j] = r], NotAhead(r), UNCHANGED <<tree, commits>>
    PROVE  NeverOlder'
<1>1. sync'[j] = r /\ \A k \in Jobs \ {j} : sync'[k] = sync[k]
  BY OneJob
<1> QED  BY <1>1 DEF NeverOlder, NotAhead

\* A job that runs goes on where it is alone.
LEMMA AloneOnServerKept ==
    ASSUME SyncTypeOK, AloneOnServer, NEW j \in Jobs, NEW r \in Syncs,
           sync' = [sync EXCEPT ![j] = r], crossed' = crossed, Syncing(j),
           r.at # "failed" => r.server = Server(j),
           r.at = "copy" => \A k \in Jobs : r.text >= sync[k].need[r.path]
    PROVE  AloneOnServer'
<1>1. sync'[j] = r /\ \A k \in Jobs \ {j} : sync'[k] = sync[k]
  BY OneJob
<1> SUFFICES ASSUME NEW k \in Jobs \ crossed, NEW l \in Jobs \ {k},
                    sync'[k].server = sync'[l].server
             PROVE  /\ ~(Syncing(k)' /\ Syncing(l)')
                    /\ sync'[k].at \notin {"new", "failed"} /\ sync'[l].at = "copy" =>
                         sync'[l].text >= sync'[k].need[sync'[l].path]
  BY DEF AloneOnServer, AloneWith, Server, SyncAt
<1>2. AloneWith(k, l)
  BY DEF AloneOnServer
<1>3. CASE k = j
  BY <1>1, <1>2, <1>3 DEF AloneWith, Server, SyncAt, Syncing, SyncEnded
<1>4. CASE l = j
  BY <1>1, <1>2, <1>4 DEF AloneWith, Server, SyncAt, Syncing, SyncEnded
<1>5. CASE k # j /\ l # j
  BY <1>1, <1>2, <1>5 DEF AloneWith, Server, SyncAt, Syncing
<1> QED  BY <1>3, <1>4, <1>5

\* loaded changes by a reload only.
Reloaded == loaded' = loaded \/ \E s \in Servers : Reloads(s)

\* What the game loads is what the container has.
LEMMA ReloadedType ==
    ASSUME SyncTypeOK, Reloaded
    PROVE  loaded' \in [Servers -> [Paths -> Contents]]
<1>1. CASE loaded' = loaded
  BY <1>1 DEF SyncTypeOK
<1>2. ASSUME NEW s \in Servers, Reloads(s)
      PROVE  loaded' \in [Servers -> [Paths -> Contents]]
  <2>1. box[s].files \in [Paths -> Contents]
    BY DEF SyncTypeOK
  <2> QED  BY <1>2, <2>1 DEF SyncTypeOK, Reloads
<1> QED  BY <1>1, <1>2 DEF Reloaded

\* A reload takes nothing away that another job has loaded.
LEMMA DoneIsThereKept ==
    ASSUME SyncTypeOK, JobsInHand, DoneIsThere, NEW j \in Jobs, NEW r \in Syncs,
           sync' = [sync EXCEPT ![j] = r], UNCHANGED <<crossed, box>>, Reloaded,
           j \notin crossed => DoneWith(r)'
    PROVE  DoneIsThere'
<1>1. sync'[j] = r /\ \A k \in Jobs \ {j} : sync'[k] = sync[k]
  BY OneJob
<1> SUFFICES ASSUME NEW k \in Jobs \ crossed
             PROVE  DoneWith(sync[k])'
  BY DEF DoneIsThere
<1>2. CASE k = j
  BY <1>1, <1>2 DEF DoneWith, Delivered
<1>3. CASE k # j
  <2> DEFINE t == sync[k]
  <2>1. sync'[k] = t /\ DoneWith(t) /\ InHand(t)
    BY <1>1, <1>3 DEF DoneIsThere, JobsInHand
  <2> HIDE DEF t
  <2>2. CASE t.at \notin {"files", "read", "copy", "synced"}
    BY <2>1, <2>2 DEF DoneWith
  <2>3. CASE t.at \in {"files", "read", "copy", "synced"}
    <3>1. t.server \in Servers
      BY <2>1, <2>3 DEF InHand
    <3>2. loaded'[t.server] \in {loaded[t.server], box[t.server].files}
      <4>1. CASE loaded' = loaded
        BY <4>1
      <4>2. ASSUME NEW s \in Servers, Reloads(s)
            PROVE  loaded'[t.server] \in {loaded[t.server], box[t.server].files}
        BY <3>1, <4>2 DEF Reloads, SyncTypeOK
      <4> QED  BY <4>1, <4>2 DEF Reloaded
    <3> QED  BY <2>1, <3>1, <3>2 DEF DoneWith, Delivered
  <2> QED  BY <2>2, <2>3
<1> QED  BY <1>2, <1>3

\* A step of a sync that runs and leaves the containers alone.
LEMMA SyncGoesOn ==
    ASSUME SyncInv, NEW j \in Jobs, NEW r \in Syncs, sync' = [sync EXCEPT ![j] = r],
           Syncing(j), UNCHANGED <<repoVars, diff, picked, box, crossed>>, Reloaded,
           OwnPath(r), InHand(r), NotAhead(r), r.at # "failed" => r.server = Server(j),
           r.at = "copy" => \A k \in Jobs : r.text >= sync[k].need[r.path],
           j \notin crossed => DoneWith(r)'
    PROVE  SyncInv'
<1> USE DEF SyncInv, repoVars
<1>1. SyncTypeOK'
  <2>1. /\ box' \in [Servers -> [id : Nat, files : [Paths -> Contents]]]
        /\ picked' \in SUBSET Servers /\ crossed' \in SUBSET Jobs
    BY DEF SyncTypeOK
  <2> QED  BY <2>1, SyncTypesKept, ReloadedType
<1>2. JobsInHand'
  <2>1. box' \in [Servers -> [id : Nat, files : [Paths -> Contents]]]
    BY DEF SyncTypeOK
  <2>2. \A s \in Servers : box[s].id <= box'[s].id
    BY DEF SyncTypeOK
  <2>3. InHand(r)'
    BY DEF InHand
  <2> QED  BY <2>1, <2>2, <2>3, InHandKept
<1>3. NeverOlder'
  BY NeverOlderKept
<1>4. AloneOnServer'
  BY AloneOnServerKept
<1>5. DoneIsThere'
  BY DoneIsThereKept
<1> QED  BY <1>1, <1>2, <1>3, <1>4, <1>5

\* A job that fails.
LEMMA FailKept ==
    ASSUME SyncInv, NEW j \in Jobs, Fail(j), Syncing(j),
           UNCHANGED <<repoVars, diff, picked, box, crossed>>, Reloaded
    PROVE  SyncInv'
<1> DEFINE r == [NotBegun EXCEPT !.at = "failed"]
<1>1. /\ r \in Syncs /\ r.at = "failed" /\ r.server = NoServer
      /\ r.changed = {} /\ r.todo = {} /\ r.id = 0 /\ r.path = NoPath /\ r.text = 0
      /\ r.need = [p \in Paths |-> 0]
  BY FailedFacts
<1>2. sync' = [sync EXCEPT ![j] = r]
  BY DEF Fail
<1> HIDE DEF r
<1>3. OwnPath(r)
  BY <1>1 DEF OwnPath
<1>4. InHand(r)
  BY <1>1, SyncAssumption DEF InHand
<1>5. NotAhead(r)
  BY <1>1 DEF NotAhead, SyncInv, SyncTypeOK, Contents
<1>6. DoneWith(r)'
  BY <1>1 DEF DoneWith
<1> QED  BY <1>1, <1>2, <1>3, <1>4, <1>5, <1>6, SyncGoesOn

-----------------------------------------------------------------------------
(* The steps of a sync.                                                    *)

\* No overlay, nothing to do.
LEMMA NoOverlayKept ==
    ASSUME SyncInv, NEW j \in Jobs, NoOverlay(j)
    PROVE  SyncInv'
<1>1. PICK r \in Syncs :
        /\ sync' = [sync EXCEPT ![j] = r] /\ SameDir(r, sync[j])
        /\ r.at = "synced" /\ r.path = sync[j].path /\ r.id = sync[j].id
        /\ r.todo = sync[j].todo /\ r.text = sync[j].text
  BY SyncTurnChanges DEF NoOverlay, SyncInv
<1>2. /\ sync[j].at = "walk" /\ OwnPath(sync[j]) /\ InHand(sync[j]) /\ NotAhead(sync[j])
      /\ UNCHANGED <<repoVars, diff, picked, box, loaded, crossed>>
  BY DEF NoOverlay, SyncAt, SyncInv, SyncTypeOK, OwnPath, JobsInHand, NeverOlder
<1>3. Reloaded /\ Syncing(j) /\ r.server = Server(j)
  BY <1>1, <1>2 DEF Reloaded, Syncing, SyncEnded, SameDir, Server
<1>4. OwnPath(r)
  BY <1>1, <1>2 DEF OwnPath, SameDir
<1>5. InHand(r)
  BY <1>1, <1>2 DEF InHand, SameDir
<1>6. NotAhead(r)
  BY <1>1, <1>2 DEF NotAhead, SameDir
<1>7. DoneWith(r)'
  BY <1>1, <1>2 DEF DoneWith, SameDir, InHand
<1> QED  BY <1>1, <1>2, <1>3, <1>4, <1>5, <1>6, <1>7, SyncGoesOn

\* What a job that begins has in its hands.
LEMMA JobBegins ==
    ASSUME SyncTypeOK, NeverOlder, NEW s \in Servers, NEW changed \in SUBSET Paths,
           NEW step \in {"walk", "find", "synced"},
           step # "find" => changed = {}
    PROVE  \E r \in Syncs :
             /\ r = Begun(step, s, changed) /\ r.at = step /\ r.server = s
             /\ r.changed = changed /\ OwnPath(r) /\ InHand(r) /\ NotAhead(r)
<1> DEFINE r == Begun(step, s, changed)
<1>1. /\ r \in Syncs /\ r.at = step /\ r.server = s
      /\ r.changed = changed /\ r.todo = changed /\ r.id = 0
      /\ r.path = NoPath /\ r.text = 0
      /\ r.need = [p \in Paths |-> IF p \in changed THEN tree[p] ELSE 0]
  BY BegunFacts DEF SyncSteps
<1> HIDE DEF r
<1>2. OwnPath(r)
  BY <1>1 DEF OwnPath
<1>3. InHand(r)
  BY <1>1 DEF InHand, SyncTypeOK
<1>4. NotAhead(r)
  <2> SUFFICES ASSUME NEW p \in Paths
               PROVE  r.need[p] <= commits + 1 /\ (tree[p] = 0 \/ tree[p] >= r.need[p])
    BY DEF NotAhead
  <2>1. tree[p] \in Nat /\ commits \in Nat /\ tree[p] <= commits + 1
    BY SyncAssumption DEF SyncTypeOK, NeverOlder, Contents
  <2> QED  BY <1>1, <2>1
<1> QED  BY <1>1, <1>2, <1>3, <1>4 DEF r

\* FullConfigSync collects the files that are there.
LEMMA WalkKept ==
    ASSUME SyncInv, NEW j \in Jobs, Walk(j)
    PROVE  SyncInv'
<1>1. sync[j].at = "walk" /\ InHand(sync[j])
  BY DEF Walk, SyncAt, SyncInv, JobsInHand
<1>2. PICK s \in Servers : s = Server(j)
  BY <1>1 DEF InHand, Server
<1>3. PICK found \in SUBSET Paths : found = Walked(s)
  BY DEF Walked
<1>4. PICK step \in {"walk", "find", "synced"} :
        /\ step = IF found = {} THEN "synced" ELSE "find"
        /\ step # "find" => found = {}
  BY Zenon
<1>5. PICK r \in Syncs :
        /\ r = Begun(step, s, found) /\ r.at = step /\ r.server = s
        /\ r.changed = found /\ OwnPath(r) /\ InHand(r) /\ NotAhead(r)
  BY <1>4, JobBegins DEF SyncInv
<1>6. sync' = [sync EXCEPT ![j] = r]
  BY <1>2, <1>3, <1>4, <1>5 DEF Walk
<1>7. r.at \in {"find", "synced"}
  BY <1>4, <1>5
<1>8. DoneWith(r)'
  BY <1>4, <1>5 DEF DoneWith
<1>9. Reloaded /\ Syncing(j) /\ UNCHANGED <<repoVars, diff, picked, box, crossed>>
  BY <1>1 DEF Walk, Reloaded, Syncing, SyncEnded
<1> QED  BY <1>2, <1>5, <1>6, <1>7, <1>8, <1>9, SyncGoesOn

\* The id is that of the container of now.
LEMMA FindKept ==
    ASSUME SyncInv, NEW j \in Jobs, Find(j)
    PROVE  SyncInv'
<1>1. PICK r \in Syncs :
        /\ sync' = [sync EXCEPT ![j] = r] /\ SameDir(r, sync[j])
        /\ r.at = "files" /\ r.id = box[Server(j)].id
        /\ r.todo = sync[j].todo /\ r.path = sync[j].path /\ r.text = sync[j].text
  BY FindChanges DEF SyncInv
<1>2. /\ sync[j].at = "find" /\ OwnPath(sync[j]) /\ InHand(sync[j]) /\ NotAhead(sync[j])
      /\ UNCHANGED <<repoVars, diff, picked, box, loaded, crossed>>
  BY DEF Find, SyncAt, SyncInv, SyncTypeOK, OwnPath, JobsInHand, NeverOlder
<1>3. Reloaded /\ Syncing(j) /\ r.server = Server(j)
  BY <1>1, <1>2 DEF Reloaded, Syncing, SyncEnded, SameDir, Server
<1>4. OwnPath(r)
  BY <1>1, <1>2 DEF OwnPath, SameDir
<1>5. InHand(r)
  <2>1. Server(j) \in Servers => r.id <= box[Server(j)].id
    BY <1>1 DEF SyncInv, SyncTypeOK
  <2> QED  BY <1>1, <1>2, <1>3, <2>1 DEF InHand, SameDir, Server
<1>6. NotAhead(r)
  BY <1>1, <1>2 DEF NotAhead, SameDir
<1>7. DoneWith(r)'
  BY <1>1, <1>2 DEF DoneWith, SameDir, InHand
<1> QED  BY <1>1, <1>2, <1>3, <1>4, <1>5, <1>6, <1>7, SyncGoesOn

\* What the invariant says of one job.
LEMMA JobFacts ==
    ASSUME SyncInv, NEW j \in Jobs
    PROVE  /\ sync[j] \in Syncs /\ OwnPath(sync[j]) /\ InHand(sync[j]) /\ NotAhead(sync[j])
           /\ j \notin crossed => DoneWith(sync[j])
BY DEF SyncInv, SyncTypeOK, OwnPath, SyncAt, JobsInHand, NeverOlder, DoneIsThere

\* A file of the directory is not skipped.
LEMMA CheckFileKept ==
    ASSUME SyncInv, NEW j \in Jobs, NEW p \in Paths, CheckFile(j, p)
    PROVE  SyncInv'
<1>1. /\ sync[j].at = "files" /\ p \in sync[j].todo
      /\ UNCHANGED <<repoVars, diff, picked, box, loaded, crossed>>
  BY DEF CheckFile, SyncAt
<1>2. /\ sync[j] \in Syncs /\ OwnPath(sync[j]) /\ InHand(sync[j]) /\ NotAhead(sync[j])
      /\ j \notin crossed => DoneWith(sync[j])
  BY JobFacts
<1>3. Reloaded /\ Syncing(j) /\ Server(j) \in Servers
  BY <1>1, <1>2 DEF Reloaded, Syncing, SyncEnded, InHand, Server
<1>4. CASE tree[p] = 0
  BY <1>1, <1>3, <1>4, FailKept DEF CheckFile
<1>5. CASE tree[p] # 0 /\ Mapped(p, Server(j))
  <2>1. PICK r \in Syncs :
          /\ sync' = [sync EXCEPT ![j] = r] /\ SameDir(r, sync[j])
          /\ r.at = "read" /\ r.path = p /\ r.id = sync[j].id
          /\ r.todo = sync[j].todo /\ r.text = sync[j].text
    BY <1>5, CheckFileChanges DEF SyncInv
  <2>2. OwnPath(r)
    BY <1>1, <1>2, <2>1, SyncAssumption DEF OwnPath, SameDir
  <2>3. InHand(r)
    BY <1>1, <1>2, <2>1 DEF InHand, SameDir
  <2>4. NotAhead(r) /\ r.server = Server(j)
    BY <1>2, <2>1 DEF NotAhead, SameDir, Server
  <2>5. j \notin crossed => DoneWith(r)'
    BY <1>1, <1>2, <2>1 DEF DoneWith, SameDir, Delivered
  <2> QED  BY <1>1, <1>3, <2>1, <2>2, <2>3, <2>4, <2>5, SyncGoesOn
<1>6. CASE tree[p] # 0 /\ ~Mapped(p, Server(j))
  <2>1. PICK r \in Syncs :
          /\ sync' = [sync EXCEPT ![j] = r] /\ SameDir(r, sync[j])
          /\ r.at = "files" /\ r.path = sync[j].path /\ r.id = sync[j].id
          /\ r.todo = sync[j].todo \ {p} /\ r.text = sync[j].text
    BY <1>6, CheckFileSkips DEF SyncInv
  <2>2. OwnPath(r)
    BY <1>1, <1>2, <2>1 DEF OwnPath, SameDir
  <2>3. InHand(r)
    BY <1>1, <1>2, <2>1 DEF InHand, SameDir
  <2>4. NotAhead(r) /\ r.server = Server(j)
    BY <1>2, <2>1 DEF NotAhead, SameDir, Server
  <2>5. j \notin crossed => DoneWith(r)'
    <3>1. Inside(p, Server(j)) => EndsInSlash(ConfigDir[Server(j)])
      BY <1>3, <1>6, InsideIsMapped
    <3> QED  BY <1>1, <1>2, <2>1, <2>4, <3>1 DEF DoneWith, SameDir, Delivered, Server
  <2> QED  BY <1>1, <1>3, <2>1, <2>2, <2>3, <2>4, <2>5, SyncGoesOn
<1> QED  BY <1>4, <1>5, <1>6

\* What is read now is not older than at any job's beginning.
LEMMA ReadFileKept ==
    ASSUME SyncInv, NEW j \in Jobs, ReadFile(j)
    PROVE  SyncInv'
<1>1. sync[j].at = "read" /\ UNCHANGED <<repoVars, diff, picked, box, loaded, crossed>>
  BY DEF ReadFile, SyncAt
<1>2. /\ sync[j] \in Syncs /\ OwnPath(sync[j]) /\ InHand(sync[j]) /\ NotAhead(sync[j])
      /\ j \notin crossed => DoneWith(sync[j])
  BY JobFacts
<1>3. Reloaded /\ Syncing(j)
  BY <1>1 DEF Reloaded, Syncing, SyncEnded
<1>4. CASE tree[sync[j].path] = 0
  BY <1>1, <1>3, <1>4, FailKept DEF ReadFile
<1>5. CASE tree[sync[j].path] # 0
  <2>1. PICK r \in Syncs :
          /\ sync' = [sync EXCEPT ![j] = r] /\ SameDir(r, sync[j])
          /\ r.at = "copy" /\ r.path = sync[j].path /\ r.id = sync[j].id
          /\ r.todo = sync[j].todo /\ r.text = tree[sync[j].path]
    BY <1>5, ReadFileChanges DEF SyncInv
  <2>2. r.path \in Paths
    BY <1>1, <1>2, <2>1 DEF OwnPath, Syncs
  <2>3. OwnPath(r)
    BY <1>1, <1>2, <1>5, <2>1 DEF OwnPath, SameDir
  <2>4. r.text >= r.need[r.path]
    BY <1>2, <1>5, <2>1, <2>2 DEF NotAhead, SameDir
  <2>5. InHand(r)
    BY <1>1, <1>2, <2>1, <2>4 DEF InHand, SameDir
  <2>6. NotAhead(r) /\ r.server = Server(j)
    BY <1>2, <2>1 DEF NotAhead, SameDir, Server
  <2>7. \A k \in Jobs : r.text >= sync[k].need[r.path]
    BY <1>5, <2>1, <2>2, JobFacts DEF NotAhead
  <2>8. j \notin crossed => DoneWith(r)'
    BY <1>1, <1>2, <2>1 DEF DoneWith, SameDir, Delivered
  <2> QED  BY <1>1, <1>3, <2>1, <2>3, <2>5, <2>6, <2>7, <2>8, SyncGoesOn
<1> QED  BY <1>4, <1>5

\* An error of Docker.
LEMMA DockerFailsKept ==
    ASSUME SyncInv, NEW j \in Jobs, DockerFails(j)
    PROVE  SyncInv'
BY FailKept DEF DockerFails, Reloaded, Syncing, SyncEnded

\* The game loads what the container has.
LEMMA ReloadKept ==
    ASSUME SyncInv, NEW j \in Jobs, Reload(j)
    PROVE  SyncInv'
<1>1. PICK r \in Syncs :
        /\ sync' = [sync EXCEPT ![j] = r] /\ SameDir(r, sync[j])
        /\ r.at = "synced" /\ r.path = sync[j].path /\ r.id = sync[j].id
        /\ r.todo = sync[j].todo /\ r.text = sync[j].text
  BY SyncTurnChanges DEF Reload, SyncInv
<1>2. /\ sync[j] \in Syncs /\ OwnPath(sync[j]) /\ InHand(sync[j]) /\ NotAhead(sync[j])
      /\ j \notin crossed => DoneWith(sync[j])
  BY JobFacts
<1>3. /\ sync[j].at = "files" /\ sync[j].todo = {}
      /\ UNCHANGED <<repoVars, diff, picked, box, crossed>>
  BY DEF Reload, SyncAt
<1>4. r.server = Server(j) /\ Syncing(j) /\ Server(j) \in Servers
  BY <1>1, <1>2, <1>3 DEF Syncing, SyncEnded, SameDir, Server, InHand
<1>5. Reloaded
  BY <1>4 DEF Reload, Reloaded
<1>6. Server(j) \in Reachable => loaded'[Server(j)] = box[Server(j)].files
  BY <1>4 DEF Reload, Reloads, SyncInv, SyncTypeOK
<1>7. OwnPath(r)
  BY <1>1, <1>2, <1>3 DEF OwnPath, SameDir
<1>8. InHand(r)
  BY <1>1, <1>2, <1>3 DEF InHand, SameDir
<1>9. NotAhead(r)
  BY <1>1, <1>2 DEF NotAhead, SameDir
<1>10. j \notin crossed => DoneWith(r)'
  BY <1>1, <1>2, <1>3, <1>4, <1>6 DEF DoneWith, SameDir, Delivered, Server
<1> QED  BY <1>1, <1>3, <1>4, <1>5, <1>7, <1>8, <1>9, <1>10, SyncGoesOn

\* It may have loaded it although the job failed.
LEMMA ReloadFailsKept ==
    ASSUME SyncInv, NEW j \in Jobs, ReloadFails(j)
    PROVE  SyncInv'
<1>1. sync[j].at = "files" /\ InHand(sync[j])
  BY JobFacts DEF ReloadFails, SyncAt
<1>2. Syncing(j) /\ Server(j) \in Servers
  BY <1>1 DEF Syncing, SyncEnded, InHand, Server
<1>3. Reloaded
  BY <1>2 DEF ReloadFails, Reloaded
<1> QED  BY <1>2, <1>3, FailKept DEF ReloadFails

\* The content goes into the container the job found.
LEMMA CopyFileKept ==
    ASSUME SyncInv, NEW j \in Jobs, CopyFile(j)
    PROVE  SyncInv'
<1>1. sync[j].at = "copy" /\ UNCHANGED <<repoVars, diff, picked, loaded, crossed>>
  BY DEF CopyFile, SyncAt
<1>2. /\ sync[j] \in Syncs /\ OwnPath(sync[j]) /\ InHand(sync[j]) /\ NotAhead(sync[j])
      /\ j \notin crossed => DoneWith(sync[j])
  BY JobFacts
<1>3. Reloaded /\ Syncing(j) /\ Server(j) \in Servers
  BY <1>1, <1>2 DEF Reloaded, Syncing, SyncEnded, InHand, Server
<1>4. CASE ~Copies(j)
  BY <1>1, <1>3, <1>4, FailKept DEF CopyFile, Copies
<1>5. CASE Copies(j)
  <2> DEFINE p == sync[j].path
             s == Server(j)
  <2>1. PICK r \in Syncs :
          /\ sync' = [sync EXCEPT ![j] = r] /\ SameDir(r, sync[j])
          /\ r.at = "files" /\ r.path = NoPath /\ r.id = sync[j].id
          /\ r.todo = sync[j].todo \ {sync[j].path} /\ r.text = 0
    BY <1>5, CopyFileChanges DEF SyncInv
  <2>2. /\ p \in Paths /\ p \in sync[j].todo /\ sync[j].text \in Contents
        /\ sync[j].text > 0 /\ sync[j].text >= sync[j].need[p]
    BY <1>1, <1>2, SyncAssumption DEF OwnPath, InHand, Syncs, Contents
  <2>3. s \in Servers /\ box[s].id = sync[j].id
    BY <1>3, <1>5 DEF Copies
  <2>4. box' = [box EXCEPT ![s] = Copied(j)]
    BY <1>5 DEF CopyFile, Copies
  <2>5. /\ Copied(j) \in [id : Nat, files : [Paths -> Contents]]
        /\ Copied(j).id = box[s].id
        /\ Copied(j).files = [box[s].files EXCEPT ![p] = sync[j].text]
    <3>1. box[s] \in [id : Nat, files : [Paths -> Contents]]
      BY <2>3 DEF SyncInv, SyncTypeOK
    <3> QED  BY <2>2, <3>1 DEF Copied
  <2> HIDE DEF s, p
  <2>6. /\ box' \in [Servers -> [id : Nat, files : [Paths -> Contents]]]
        /\ \A t \in Servers : box'[t].id = box[t].id
        /\ \A t \in Servers \ {s} : box'[t] = box[t]
        /\ box'[s].files[p] = sync[j].text
        /\ \A q \in Paths \ {p} : box'[s].files[q] = box[s].files[q]
    <3>1. box \in [Servers -> [id : Nat, files : [Paths -> Contents]]]
      BY DEF SyncInv, SyncTypeOK
    <3> QED  BY <2>2, <2>3, <2>4, <2>5, <3>1
  <2>7. OwnPath(r)
    BY <1>1, <1>2, <2>1 DEF OwnPath, SameDir
  <2>8. SyncTypeOK'
    <3>1. /\ picked' \in SUBSET Servers /\ crossed' \in SUBSET Jobs
          /\ loaded' \in [Servers -> [Paths -> Contents]]
      BY <1>1 DEF SyncInv, SyncTypeOK
    <3> QED  BY <1>1, <2>1, <2>6, <2>7, <3>1, SyncTypesKept DEF SyncInv, repoVars
  <2>9. JobsInHand'
    <3>1. InHand(r)'
      BY <1>1, <1>2, <2>1, <2>6 DEF InHand, SameDir
    <3>2. \A t \in Servers : box[t].id <= box'[t].id
      BY <2>6 DEF SyncInv, SyncTypeOK
    <3> QED  BY <2>1, <2>6, <3>1, <3>2, InHandKept DEF SyncInv
  <2>10. NeverOlder'
    <3>1. NotAhead(r)
      BY <1>2, <2>1 DEF NotAhead, SameDir
    <3> QED  BY <1>1, <2>1, <3>1, NeverOlderKept DEF SyncInv, repoVars
  <2>11. AloneOnServer'
    <3>1. r.server = Server(j)
      BY <2>1 DEF SameDir, Server
    <3> QED  BY <1>1, <1>3, <2>1, <3>1, AloneOnServerKept DEF SyncInv
  <2>12. DoneIsThere'
    <3> SUFFICES ASSUME NEW k \in Jobs \ crossed
                 PROVE  DoneWith(sync[k])'
      BY <1>1 DEF DoneIsThere
    <3>1. sync'[j] = r /\ \A l \in Jobs \ {j} : sync'[l] = sync[l]
      BY <2>1, OneJob DEF SyncInv
    <3>2. DoneWith(sync[k]) /\ sync[k] \in Syncs /\ InHand(sync[k])
      BY JobFacts
    <3>3. CASE k = j
      <4>1. r.server = s
        BY <2>1 DEF SameDir, s, Server
      <4>2. /\ r.changed = sync[j].changed /\ r.need = sync[j].need /\ r.id = sync[j].id
            /\ sync[j].server = s /\ r.changed \subseteq Paths
        BY <1>2, <2>1, <4>1 DEF SameDir, Syncs
      <4>3. ASSUME ~EndsInSlash(ConfigDir[s]), NEW q \in r.changed \ r.todo, Inside(q, s)
            PROVE  box'[s].files[q] > 0 /\ box'[s].files[q] >= r.need[q]
        <5>1. CASE q = p
          BY <2>2, <2>6, <4>2, <5>1
        <5>2. CASE q # p
          <6>1. q \in sync[j].changed \ sync[j].todo /\ q \in Paths
            BY <2>1, <4>2, <4>3, <5>2 DEF p
          <6>2. box[s].files[q] > 0 /\ box[s].files[q] >= sync[j].need[q]
            BY <1>1, <2>3, <3>2, <3>3, <4>2, <4>3, <6>1 DEF DoneWith, Delivered
          <6> QED  BY <2>6, <4>2, <5>2, <6>1, <6>2
        <5> QED  BY <5>1, <5>2
      <4> QED  BY <2>1, <3>1, <3>3, <4>1, <4>3 DEF DoneWith, Delivered
    <3>4. CASE k # j /\ sync[k].server # s
      <4>1. sync[k].at \in {"files", "read", "copy", "synced"} => sync[k].server \in Servers
        BY <3>2 DEF InHand
      <4> QED  BY <1>1, <2>6, <3>1, <3>2, <3>4, <4>1 DEF DoneWith, Delivered
    <3>5. CASE k # j /\ sync[k].server = s
      <4>1. AloneWith(k, j)
        BY <3>5 DEF SyncInv, AloneOnServer
      <4>2. /\ ~Syncing(k)
            /\ sync[k].at \notin {"new", "failed"} => sync[j].text >= sync[k].need[p]
        BY <1>1, <1>3, <3>5, <4>1 DEF AloneWith, Server, s, p, SyncAt
      <4>3. CASE sync[k].at # "synced"
        BY <3>1, <3>5, <4>2, <4>3 DEF DoneWith, Syncing, SyncEnded
      <4>4. CASE sync[k].at = "synced"
        <5>1. /\ sync[k].changed \subseteq Paths
              /\ \A q \in Paths : sync[k].need[q] \in Contents
          BY <3>2 DEF Syncs
        <5>2. ASSUME ~EndsInSlash(ConfigDir[s]), box[s].id = sync[k].id,
                     NEW q \in sync[k].changed \ sync[k].todo, Inside(q, s)
              PROVE  /\ box'[s].files[q] > 0 /\ box'[s].files[q] >= sync[k].need[q]
                     /\ s \in Reachable =>
                          loaded[s][q] > 0 /\ loaded[s][q] >= sync[k].need[q]
          <6>1. /\ box[s].files[q] > 0 /\ box[s].files[q] >= sync[k].need[q]
                /\ s \in Reachable => loaded[s][q] > 0 /\ loaded[s][q] >= sync[k].need[q]
            BY <3>2, <3>5, <4>4, <5>2 DEF DoneWith, Delivered
          <6>2. CASE q = p
            BY <2>2, <2>6, <4>2, <4>4, <6>1, <6>2
          <6>3. CASE q # p
            BY <2>6, <5>1, <6>1, <6>3
          <6> QED  BY <6>2, <6>3
        <5> QED  BY <1>1, <2>3, <2>6, <3>1, <3>5, <4>4, <5>2 DEF DoneWith, Delivered
      <4> QED  BY <4>3, <4>4
    <3> QED  BY <3>3, <3>4, <3>5
  <2> QED  BY <2>8, <2>9, <2>10, <2>11, <2>12 DEF SyncInv
<1> QED  BY <1>4, <1>5

-----------------------------------------------------------------------------
(* Jobs that begin, and the repository.                                    *)

\* A job that begins where another one runs marks both.
LEMMA MeetKept ==
    ASSUME SyncInv, NEW j \in Jobs, NEW s \in Servers, NEW r \in Syncs,
           sync' = [sync EXCEPT ![j] = r], r.server = s, r.at # "copy",
           ~Syncing(j), Meet(j, s)
    PROVE  /\ AloneOnServer' /\ crossed' \in SUBSET Jobs
           /\ \A k \in Jobs \ {j} : k \notin crossed' => k \notin crossed
<1> DEFINE rivals == {k \in Jobs \ {j} : sync[k].at \notin SyncEnded /\ Server(k) = s}
<1>1. crossed' = IF rivals = {} THEN crossed \ {j} ELSE crossed \cup rivals \cup {j}
  BY DEF Meet
<1>2. \A k \in Jobs \ {j} : k \notin crossed' => k \notin crossed /\ k \notin rivals
  BY <1>1
<1>3. j \notin crossed' => rivals = {}
  BY <1>1
<1>4. crossed' \in SUBSET Jobs
  BY <1>1 DEF SyncInv, SyncTypeOK
<1>5. \A k \in Jobs \ {j} : k \notin rivals => ~(Syncing(k) /\ Server(k) = s)
  BY DEF Syncing
<1> HIDE DEF rivals
<1>6. sync'[j] = r /\ \A k \in Jobs \ {j} : sync'[k] = sync[k]
  BY OneJob DEF SyncInv
<1>7. AloneOnServer'
  <2> SUFFICES ASSUME NEW k \in Jobs, k \notin crossed', NEW l \in Jobs \ {k},
                      sync'[k].server = sync'[l].server
               PROVE  /\ ~(Syncing(k)' /\ Syncing(l)')
                      /\ sync'[k].at \notin {"new", "failed"} /\ sync'[l].at = "copy" =>
                           sync'[l].text >= sync'[k].need[sync'[l].path]
    BY DEF AloneOnServer, AloneWith, Server, SyncAt
  <2>1. CASE k = j
    <3>1. ~Syncing(l)
      BY <1>3, <1>5, <1>6, <2>1 DEF Server
    <3> QED  BY <1>6, <2>1, <3>1 DEF Syncing, SyncEnded
  <2>2. CASE l = j
    <3>1. ~Syncing(k)
      BY <1>2, <1>5, <1>6, <2>2 DEF Server
    <3> QED  BY <1>6, <2>2, <3>1 DEF Syncing
  <2>3. CASE k # j /\ l # j
    <3>1. AloneWith(k, l)
      BY <1>2, <2>3 DEF SyncInv, AloneOnServer
    <3> QED  BY <1>6, <2>3, <3>1 DEF AloneWith, Server, SyncAt, Syncing
  <2> QED  BY <2>1, <2>2, <2>3
<1> QED  BY <1>2, <1>4, <1>7

\* The consumer begins with the changed paths.
LEMMA VisitKept ==
    ASSUME SyncInv, NEW s \in Servers, Visit(s)
    PROVE  SyncInv'
<1>1. PICK changed \in SUBSET Paths : changed = diff
  BY DEF SyncInv, SyncTypeOK
<1>4. PICK r \in Syncs :
        /\ r = Begun("find", s, changed) /\ r.at = "find" /\ r.server = s
        /\ r.changed = changed /\ OwnPath(r) /\ InHand(r) /\ NotAhead(r)
  <2>1. "find" \in {"walk", "find", "synced"}
    OBVIOUS
  <2> QED  BY <2>1, JobBegins DEF SyncInv
<1>5. /\ sync' = [sync EXCEPT ![Consumer] = r] /\ Meet(Consumer, s) /\ ~Syncing(Consumer)
      /\ UNCHANGED <<tree, commits, news, diff, box, loaded>>
      /\ picked' = picked \ {s} /\ Consumer \in Jobs
  BY <1>1, <1>4 DEF Visit, Syncing, ConsumerFree, Jobs, repoVars
<1>6. r.at = "find" /\ r.server = s /\ OwnPath(r) /\ InHand(r) /\ NotAhead(r)
  BY <1>4
<1>7. /\ AloneOnServer' /\ crossed' \in SUBSET Jobs
      /\ \A k \in Jobs \ {Consumer} : k \notin crossed' => k \notin crossed
  BY <1>5, <1>6, MeetKept
<1>8. SyncTypeOK'
  <2>1. /\ picked' \in SUBSET Servers /\ loaded' \in [Servers -> [Paths -> Contents]]
        /\ box' \in [Servers -> [id : Nat, files : [Paths -> Contents]]]
    BY <1>5 DEF SyncInv, SyncTypeOK
  <2> QED  BY <1>5, <1>6, <1>7, <2>1, SyncTypesKept DEF SyncInv
<1>9. JobsInHand'
  <2>1. InHand(r)'
    BY <1>5, <1>6 DEF InHand
  <2>2. /\ box' \in [Servers -> [id : Nat, files : [Paths -> Contents]]]
        /\ \A t \in Servers : box[t].id <= box'[t].id
    BY <1>5 DEF SyncInv, SyncTypeOK
  <2> QED  BY <1>5, <2>1, <2>2, InHandKept DEF SyncInv
<1>10. NeverOlder'
  BY <1>5, <1>6, NeverOlderKept DEF SyncInv
<1>11. DoneIsThere'
  <2>1. sync'[Consumer] = r /\ \A k \in Jobs \ {Consumer} : sync'[k] = sync[k]
    BY <1>5, OneJob DEF SyncInv
  <2> SUFFICES ASSUME NEW k \in Jobs, k \notin crossed'
               PROVE  DoneWith(sync[k])'
    BY DEF DoneIsThere
  <2>2. CASE k = Consumer
    BY <1>6, <2>1, <2>2 DEF DoneWith
  <2>3. CASE k # Consumer
    BY <1>5, <1>7, <2>1, <2>3, JobFacts DEF DoneWith, Delivered
  <2> QED  BY <2>2, <2>3
<1> QED  BY <1>7, <1>8, <1>9, <1>10, <1>11 DEF SyncInv

\* A new container has another id, and none of the files.
LEMMA DeployedKept ==
    ASSUME SyncInv, NEW j \in Jenkins, NEW s \in Servers, Deployed(j, s)
    PROVE  SyncInv'
<1>1. PICK step \in {"walk", "synced"} :
        step = IF ConfigDir[s] = <<>> THEN "synced" ELSE "walk"
  OBVIOUS
<1>4. PICK r \in Syncs :
        /\ r = Begun(step, s, {}) /\ r.at = step /\ r.server = s
        /\ r.changed = {} /\ OwnPath(r) /\ InHand(r) /\ NotAhead(r)
  <2>1. step \in {"walk", "find", "synced"} /\ {} \in SUBSET Paths
    OBVIOUS
  <2> QED  BY <2>1, JobBegins DEF SyncInv
<1>5. /\ sync' = [sync EXCEPT ![j] = r] /\ Meet(j, s) /\ ~Syncing(j)
      /\ UNCHANGED <<tree, commits, news, diff, picked>> /\ j \in Jobs
  <2>1. sync' = [sync EXCEPT ![j] = r]
    BY <1>1, <1>4 DEF Deployed
  <2> QED  BY <2>1 DEF Deployed, Syncing, SyncAt, SyncEnded, Jobs, repoVars
<1>6. r.at = step /\ r.server = s /\ r.changed = {} /\ OwnPath(r) /\ InHand(r) /\ NotAhead(r)
  BY <1>4
<1>7. Empty \in [Paths -> Contents]
  BY SyncAssumption DEF Empty, Contents
<1>8. /\ box' \in [Servers -> [id : Nat, files : [Paths -> Contents]]]
      /\ box'[s].id = box[s].id + 1
      /\ \A t \in Servers \ {s} : box'[t] = box[t] /\ loaded'[t] = loaded[t]
      /\ loaded' \in [Servers -> [Paths -> Contents]]
  BY <1>7 DEF Deployed, SyncInv, SyncTypeOK
<1>9. /\ AloneOnServer' /\ crossed' \in SUBSET Jobs
      /\ \A k \in Jobs \ {j} : k \notin crossed' => k \notin crossed
  <2>1. r.at # "copy"
    BY <1>6
  <2> QED  BY <1>5, <1>6, <2>1, MeetKept
<1>10. SyncTypeOK'
  <2>1. picked' \in SUBSET Servers
    BY <1>5 DEF SyncInv, SyncTypeOK
  <2>2. SyncTypeOK /\ UNCHANGED <<tree, commits, news, diff>>
    BY <1>5 DEF SyncInv
  <2> QED  BY <1>5, <1>6, <1>8, <1>9, <2>1, <2>2, SyncTypesKept
<1>11. \A t \in Servers : box[t].id \in Nat /\ box[t].id <= box'[t].id
  <2> SUFFICES ASSUME NEW t \in Servers
               PROVE  box[t].id \in Nat /\ box[t].id <= box'[t].id
    OBVIOUS
  <2>1. box[t].id \in Nat
    BY DEF SyncInv, SyncTypeOK
  <2>2. CASE t = s
    BY <1>8, <2>1, <2>2
  <2>3. CASE t # s
    BY <1>8, <2>1, <2>3
  <2> QED  BY <2>1, <2>2, <2>3
<1>12. JobsInHand'
  <2>1. InHand(r)'
    <3>1. r.id <= box'[s].id
      <4>1. r.id \in Nat /\ r.id <= box[s].id
        BY <1>6 DEF InHand, Syncs
      <4> QED  BY <1>8, <1>11, <4>1
    <3> QED  BY <1>6, <3>1 DEF InHand
  <2> QED  BY <1>5, <1>8, <1>11, <2>1, InHandKept DEF SyncInv
<1>13. NeverOlder'
  BY <1>5, <1>6, NeverOlderKept DEF SyncInv
<1>14. DoneIsThere'
  <2>1. sync'[j] = r /\ \A k \in Jobs \ {j} : sync'[k] = sync[k]
    BY <1>5, OneJob DEF SyncInv
  <2> SUFFICES ASSUME NEW k \in Jobs, k \notin crossed'
               PROVE  DoneWith(sync[k])'
    BY DEF DoneIsThere
  <2>2. CASE k = j
    BY <1>6, <2>1, <2>2 DEF DoneWith
  <2>3. CASE k # j
    <3>1. DoneWith(sync[k]) /\ InHand(sync[k]) /\ sync[k] \in Syncs
      BY <1>9, <2>3, JobFacts
    <3>2. CASE sync[k].server = s
      <4>1. box'[s].id # sync[k].id
        BY <1>8, <1>11, <3>1, <3>2 DEF InHand, Syncs
      <4> QED  BY <2>1, <2>3, <3>2, <4>1 DEF DoneWith
    <3>3. CASE sync[k].server # s
      <4>1. sync[k].at \in {"files", "read", "copy", "synced"} => sync[k].server \in Servers
        BY <3>1 DEF InHand
      <4> QED  BY <1>8, <2>1, <2>3, <3>1, <3>3, <4>1 DEF DoneWith, Delivered
    <3> QED  BY <3>2, <3>3
  <2> QED  BY <2>2, <2>3
<1> QED  BY <1>9, <1>10, <1>12, <1>13, <1>14 DEF SyncInv

\* A commit writes files that are newer than all jobs.
LEMMA PullConfigsKept ==
    ASSUME SyncInv, NEW written \in SUBSET Paths, NEW gone \in SUBSET Paths,
           PullConfigs(written, gone)
    PROVE  SyncInv'
<1> USE DEF SyncInv
<1>1. /\ UNCHANGED <<diff, picked, sync, box, loaded, crossed>>
      /\ commits \in Nat /\ commits < MaxCommits /\ commits' = commits + 1
      /\ news' = news \cup written \cup gone
  BY SyncAssumption DEF PullConfigs, SyncTypeOK
<1>2. tree' = [p \in Paths |-> IF p \in written THEN commits' + 1
                               ELSE IF p \in gone THEN 0 ELSE tree[p]]
  BY DEF PullConfigs
<1>3. \A p \in Paths : tree[p] \in Nat /\ tree[p] <= commits + 1
  BY SyncAssumption DEF SyncTypeOK, NeverOlder, Contents
<1>4. \A p \in Paths : /\ tree'[p] \in Contents /\ tree'[p] <= commits' + 1
                       /\ tree'[p] \in {0, tree[p], commits' + 1}
  <2> SUFFICES ASSUME NEW p \in Paths
               PROVE  /\ tree'[p] \in Contents /\ tree'[p] <= commits' + 1
                      /\ tree'[p] \in {0, tree[p], commits' + 1}
    OBVIOUS
  <2>1. tree'[p] \in {0, tree[p], commits' + 1}
    BY <1>2
  <2> QED  BY <1>1, <1>3, <2>1, SyncAssumption DEF Contents
<1>5. SyncTypeOK'
  <2>1. tree' \in [Paths -> Contents] /\ commits' \in 0 .. MaxCommits
    BY <1>1, <1>2, <1>4, SyncAssumption
  <2>2. news' \in SUBSET Paths
    BY <1>1 DEF SyncTypeOK
  <2> QED  BY <1>1, <2>1, <2>2 DEF SyncTypeOK, SyncAt
<1>6. JobsInHand'
  BY <1>1 DEF JobsInHand, InHand
<1>7. NeverOlder'
  <2>1. ASSUME NEW j \in Jobs, NEW p \in Paths
        PROVE  /\ sync[j].need[p] <= commits' + 1
               /\ tree'[p] = 0 \/ tree'[p] >= sync[j].need[p]
    <3>1. /\ sync[j].need[p] \in Nat /\ sync[j].need[p] <= commits + 1
          /\ tree[p] = 0 \/ tree[p] >= sync[j].need[p]
      BY SyncAssumption DEF SyncTypeOK, Syncs, Contents, NeverOlder, NotAhead
    <3> QED  BY <1>1, <1>4, <3>1
  <2> QED  BY <1>1, <1>4, <2>1 DEF NeverOlder, NotAhead
<1>8. AloneOnServer'
  BY <1>1 DEF AloneOnServer, AloneWith, Server, SyncAt, Syncing
<1>9. DoneIsThere'
  BY <1>1 DEF DoneIsThere, DoneWith, Delivered
<1> QED  BY <1>5, <1>6, <1>7, <1>8, <1>9

\* The jobs do not see the consumer's choice of servers.
LEMMA PickServersKept ==
    ASSUME SyncInv, PickServers \/ UNCHANGED syncVars
    PROVE  SyncInv'
<1> USE DEF SyncInv
<1>1. UNCHANGED <<tree, commits, sync, box, loaded, crossed>>
  BY DEF PickServers, syncVars, repoVars
<1>2. news' \in SUBSET Paths /\ diff' \in SUBSET Paths /\ picked' \in SUBSET Servers
  BY DEF PickServers, syncVars, repoVars, SyncTypeOK
<1>3. SyncTypeOK'
  BY <1>1, <1>2 DEF SyncTypeOK, SyncAt
<1>4. JobsInHand' /\ NeverOlder'
  BY <1>1 DEF JobsInHand, InHand, NeverOlder, NotAhead
<1>5. AloneOnServer'
  BY <1>1 DEF AloneOnServer, AloneWith, Server, SyncAt, Syncing
<1>6. DoneIsThere'
  BY <1>1 DEF DoneIsThere, DoneWith, Delivered
<1> QED  BY <1>3, <1>4, <1>5, <1>6

\* At the start nobody has begun.
LEMMA SyncStarts ==
    SyncInit => SyncInv
<1> SUFFICES ASSUME SyncInit
             PROVE  SyncInv
  OBVIOUS
<1>1. 0 \in Contents /\ 1 \in Contents
  BY SyncAssumption DEF Contents
<1>2. NotBegun \in Syncs /\ NotBegun.at = "new" /\ NotBegun.server = NoServer
  BY <1>1 DEF NotBegun, Syncs, SyncSteps
<1>3. /\ NotBegun.changed = {} /\ NotBegun.todo = {} /\ NotBegun.id = 0
      /\ NotBegun.path = NoPath /\ NotBegun.text = 0
      /\ NotBegun.need = [p \in Paths |-> 0]
  BY DEF NotBegun
<1>4. \A j \in Jobs : sync[j] = NotBegun
  BY DEF SyncInit
<1>5. tree \in [Paths -> Contents] /\ \A p \in Paths : tree[p] \in {0, 1}
  BY <1>1 DEF SyncInit
<1>6. SyncTypeOK
  <2>1. loaded \in [Servers -> [Paths -> Contents]]
    BY <1>1, <1>5 DEF SyncInit
  <2>2. box \in [Servers -> [id : Nat, files : [Paths -> Contents]]]
    BY <2>1 DEF SyncInit
  <2>3. sync \in [Jobs -> Syncs]
    BY <1>2 DEF SyncInit
  <2>4. /\ commits \in 0 .. MaxCommits /\ news \in SUBSET Paths /\ diff \in SUBSET Paths
        /\ picked \in SUBSET Servers /\ crossed \in SUBSET Jobs
    BY SyncAssumption DEF SyncInit
  <2> QED  BY <1>2, <1>3, <1>4, <1>5, <2>1, <2>2, <2>3, <2>4 DEF SyncTypeOK, SyncAt
<1>7. JobsInHand
  BY <1>2, <1>3, <1>4, SyncAssumption DEF JobsInHand, InHand
<1>8. NeverOlder
  BY <1>3, <1>4, <1>5 DEF NeverOlder, NotAhead, SyncInit
<1>9. AloneOnServer
  BY <1>2, <1>4 DEF AloneOnServer, AloneWith, Syncing, SyncEnded
<1>10. DoneIsThere
  BY <1>2, <1>4 DEF DoneIsThere, DoneWith
<1> QED  BY <1>6, <1>7, <1>8, <1>9, <1>10 DEF SyncInv

\* All of it, along every behaviour.
LEMMA SyncInvariant ==
    SyncSpec => []SyncInv
<1>1. SyncInv /\ [SyncNext]_syncVars => SyncInv'
  <2> SUFFICES ASSUME SyncInv, [SyncNext]_syncVars
               PROVE  SyncInv'
    OBVIOUS
  <2>1. ASSUME NEW written \in SUBSET Paths, NEW gone \in SUBSET Paths,
               PullConfigs(written, gone \ written)
        PROVE  SyncInv'
    BY <2>1, PullConfigsKept
  <2>2. CASE PickServers \/ UNCHANGED syncVars
    BY <2>2, PickServersKept
  <2>3. ASSUME NEW s \in Servers, Visit(s)
        PROVE  SyncInv'
    BY <2>3, VisitKept
  <2>4. ASSUME NEW s \in Servers, NEW j \in Jenkins, Deployed(j, s)
        PROVE  SyncInv'
    BY <2>4, DeployedKept
  <2>5. ASSUME NEW j \in Jenkins, NoOverlay(j) \/ Walk(j)
        PROVE  SyncInv'
    BY <2>5, NoOverlayKept, WalkKept DEF Jobs
  <2>6. ASSUME NEW j \in Jobs, RunConfig(j)
        PROVE  SyncInv'
    BY <2>6, FindKept, ReadFileKept, CopyFileKept, DockerFailsKept, ReloadKept,
       ReloadFailsKept, CheckFileKept DEF RunConfig
  <2> QED  BY <2>1, <2>2, <2>3, <2>4, <2>5, <2>6 DEF SyncNext
<1> QED  BY <1>1, SyncStarts, PTL DEF SyncSpec

\* SyncTypeOK: what a job has in its hands at each step of RunConfig, for every
\* set of servers and paths, for any number of Jenkins deploys and commits.
THEOREM SyncTypeCorrect == SyncSpec => []SyncTypeOK
<1>1. SyncInv => SyncTypeOK
  BY DEF SyncInv
<1> QED  BY <1>1, SyncInvariant, PTL

\* SyncedMeansLoaded: a config sync that reported success, and met no other one
\* on its server, has given the game every changed file of its directory as new
\* as when it began, whatever is pulled, deleted, deployed or fails meanwhile.
THEOREM SyncedMeansLoadedAlways == SyncSpec => []SyncedMeansLoaded
<1>1. SyncInv => SyncedMeansLoaded
  <2> SUFFICES ASSUME SyncInv, NEW j \in Jobs \ crossed, SyncAt(j, "synced"),
                      Server(j) \in Reachable, ~EndsInSlash(ConfigDir[Server(j)]),
                      box[Server(j)].id = sync[j].id,
                      NEW p \in sync[j].changed, Inside(p, Server(j))
               PROVE  Delivered(loaded[Server(j)], p, sync[j])
    BY DEF SyncedMeansLoaded, Delivered
  <2>1. DoneWith(sync[j]) /\ sync[j].todo = {}
    BY JobFacts DEF SyncAt, InHand
  <2> QED  BY <2>1 DEF DoneWith, SyncAt, Server
<1> QED  BY <1>1, SyncInvariant, PTL
=============================================================================
