--------------------------- MODULE DownloadCache ---------------------------
(***************************************************************************)
(* Plugin jars on their way into an image: Cache.Fetch                     *)
(* (internal/download/cache.go), called by DefaultResolver, and            *)
(* BuildContext.AddFile (pkg/mcimage/builder.go), which reads the file     *)
(* that Fetch returned.  A fetch is one plugin of one deploy; deploys of   *)
(* different servers fetch at the same time and share the directory.       *)
(*                                                                         *)
(* A file of the cache has the last element of the URL's path for its      *)
(* name, so two URLs may mean one file.  A SHA-256 is the body it is the   *)
(* hash of.  Bodies are written block by block, and a name may be unlinked *)
(* or truncated while another fetch writes to the file.                    *)
(***************************************************************************)
EXTENDS Naturals, Sequences, FiniteSets

CONSTANTS
    Fetches,      \* calls of Fetch, each followed by the build that asked
    Names,        \* base names of the URLs
    Bodies,       \* complete contents a URL may answer with
    Blocks,       \* blocks of a body
    Hole,         \* a block that was never written
    NoHash,       \* expectedSHA256 == ""
    None,         \* no file, no name, no body
    MaxCrashes    \* bound on the crashes of the daemon

ASSUME CacheAssumption ==
    /\ None \notin Fetches \cup Names \cup Bodies
    /\ Hole \notin Bodies /\ NoHash \notin Bodies
    /\ Blocks \in Nat \ {0} /\ MaxCrashes \in Nat

VARIABLES
    fetching,     \* fetch -> its program counter and locals
    linked,       \* name -> the file that has it, called by its creator
    data,         \* file -> its blocks
    taken,        \* fetch -> what its build context got
    disturbed,    \* history: fetches that met another one of the same name
    served,       \* history: name -> bodies written to the file it has
    torn,         \* history: names whose download a crash cut off
    crashes

cacheVars ==
    <<fetching, linked, data, taken, disturbed, served, torn, crashes>>

-----------------------------------------------------------------------------
Ended == {"built", "failed", "dead"}
Steps == {"new", "stat", "verify", "discard", "request", "create", "copy",
          "returned", "added"} \cup Ended

\* A fetch: name and sha are what was asked for, body is the response's, fd
\* the file it writes, done how much of it, size what AddFile's Stat saw.
Fetching ==
    [at : Steps, name : Names \cup {None}, sha : Bodies \cup {NoHash},
     body : Bodies \cup {None}, fd : Fetches \cup {None},
     done : 0 .. Blocks, size : 0 .. Blocks]

NotCalled ==
    [at |-> "new", name |-> None, sha |-> NoHash, body |-> None, fd |-> None,
     done |-> 0, size |-> 0]

At(f, step) == fetching[f].at = step
Turn(f, step) == fetching' = [fetching EXCEPT ![f].at = step]
Live(f) == fetching[f].at \notin Ended \cup {"new"}

Name(f) == fetching[f].name
Exists(f) == linked[Name(f)] # None
Content(f) == data[linked[Name(f)]]
Whole(b) == [k \in 1 .. Blocks |-> b]

\* os.Remove: the name is free; who has the file open goes on with it.
Unlink(n) ==
    /\ linked' = [linked EXCEPT ![n] = None]
    /\ served' = [served EXCEPT ![n] = {}]
    /\ torn' = torn \ {n}

-----------------------------------------------------------------------------
(* Cache.Fetch, one call of the operating system at a time.                *)

Call(f, n, h) ==
    LET rivals == {g \in Fetches : Live(g) /\ Name(g) = n} IN
    /\ At(f, "new")
    /\ fetching' = [fetching EXCEPT ![f].at = "stat", ![f].name = n, ![f].sha = h]
    /\ disturbed' = disturbed \cup rivals \cup (IF rivals = {} THEN {} ELSE {f})
    /\ UNCHANGED <<linked, data, taken, served, torn, crashes>>

\* Without a hash whatever has the name is good enough.
Stat(f) ==
    /\ At(f, "stat")
    /\ Turn(f, IF ~Exists(f) THEN "request"
               ELSE IF fetching[f].sha = NoHash THEN "returned" ELSE "verify")
    /\ UNCHANGED <<linked, data, taken, disturbed, served, torn, crashes>>

\* Mutant of Verified: a file of the right length is taken for the right one.
VerifiedBySize(f) == Exists(f) /\ Len(Content(f)) = Blocks

\* verifyHash; a file that cannot be opened any more is not verified either.
Verified(f) == Exists(f) /\ Content(f) = Whole(fetching[f].sha)

Verify(f) ==
    /\ At(f, "verify")
    /\ Turn(f, IF Verified(f) THEN "returned" ELSE "discard")
    /\ UNCHANGED <<linked, data, taken, disturbed, served, torn, crashes>>

Discard(f) ==
    /\ At(f, "discard")
    /\ Turn(f, "request")
    /\ Unlink(Name(f))
    /\ UNCHANGED <<data, taken, disturbed, crashes>>

\* client.Do answers with status 200.
Respond(f, b) ==
    /\ At(f, "request")
    /\ fetching' = [fetching EXCEPT ![f].at = "create", ![f].body = b]
    /\ UNCHANGED <<linked, data, taken, disturbed, served, torn, crashes>>

\* No answer, another status, or os.Create fails: nothing has changed.
FetchFails(f) ==
    /\ fetching[f].at \in {"request", "create"}
    /\ Turn(f, "failed")
    /\ UNCHANGED <<linked, data, taken, disturbed, served, torn, crashes>>

\* os.Create truncates the file that has the name, or makes one.
Create(f) ==
    LET file == IF Exists(f) THEN linked[Name(f)] ELSE f IN
    /\ At(f, "create")
    /\ fetching' = [fetching EXCEPT ![f].at = "copy", ![f].fd = file]
    /\ linked' = [linked EXCEPT ![Name(f)] = file]
    /\ data' = [data EXCEPT ![file] = <<>>]
    /\ served' = [served EXCEPT ![Name(f)] = @ \cup {fetching[f].body}]
    /\ torn' = torn \ {Name(f)}
    /\ UNCHANGED <<taken, disturbed, crashes>>

\* Mutant of Written: the file was opened for appending.
WrittenAppended(blocks, k, b) == Append(blocks, b)

\* A write at block k; below it a truncated file has a hole.
Written(blocks, k, b) ==
    [j \in 1 .. (IF Len(blocks) < k THEN k ELSE Len(blocks)) |->
        IF j = k THEN b ELSE IF j \in DOMAIN blocks THEN blocks[j] ELSE Hole]

CopyBlock(f) ==
    LET k == fetching[f].done + 1 IN
    /\ At(f, "copy")
    /\ k <= Blocks
    /\ data' = [data EXCEPT
                  ![fetching[f].fd] = Written(@, k, fetching[f].body)]
    /\ fetching' = [fetching EXCEPT ![f].done = k]
    /\ UNCHANGED <<linked, taken, disturbed, served, torn, crashes>>

\* Mutant of CopyBreaks: what was written stays.
CopyBreaksKeeping(f) ==
    /\ At(f, "copy")
    /\ Turn(f, "failed")
    /\ UNCHANGED <<linked, data, taken, disturbed, served, torn, crashes>>

\* io.Copy or Close fails: the file that has the name now is removed.
CopyBreaks(f) ==
    /\ At(f, "copy")
    /\ Turn(f, "failed")
    /\ Unlink(Name(f))
    /\ UNCHANGED <<data, taken, disturbed, crashes>>

\* The hash is that of the bytes received, not of the file.
Finish(f) ==
    /\ At(f, "copy")
    /\ fetching[f].done = Blocks
    /\ IF fetching[f].sha \in {NoHash, fetching[f].body}
       THEN Turn(f, "returned") /\ UNCHANGED <<linked, served, torn>>
       ELSE Turn(f, "failed") /\ Unlink(Name(f))
    /\ UNCHANGED <<data, taken, disturbed, crashes>>

-----------------------------------------------------------------------------
(* BuildContext.AddFile of the path that Fetch returned.                   *)

AddStat(f) ==
    /\ At(f, "returned")
    /\ fetching' = [fetching EXCEPT
                      ![f].at = IF Exists(f) THEN "added" ELSE "failed",
                      ![f].size = IF Exists(f) THEN Len(Content(f)) ELSE 0]
    /\ UNCHANGED <<linked, data, taken, disturbed, served, torn, crashes>>

\* The tar entry has the size Stat saw: a file that grew or shrank since then
\* fails the build context.
AddRead(f) ==
    LET fits == Exists(f) /\ Len(Content(f)) = fetching[f].size IN
    /\ At(f, "added")
    /\ Turn(f, IF fits THEN "built" ELSE "failed")
    /\ taken' = [taken EXCEPT ![f] = IF fits THEN Content(f) ELSE @]
    /\ UNCHANGED <<linked, data, disturbed, served, torn, crashes>>

\* The process dies; the files stay as they are.
CacheCrash ==
    /\ crashes < MaxCrashes
    /\ crashes' = crashes + 1
    /\ fetching' = [f \in Fetches |->
                      IF Live(f) THEN [fetching[f] EXCEPT !.at = "dead"]
                                 ELSE fetching[f]]
    /\ torn' = torn \cup {n \in Names :
                 \E f \in Fetches : At(f, "copy") /\ linked[n] = fetching[f].fd}
    /\ UNCHANGED <<linked, data, taken, disturbed, served>>

-----------------------------------------------------------------------------
CacheInit ==
    /\ fetching = [f \in Fetches |-> NotCalled]
    /\ linked = [n \in Names |-> None]
    /\ data = [f \in Fetches |-> <<>>]
    /\ taken = [f \in Fetches |-> <<>>]
    /\ disturbed = {} /\ torn = {} /\ crashes = 0
    /\ served = [n \in Names |-> {}]

FetchStep(f) ==
    \/ Stat(f) \/ Verify(f) \/ Discard(f)
    \/ \E b \in Bodies : Respond(f, b)
    \/ FetchFails(f) \/ Create(f) \/ CopyBlock(f) \/ CopyBreaks(f) \/ Finish(f)
    \/ AddStat(f) \/ AddRead(f)

CacheNext ==
    \/ \E f \in Fetches :
        \/ \E n \in Names, h \in Bodies \cup {NoHash} : Call(f, n, h)
        \/ FetchStep(f)
    \/ CacheCrash

CacheSpec == CacheInit /\ [][CacheNext]_cacheVars

-----------------------------------------------------------------------------
(* Properties.                                                             *)

\* Types of all variables; no file gets longer than what was downloaded.
CacheTypeOK ==
    LET Files == UNION {[1 .. k -> Bodies \cup {Hole}] : k \in 0 .. Blocks} IN
    /\ fetching \in [Fetches -> Fetching]
    /\ linked \in [Names -> Fetches \cup {None}]
    /\ data \in [Fetches -> Files] /\ taken \in [Fetches -> Files]
    /\ disturbed \in SUBSET Fetches /\ torn \in SUBSET Names
    /\ served \in [Names -> SUBSET Bodies]
    /\ crashes \in 0 .. MaxCrashes

\* A build whose plugin has a SHA-256 gets exactly that content, if no other
\* fetch of the base name was at work since it asked: not what another URL of
\* the name left there, not what a crash cut off, not what the upstream
\* changed.  (Fetch verifies, AddFile reads later.)
HashedBuildGenuine ==
    \A f \in Fetches :
        At(f, "built") /\ fetching[f].sha # NoHash /\ f \notin disturbed =>
            taken[f] = Whole(fetching[f].sha)

\* When nobody writes to it, a cached file is whole, however many fetches wrote
\* over each other, failed or removed it meanwhile: unless the daemon died in a
\* download or the file was written from two different bodies.
SettledFileWhole ==
    \A n \in Names :
        \/ linked[n] = None \/ n \in torn \/ Cardinality(served[n]) > 1
        \/ \E f \in Fetches : At(f, "copy") /\ fetching[f].fd = linked[n]
        \/ \E b \in served[n] : data[linked[n]] = Whole(b)
=============================================================================
