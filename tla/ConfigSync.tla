----------------------------- MODULE ConfigSync -----------------------------
(***************************************************************************)
(* Config files on their way into running servers.  The consumer of the    *)
(* watcher's events picks servers with MapServersByConfig                  *)
(* (gitops/reconciler.go) and runs Runner.RunConfig for each of them; a    *)
(* Jenkins deploy ends with Runner.FullConfigSync (pipeline/config.go).    *)
(* Both copy files out of the working copy while it is pulled, into        *)
(* containers that other deploys replace, and then have the game reload    *)
(* over RCON (pkg/rcon).                                                   *)
(*                                                                         *)
(* GitDelivery has the events and takes a config deploy for one step; here *)
(* it is taken apart, file by file.  A path is a sequence of pieces of     *)
(* text, "configs/lobby/a.yml" is <<"configs/lobby", "/", "a.yml">>, so    *)
(* that the prefix tests of the code are prefix tests here.  A file's      *)
(* content is the number of the commit that wrote it, 0 where there is no  *)
(* file.                                                                   *)
(***************************************************************************)
EXTENDS Naturals, SequencesExt

CONSTANTS
    Servers,
    Paths,        \* paths of config files in the repository
    ConfigDir,    \* server -> spec.ConfigDir, as the manifest writes it
    Slash,        \* "/"
    Reachable,    \* servers with an RCON address
    Consumer,     \* the consumer of watchEvents
    Jenkins,      \* deploys over HTTP, with or without a config overlay
    NoServer, NoPath,
    MaxCommits    \* bound on the commits

ASSUME SyncAssumption ==
    /\ ConfigDir \in [Servers -> Seq(UNION {{p[i] : i \in DOMAIN p} : p \in Paths}
                                     \cup {Slash})]
    /\ \A p \in Paths : p \in Seq(Range(p))
    /\ Consumer \notin Jenkins
    /\ NoServer \notin Servers /\ NoPath \notin Paths
    /\ MaxCommits \in Nat

VARIABLES
    tree,         \* path -> content in the working copy
    commits,
    news,         \* config paths of the events the consumer has not taken
    diff,         \* summary.ConfigPaths of the event it handles
    picked,       \* servers it has still to visit
    sync,         \* job -> its program counter and locals
    box,          \* server -> the container that has its name
    loaded,       \* server -> path -> content the game has loaded
    crossed       \* history: jobs that met another one on their server

repoVars == <<tree, commits, news>>
syncVars == <<repoVars, diff, picked, sync, box, loaded, crossed>>

-----------------------------------------------------------------------------
(* "In the config dir", three times.                                       *)

EndsInSlash(dir) == dir # <<>> /\ Last(dir) = Slash
WithoutSlash(dir) == IF EndsInSlash(dir) THEN Front(dir) ELSE dir

\* MapServersByConfig adds a slash where there is none.
Inside(p, s) ==
    /\ ConfigDir[s] # <<>>
    /\ IsPrefix(Append(WithoutSlash(ConfigDir[s]), Slash), p)

\* mapConfigPath means to do the same; its test holds for every directory that
\* does not end in a slash, which then gets none.
MapPrefix(dir) ==
    IF IsPrefix(Append(dir, Slash), Append(WithoutSlash(dir), Slash))
    THEN dir ELSE Append(dir, Slash)

Mapped(p, s) == ConfigDir[s] # <<>> /\ IsPrefix(MapPrefix(ConfigDir[s]), p)

\* What is left of the path names the file under /server/config, the only
\* directory there: CopyFileToContainer makes no other.
Inner(p, s) == SubSeq(p, Len(MapPrefix(ConfigDir[s])) + 1, Len(p))
Copyable(p, s) == \A i \in 2 .. Len(Inner(p, s)) : Inner(p, s)[i] # Slash

\* filepath.Walk goes through the directory itself.
Walked(s) == {p \in Paths : tree[p] # 0 /\ Inside(p, s)}

-----------------------------------------------------------------------------
Jobs == {Consumer} \cup Jenkins
Contents == 0 .. MaxCommits + 1
SyncSteps == {"new", "walk", "find", "files", "read", "copy", "synced", "failed"}
SyncEnded == {"new", "synced", "failed"}

\* A run of RunConfig: todo is what is left of changed, id the container it
\* found, path and text the file it copies.  need is history: what the files
\* were when it began.
Syncs ==
    [at : SyncSteps, server : Servers \cup {NoServer}, changed : SUBSET Paths,
     todo : SUBSET Paths, id : Nat, path : Paths \cup {NoPath}, text : Contents,
     need : [Paths -> Contents]]

NotBegun ==
    [at |-> "new", server |-> NoServer, changed |-> {}, todo |-> {}, id |-> 0,
     path |-> NoPath, text |-> 0, need |-> [p \in Paths |-> 0]]

Begun(step, s, changed) ==
    [NotBegun EXCEPT !.at = step, !.server = s, !.changed = changed,
                     !.todo = changed,
                     !.need = [p \in Paths |-> IF p \in changed THEN tree[p] ELSE 0]]

SyncAt(j, step) == sync[j].at = step
SyncTurn(j, step) == sync' = [sync EXCEPT ![j].at = step]
Fail(j) == sync' = [sync EXCEPT ![j] = [NotBegun EXCEPT !.at = "failed"]]
Server(j) == sync[j].server

\* Both the one that comes and those it meets are marked.
Meet(j, s) ==
    LET rivals == {k \in Jobs \ {j} : sync[k].at \notin SyncEnded /\ Server(k) = s}
    IN crossed' = IF rivals = {} THEN crossed \ {j} ELSE crossed \cup rivals \cup {j}

Empty == [p \in Paths |-> 0]

-----------------------------------------------------------------------------
(* The repository: a commit writes or deletes config files, the watcher    *)
(* pulls it and tells the consumer.                                        *)

PullConfigs(written, gone) ==
    /\ commits < MaxCommits
    /\ written \cup gone # {}
    /\ \A p \in gone \ written : tree[p] # 0
    /\ commits' = commits + 1
    /\ tree' = [p \in Paths |-> IF p \in written THEN commits' + 1
                                ELSE IF p \in gone THEN 0 ELSE tree[p]]
    /\ news' = news \cup written \cup gone
    /\ UNCHANGED <<diff, picked, sync, box, loaded, crossed>>

-----------------------------------------------------------------------------
(* Who starts a sync.                                                      *)

ConsumerFree == sync[Consumer].at \in SyncEnded

\* HandleChanges of a diff that has config files only.
PickServers ==
    /\ ConsumerFree
    /\ picked = {} /\ news # {}
    /\ news' = {}
    /\ diff' = news
    /\ picked' = {s \in Servers : \E p \in news : Inside(p, s)}
    /\ UNCHANGED <<tree, commits, sync, box, loaded, crossed>>

\* runConfig hands every changed path to every picked server.
Visit(s) ==
    /\ ConsumerFree
    /\ s \in picked
    /\ picked' = picked \ {s}
    /\ sync' = [sync EXCEPT ![Consumer] = Begun("find", s, diff)]
    /\ Meet(Consumer, s)
    /\ UNCHANGED <<repoVars, diff, box, loaded>>

\* The end of a deploy: the name has a new container, with nothing but what
\* the image has.  Without an overlay that is all.
Deployed(j, s) ==
    /\ SyncAt(j, "new")
    /\ sync' = [sync EXCEPT ![j] =
                  IF ConfigDir[s] = <<>> THEN Begun("synced", s, {})
                  ELSE Begun("walk", s, {})]
    /\ box' = [box EXCEPT ![s] = [id |-> @.id + 1, files |-> Empty]]
    /\ loaded' = [loaded EXCEPT ![s] = Empty]
    /\ Meet(j, s)
    /\ UNCHANGED <<repoVars, diff, picked>>

NoOverlay(j) ==
    /\ SyncAt(j, "walk")
    /\ SyncTurn(j, "synced")
    /\ UNCHANGED <<repoVars, diff, picked, box, loaded, crossed>>

\* FullConfigSync: every file there is counts as changed.
Walk(j) ==
    /\ SyncAt(j, "walk")
    /\ sync' = [sync EXCEPT ![j] =
                  Begun(IF Walked(Server(j)) = {} THEN "synced" ELSE "find",
                        Server(j), Walked(Server(j)))]
    /\ UNCHANGED <<repoVars, diff, picked, box, loaded, crossed>>

-----------------------------------------------------------------------------
(* Runner.RunConfig.  It returns at the first error.                       *)

Find(j) ==
    /\ SyncAt(j, "find")
    /\ sync' = [sync EXCEPT ![j] = [@ EXCEPT !.at = "files", !.id = box[Server(j)].id]]
    /\ UNCHANGED <<repoVars, diff, picked, box, loaded, crossed>>

\* Mutant of CheckFile: a file that is not there is skipped too.
CheckFileSkipping(j, p) ==
    /\ SyncAt(j, "files")
    /\ p \in sync[j].todo
    /\ sync' = IF tree[p] # 0 /\ Mapped(p, Server(j))
               THEN [sync EXCEPT ![j] = [@ EXCEPT !.at = "read", !.path = p]]
               ELSE [sync EXCEPT ![j].todo = @ \ {p}]
    /\ UNCHANGED <<repoVars, diff, picked, box, loaded, crossed>>

\* A path outside the config dir is skipped, but only if the file is there.
CheckFile(j, p) ==
    /\ SyncAt(j, "files")
    /\ p \in sync[j].todo
    /\ \/ tree[p] = 0 /\ Fail(j)
       \/ /\ tree[p] # 0
          /\ Mapped(p, Server(j))
          /\ sync' = [sync EXCEPT ![j] = [@ EXCEPT !.at = "read", !.path = p]]
       \/ /\ tree[p] # 0
          /\ ~Mapped(p, Server(j))
          /\ sync' = [sync EXCEPT ![j].todo = @ \ {p}]
    /\ UNCHANGED <<repoVars, diff, picked, box, loaded, crossed>>

\* Mutant of ReadFile: its error is not looked at.
ReadFileUnchecked(j) ==
    /\ SyncAt(j, "read")
    /\ sync' = [sync EXCEPT ![j] = [@ EXCEPT !.at = "copy",
                                             !.text = tree[sync[j].path]]]
    /\ UNCHANGED <<repoVars, diff, picked, box, loaded, crossed>>

\* CopyFileToContainer, os.ReadFile.
ReadFile(j) ==
    LET now == tree[sync[j].path] IN
    /\ SyncAt(j, "read")
    /\ IF now = 0 THEN Fail(j)
       ELSE sync' = [sync EXCEPT ![j] = [@ EXCEPT !.at = "copy", !.text = now]]
    /\ UNCHANGED <<repoVars, diff, picked, box, loaded, crossed>>

Copied(j) == [box[Server(j)] EXCEPT !.files[sync[j].path] = sync[j].text]

\* CopyToContainer: the container is called by its id, and must have the
\* directory.
CopyFile(j) ==
    /\ SyncAt(j, "copy")
    /\ IF box[Server(j)].id = sync[j].id /\ Copyable(sync[j].path, Server(j))
       THEN /\ box' = [box EXCEPT ![Server(j)] = Copied(j)]
            /\ sync' = [sync EXCEPT ![j] =
                           [@ EXCEPT !.at = "files", !.path = NoPath, !.text = 0,
                                     !.todo = sync[j].todo \ {sync[j].path}]]
       ELSE Fail(j) /\ UNCHANGED box
    /\ UNCHANGED <<repoVars, diff, picked, loaded, crossed>>

\* Docker does not answer, or not with what was asked for.
DockerFails(j) ==
    /\ sync[j].at \in {"find", "copy"}
    /\ Fail(j)
    /\ UNCHANGED <<repoVars, diff, picked, box, loaded, crossed>>

\* rcon.Dial and rcon.Reload, one attempt each: Options.Retries is 0 here.  The
\* port is that of whichever container has the server's port now.
Reloads(s) == loaded' = [loaded EXCEPT ![s] = box[s].files]

Reload(j) ==
    /\ SyncAt(j, "files")
    /\ sync[j].todo = {}
    /\ SyncTurn(j, "synced")
    /\ IF Server(j) \in Reachable THEN Reloads(Server(j)) ELSE UNCHANGED loaded
    /\ UNCHANGED <<repoVars, diff, picked, box, crossed>>

\* The command may have been carried out although no answer came.
ReloadFails(j) ==
    /\ SyncAt(j, "files")
    /\ sync[j].todo = {}
    /\ Server(j) \in Reachable
    /\ Fail(j)
    /\ Reloads(Server(j)) \/ UNCHANGED loaded
    /\ UNCHANGED <<repoVars, diff, picked, box, crossed>>

-----------------------------------------------------------------------------
\* Containers run with the files of the working copy.
SyncInit ==
    /\ commits = 0 /\ news = {} /\ diff = {} /\ picked = {} /\ crossed = {}
    /\ \E there \in SUBSET Paths :
         tree = [p \in Paths |-> IF p \in there THEN 1 ELSE 0]
    /\ sync = [j \in Jobs |-> NotBegun]
    /\ loaded = [s \in Servers |->
                   [p \in Paths |-> IF Inside(p, s) THEN tree[p] ELSE 0]]
    /\ box = [s \in Servers |-> [id |-> 1, files |-> loaded[s]]]

RunConfig(j) ==
    \/ Find(j) \/ ReadFile(j) \/ CopyFile(j) \/ DockerFails(j)
    \/ Reload(j) \/ ReloadFails(j)
    \/ \E p \in Paths : CheckFile(j, p)

SyncNext ==
    \/ \E written, gone \in SUBSET Paths : PullConfigs(written, gone \ written)
    \/ PickServers
    \/ \E s \in Servers : Visit(s) \/ \E j \in Jenkins : Deployed(j, s)
    \/ \E j \in Jenkins : NoOverlay(j) \/ Walk(j)
    \/ \E j \in Jobs : RunConfig(j)

SyncSpec == SyncInit /\ [][SyncNext]_syncVars

-----------------------------------------------------------------------------
(* Properties.                                                             *)

\* Types of all variables; a job has a path between the two halves of a copy only,
\* and at the second one the text of a file that existed.
SyncTypeOK ==
    /\ tree \in [Paths -> Contents] /\ commits \in 0 .. MaxCommits
    /\ news \in SUBSET Paths /\ diff \in SUBSET Paths
    /\ picked \in SUBSET Servers /\ crossed \in SUBSET Jobs
    /\ sync \in [Jobs -> Syncs]
    /\ \A j \in Jobs : /\ sync[j].path # NoPath <=> sync[j].at \in {"read", "copy"}
                       /\ SyncAt(j, "copy") => sync[j].text # 0
                       /\ sync[j].todo \subseteq sync[j].changed
    /\ box \in [Servers -> [id : Nat, files : [Paths -> Contents]]]
    /\ loaded \in [Servers -> [Paths -> Contents]]

\* A config sync that reported success has given the game every changed file of
\* its directory, as new as when it began or newer, whatever was pulled, deleted
\* or failed meanwhile; unless the container was replaced under it, another job
\* copied into the same one, or the manifest writes the directory with a slash
\* at its end.
SyncedMeansLoaded ==
    \A j \in Jobs :
        LET s == Server(j) IN
        /\ SyncAt(j, "synced") /\ j \notin crossed
        /\ s \in Reachable /\ ~EndsInSlash(ConfigDir[s])
        /\ box[s].id = sync[j].id
        => \A p \in sync[j].changed :
             Inside(p, s) => loaded[s][p] > 0 /\ loaded[s][p] >= sync[j].need[p]

-----------------------------------------------------------------------------
(* A statement of the code's comments that the code does not keep.         *)

\* config.go, mapConfigPath: a file that is not inside the config dir is not
\* mapped.  So a container has files of its own config dir only.
OwnFilesOnly ==
    \A s \in Servers, p \in Paths : box[s].files[p] # 0 => Inside(p, s)
=============================================================================
