---------------------------- MODULE ProxyConfig ----------------------------
(***************************************************************************)
(* velocity.toml, the one file the daemon writes for another program: the  *)
(* manifest that is in force (runServe's atomic pointer), the rules a      *)
(* manifest passes before it is (pkg/manifest), what FromManifest and TOML *)
(* make of it (pkg/proxy), and writeProxyConfig (gitops/reconciler.go),    *)
(* which two goroutines call on one path: the observe loop, and the        *)
(* consumer of the watcher's events, twice for every event.                *)
(*                                                                         *)
(* The file is written with os.WriteFile: opened and truncated, then       *)
(* filled from its beginning, which may end early.  A file is the sequence *)
(* of its pieces, each named by the text it is the piece of at that place. *)
(***************************************************************************)
EXTENDS Naturals, Sequences, FiniteSets

CONSTANTS
    Manifests,    \* what servers.yaml may hold, the wrong ones too
    NoManifest,   \* a file that does not parse; no manifest in force
    Observing,    \* the observe loop
    Handling,     \* the consumer of watchEvents
    MaxEdits,     \* bound on the commits
    MaxTroubles   \* bound on store errors, write errors and restarts

ServerKinds == {"gameplay", "proxy", "unknown"}

\* complete: the fields Validate wants and nothing here depends on are there.
ASSUME ProxyAssumption ==
    /\ \A m \in Manifests :
         /\ DOMAIN m = {"complete", "servers", "proxy"}
         /\ Len(m.servers) \in Nat /\ DOMAIN m.servers = 1 .. Len(m.servers)
         /\ m.complete \in BOOLEAN /\ m.proxy \in BOOLEAN
         /\ \A i \in DOMAIN m.servers :
              /\ m.servers[i].kind \in ServerKinds
              /\ m.servers[i].port \in Nat
    /\ NoManifest \notin Manifests
    /\ Observing # Handling
    /\ MaxEdits \in Nat /\ MaxTroubles \in Nat

VARIABLES
    servers_yaml, \* the manifest file of the working copy
    current,      \* the manifest in force
    unhandled,    \* events in the consumer's channel: is the manifest in them?
    loop,         \* goroutine -> its program counter, and its m
    velocity,     \* velocity.toml, piece by piece
    since,        \* history, since the file was last truncated: the texts of
                  \* those who had it open, and whether one was written whole
    edits, troubles

proxyVars ==
    <<servers_yaml, current, unhandled, loop, velocity, since, edits, troubles>>

-----------------------------------------------------------------------------
(* pkg/manifest and pkg/proxy.                                             *)

\* Mutant of Distinct: names are left to the map of FromManifest.
DistinctPorts(m) ==
    \A i, j \in DOMAIN m.servers :
        i < j /\ m.servers[i].port = m.servers[j].port => m.servers[i].port = 0

\* Validate's loop fails at the second of two servers.
Distinct(m) ==
    \A i, j \in DOMAIN m.servers :
        i < j => /\ m.servers[i].name # m.servers[j].name
                 /\ m.servers[i].port = m.servers[j].port => m.servers[i].port = 0

Validated(m) ==
    /\ m # NoManifest
    /\ m.complete
    /\ m.servers # <<>>
    /\ \A i \in DOMAIN m.servers : m.servers[i].kind # "unknown"
    /\ Distinct(m)

Load == IF Validated(servers_yaml) THEN servers_yaml ELSE NoManifest

Gameplay(m) == {i \in DOMAIN m.servers : m.servers[i].kind # "proxy"}

\* FromManifest: a map from names, and the first server to connect to.
FromManifest(m) ==
    [entries |-> {m.servers[i].name : i \in Gameplay(m)},
     try |-> {m.servers[i].name :
                i \in {k \in Gameplay(m) : \A j \in Gameplay(m) : k <= j}}]

Texts == {FromManifest(m) : m \in Manifests}

\* A piece for each entry of [servers], and one for the rest.
Length(text) == 1 + Cardinality(text.entries)
WholeText(text) == [k \in 1 .. Length(text) |-> text]
Truncated == <<>>

\* n pieces of a text are written from the file's beginning.
TextWritten(text, n) ==
    [k \in 1 .. (IF n < Len(velocity) THEN Len(velocity) ELSE n) |->
        IF k <= n THEN text ELSE velocity[k]]

-----------------------------------------------------------------------------
Loops == {Observing, Handling}
LoopSteps == {"wait", "pipelines", "proxy", "proxyText", "observe", "lastProxy",
              "lastProxyText"}
Writing(l) == loop[l].at \in {"proxyText", "lastProxyText"}
TextOf(l) == FromManifest(loop[l].m)

Waiting == [at |-> "wait", m |-> NoManifest]
InLoop(l, step) == loop[l].at = step
StepTo(l, step) == loop' = [loop EXCEPT ![l].at = step]
WaitAgain(l) == loop' = [loop EXCEPT ![l] = Waiting]

\* writeProxyConfig leaves the file alone when the manifest has no proxy.
Proxied(l, step, otherwise) ==
    IF loop[l].m.proxy THEN StepTo(l, step)
    ELSE IF otherwise = "wait" THEN WaitAgain(l) ELSE StepTo(l, otherwise)

-----------------------------------------------------------------------------
(* The repository.                                                         *)

EditManifest(m) ==
    /\ edits < MaxEdits
    /\ m # servers_yaml
    /\ servers_yaml' = m
    /\ unhandled' = Append(unhandled, TRUE)
    /\ edits' = edits + 1
    /\ UNCHANGED <<current, loop, velocity, since, troubles>>

EditOthers ==
    /\ edits < MaxEdits
    /\ unhandled' = Append(unhandled, FALSE)
    /\ edits' = edits + 1
    /\ UNCHANGED <<servers_yaml, current, loop, velocity, since, troubles>>

-----------------------------------------------------------------------------
(* The two goroutines.                                                     *)

\* runOnce.
ObserveAgain ==
    /\ InLoop(Observing, "wait")
    /\ current # NoManifest
    /\ loop' = [loop EXCEPT ![Observing] = [at |-> "observe", m |-> current]]
    /\ UNCHANGED <<servers_yaml, current, unhandled, velocity, since, edits,
                   troubles>>

\* The consumer reads servers.yaml as it is now.  One that is refused ends the
\* event and leaves the manifest in force.
Reloaded == IF Head(unhandled) THEN Load ELSE current

\* Mutant of Taken: m is read before the reload.
TakenBefore == current

Taken == Reloaded

HandleEvent ==
    /\ InLoop(Handling, "wait")
    /\ unhandled # <<>>
    /\ unhandled' = Tail(unhandled)
    /\ IF Reloaded = NoManifest THEN UNCHANGED <<current, loop>>
       ELSE /\ current' = Reloaded
            /\ loop' = [loop EXCEPT ![Handling] =
                          [at |-> "pipelines", m |-> Taken]]
    /\ UNCHANGED <<servers_yaml, velocity, since, edits, troubles>>

\* HandleChanges: whatever the pipelines do, the proxy's file comes next.
EndPipelines ==
    /\ InLoop(Handling, "pipelines")
    /\ Proxied(Handling, "proxy", "observe")
    /\ UNCHANGED <<servers_yaml, current, unhandled, velocity, since, edits,
                   troubles>>

\* Without Docker HandleChanges is Reconcile.
ObserveOnly ==
    /\ InLoop(Handling, "pipelines")
    /\ StepTo(Handling, "observe")
    /\ UNCHANGED <<servers_yaml, current, unhandled, velocity, since, edits,
                   troubles>>

\* Mutant of Observed: only HandleChanges writes the file.
ObservedOnly(l) ==
    /\ InLoop(l, "observe")
    /\ WaitAgain(l)
    /\ UNCHANGED <<servers_yaml, current, unhandled, velocity, since, edits,
                   troubles>>

\* Reconcile: the records first, then the file.
Observed(l) ==
    /\ InLoop(l, "observe")
    /\ Proxied(l, "lastProxy", "wait")
    /\ UNCHANGED <<servers_yaml, current, unhandled, velocity, since, edits,
                   troubles>>

\* The first record that cannot be written ends the pass, without the file.
ObservedBadly(l) ==
    /\ InLoop(l, "observe")
    /\ troubles < MaxTroubles
    /\ troubles' = troubles + 1
    /\ WaitAgain(l)
    /\ UNCHANGED <<servers_yaml, current, unhandled, velocity, since, edits>>

\* Mutant of Opened: without O_TRUNC.
OpenedAsItIs == velocity

\* os.WriteFile opens with O_TRUNC.
Opened == Truncated

OpenToml(l) ==
    /\ loop[l].at \in {"proxy", "lastProxy"}
    /\ velocity' = Opened
    /\ since' = [texts |-> {TextOf(k) : k \in {l} \cup {o \in Loops : Writing(o)}},
                 filled |-> FALSE]
    /\ StepTo(l, IF InLoop(l, "proxy") THEN "proxyText" ELSE "lastProxyText")
    /\ UNCHANGED <<servers_yaml, current, unhandled, edits, troubles>>

AfterToml(l) ==
    IF loop[l].at \in {"proxy", "proxyText"} THEN StepTo(l, "observe") ELSE WaitAgain(l)

WriteToml(l) ==
    /\ Writing(l)
    /\ velocity' = TextWritten(TextOf(l), Length(TextOf(l)))
    /\ since' = [since EXCEPT !.filled = TRUE]
    /\ AfterToml(l)
    /\ UNCHANGED <<servers_yaml, current, unhandled, edits, troubles>>

\* What a write that ends early, in an error or a crash, may have put there.
CutShort(l) == {TextWritten(TextOf(l), n) : n \in 0 .. Length(TextOf(l))}

\* The file cannot be opened, or not filled: an event says so, and the pass goes
\* on.
WriteTomlFails(l) ==
    /\ Writing(l) \/ loop[l].at \in {"proxy", "lastProxy"}
    /\ troubles < MaxTroubles
    /\ troubles' = troubles + 1
    /\ velocity' \in IF Writing(l) THEN CutShort(l) ELSE {velocity}
    /\ AfterToml(l)
    /\ UNCHANGED <<servers_yaml, current, unhandled, since, edits>>

\* The process ends, within a write too.  A new daemon reads servers.yaml, and
\* begins with none when it is refused.
RestartLoops ==
    /\ troubles < MaxTroubles
    /\ troubles' = troubles + 1
    /\ current' = Load
    /\ unhandled' = <<>>
    /\ loop' = [l \in Loops |-> Waiting]
    /\ \/ UNCHANGED velocity
       \/ \E l \in Loops : Writing(l) /\ velocity' \in CutShort(l)
    /\ UNCHANGED <<servers_yaml, since, edits>>

-----------------------------------------------------------------------------
ProxyInit ==
    /\ servers_yaml \in Manifests
    /\ current = Load
    /\ unhandled = <<>>
    /\ loop = [l \in Loops |-> Waiting]
    /\ velocity = Truncated
    /\ since = [texts |-> {}, filled |-> FALSE]
    /\ edits = 0 /\ troubles = 0

LoopGoesOn(l) ==
    \/ OpenToml(l) \/ WriteToml(l) \/ Observed(l)
    \/ l = Observing /\ ObserveAgain
    \/ l = Handling /\ (HandleEvent \/ EndPipelines)

ProxyNext ==
    \/ \E m \in Manifests \cup {NoManifest} : EditManifest(m)
    \/ EditOthers
    \/ \E l \in Loops : LoopGoesOn(l) \/ ObservedBadly(l) \/ WriteTomlFails(l)
    \/ ObserveOnly
    \/ RestartLoops

\* The goroutines are scheduled, the ticker ticks and the pipelines have limits
\* of their own.
ProxyFairness == \A l \in Loops : WF_proxyVars(LoopGoesOn(l))

ProxySpec == ProxyInit /\ [][ProxyNext]_proxyVars /\ ProxyFairness

-----------------------------------------------------------------------------
(* Properties.                                                             *)

\* Types of all variables; the consumer works with the manifest in force, which
\* it alone replaces.
ProxyTypeOK ==
    /\ servers_yaml \in Manifests \cup {NoManifest}
    /\ current \in Manifests \cup {NoManifest}
    /\ unhandled \in Seq(BOOLEAN) /\ Len(unhandled) <= MaxEdits
    /\ loop \in [Loops -> [at : LoopSteps, m : Manifests \cup {NoManifest}]]
    /\ loop[Handling].m \in {NoManifest, current}
    /\ \A l \in Loops : InLoop(l, "wait") <=> loop[l].m = NoManifest
    /\ velocity \in Seq(Texts)
    /\ since \in [texts : SUBSET Texts, filled : BOOLEAN]
    /\ edits \in 0 .. MaxEdits /\ troubles \in 0 .. MaxTroubles

\* With every manifest that a goroutine works with, each gameplay server has an
\* entry of its own in the proxy's file, the one players begin at is among them,
\* and no two servers ask for one host port: Docker would start only one.
EveryServerReachable ==
    \A m \in ({current} \cup {loop[l].m : l \in Loops}) \ {NoManifest} :
        LET text == FromManifest(m) IN
        /\ Cardinality(text.entries) = Cardinality(Gameplay(m))
        /\ Gameplay(m) # {} => Cardinality(text.try) = 1
        /\ text.try \subseteq text.entries
        /\ \A i, j \in DOMAIN m.servers :
             i # j /\ m.servers[i].port = m.servers[j].port => m.servers[i].port = 0

\* Nothing of an earlier manifest outlives the truncation: however the two
\* goroutines' writes overlap, end early in an error or are cut off by a crash,
\* the proxy's file has only pieces of the texts of those who had it open since.
\* If that was one text, the file is its beginning, and from the first write of
\* it that succeeds it is that text and nothing else, whatever becomes of the
\* other goroutine's write.
FileOfOneManifest ==
    /\ \A k \in DOMAIN velocity : velocity[k] \in since.texts
    /\ \A text \in since.texts :
         since.texts = {text} /\ since.filled => velocity = WholeText(text)

\* A pass that still works with an older manifest may put its text over a newer
\* one's, and two passes may leave a mixture; but once the manifest in force
\* stays the same and has the proxy enabled, the file comes to be its text, and
\* later a reader finds that or a file that is being written.
ProxyFileSettles ==
    LET Wanted == current # NoManifest /\ current.proxy
        Right == velocity = WholeText(FromManifest(current))
    IN /\ []<>(Wanted => Right)
       /\ <>[](Wanted => Right \/ velocity = Truncated)
=============================================================================
