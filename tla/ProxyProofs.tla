---------------------------- MODULE ProxyProofs ----------------------------
(***************************************************************************)
(* Proofs about ProxyConfig, for any manifests, any number of edits,       *)
(* failed writes and restarts.                                             *)
(***************************************************************************)
EXTENDS ProxyConfig, TLAPS, FiniteSetTheorems, WellFoundedInduction

-----------------------------------------------------------------------------
(* FromManifest.                                                           *)

\* A manifest has finitely many servers, and what is made of them is finite.
LEMMA ManifestFinite ==
    ASSUME NEW m \in Manifests
    PROVE  /\ IsFiniteSet(Gameplay(m))
           /\ IsFiniteSet(FromManifest(m).entries)
           /\ Length(FromManifest(m)) \in Nat \ {0}
<1>1. PICK n \in Nat : DOMAIN m.servers = 1 .. n
  BY ProxyAssumption
<1>2. IsFiniteSet(DOMAIN m.servers)
  BY <1>1, FS_Interval
<1>3. IsFiniteSet(Gameplay(m))
  BY <1>2, FS_Subset DEF Gameplay
<1> DEFINE f == [i \in Gameplay(m) |-> m.servers[i].name]
<1>4. f \in Surjection(Gameplay(m), FromManifest(m).entries)
  BY DEF Surjection, FromManifest
<1>5. IsFiniteSet(FromManifest(m).entries)
  BY <1>3, <1>4, FS_Surjection
<1>6. Cardinality(FromManifest(m).entries) \in Nat
  BY <1>5, FS_CardinalityType
<1> QED  BY <1>3, <1>5, <1>6 DEF Length

\* Names that are distinct give each gameplay server an entry of its own.
LEMMA OwnEntries ==
    ASSUME NEW m \in Manifests, Distinct(m)
    PROVE  Cardinality(FromManifest(m).entries) = Cardinality(Gameplay(m))
<1> DEFINE G == Gameplay(m)
           E == FromManifest(m).entries
           f == [i \in G |-> m.servers[i].name]
<1>1. PICK n \in Nat : DOMAIN m.servers = 1 .. n
  BY ProxyAssumption
<1>2. \A i, j \in G : m.servers[i].name = m.servers[j].name => i = j
  <2> SUFFICES ASSUME NEW i \in G, NEW j \in G, i # j
               PROVE  m.servers[i].name # m.servers[j].name
    OBVIOUS
  <2>1. i \in DOMAIN m.servers /\ j \in DOMAIN m.servers
    BY DEF Gameplay
  <2>2. i \in Int /\ j \in Int
    BY <2>1, <1>1
  <2>3. i < j \/ j < i
    BY <2>2
  <2> QED  BY <2>1, <2>3 DEF Distinct
<1>3. E = {m.servers[i].name : i \in G}
  BY DEF FromManifest
<1>4. f \in Surjection(G, E)
  BY <1>3 DEF Surjection
<1>5. f \in Injection(G, E)
  BY <1>2, <1>3 DEF Injection, IsInjective
<1> HIDE DEF G, E, f
<1>6. IsFiniteSet(G)
  BY ManifestFinite DEF G
<1>7. Cardinality(E) = Cardinality(G)
  BY <1>4, <1>5, <1>6, FS_Surjection
<1> QED  BY <1>7 DEF G, E

\* The naturals are well-ordered.
LEMMA SmallestOf ==
    ASSUME NEW G, G \subseteq Nat, G # {}
    PROVE  \E k \in G : \A j \in G : k <= j
<1> DEFINE T == {1 .. k : k \in G}
           R == StrictSubsetOrdering(Nat)
<1>1. T \subseteq FiniteSubsetsOf(Nat)
  BY FS_Interval DEF FiniteSubsetsOf
<1>2. T # {}
  OBVIOUS
<1>3. IsWellFoundedOn(R, FiniteSubsetsOf(Nat))
  BY FS_StrictSubsetOrderingWellFounded
<1> HIDE DEF T, R
<1>4. PICK x \in T : \A y \in T : ~ (<<y, x>> \in R)
  BY <1>1, <1>2, <1>3, WFMin
<1>5. PICK k \in G : x = 1 .. k
  BY DEF T
<1>6. SUFFICES ASSUME NEW j \in G, j < k PROVE FALSE
  OBVIOUS
<1>7. 1 .. j \in T /\ ~ (<<1 .. j, 1 .. k>> \in R)
  BY <1>4, <1>5 DEF T
<1>8. 1 .. j \subseteq 1 .. k /\ k \in 1 .. k /\ k \notin 1 .. j
  BY <1>6
<1>9. 1 .. j \in SUBSET Nat /\ 1 .. k \in SUBSET Nat
  OBVIOUS
<1> QED  BY <1>7, <1>8, <1>9 DEF R, StrictSubsetOrdering

\* Of the gameplay servers one comes first.
LEMMA OneToTry ==
    ASSUME NEW m \in Manifests, Distinct(m), Gameplay(m) # {}
    PROVE  Cardinality(FromManifest(m).try) = 1
<1> DEFINE G == Gameplay(m)
           first(k) == \A j \in G : k <= j
<1>1. PICK n \in Nat : DOMAIN m.servers = 1 .. n
  BY ProxyAssumption
<1>2. G \subseteq Nat /\ G # {}
  BY <1>1 DEF Gameplay
<1>3. PICK k \in G : first(k)
  BY <1>2, SmallestOf
<1>4. \A i \in G : first(i) <=> i = k
  BY <1>2, <1>3
<1>5. FromManifest(m).try = {m.servers[k].name}
  BY <1>3, <1>4 DEF FromManifest
<1> QED  BY <1>5, FS_Singleton

-----------------------------------------------------------------------------
(* The inductive invariant.                                                *)

\* Every manifest a goroutine works with has passed Validate.
InForce ==
    \A m \in ({current} \cup {loop[l].m : l \in Loops}) \ {NoManifest} :
        Validated(m)

\* Who fills the file is among those it was open for since it was truncated.
OwnText == \A l \in Loops : Writing(l) => TextOf(l) \in since.texts

\* Every piece is at its place in a text the file was open for.
InPlace ==
    \A k \in 1 .. Len(velocity) :
        velocity[k] \in since.texts /\ k <= Length(velocity[k])

\* A text that was written whole reaches to its end.
ToTheEnd ==
    \A text \in since.texts :
        since.texts = {text} /\ since.filled => Len(velocity) >= Length(text)

FileSound == OwnText /\ InPlace /\ ToTheEnd

Sound ==
    /\ ProxyTypeOK
    /\ Len(unhandled) <= edits
    /\ InForce
    /\ FileSound

\* A text has a length.
LEMMA TextLength == \A text \in Texts : Length(text) \in Nat \ {0}
BY ManifestFinite DEF Texts

\* What goroutines that have a manifest write.
LEMMA TextTyped ==
    ASSUME Sound, NEW l \in Loops, ~InLoop(l, "wait")
    PROVE  loop[l].m \in Manifests /\ TextOf(l) \in Texts
<1>1. loop[l].m \in Manifests
  BY DEF Sound, ProxyTypeOK
<1> QED  BY <1>1 DEF TextOf, Texts

\* A write reaches as far as it goes, and leaves what is behind.
LEMMA TextWrittenFacts ==
    ASSUME velocity \in Seq(Texts), NEW text \in Texts, NEW n \in Nat
    PROVE  /\ TextWritten(text, n) \in Seq(Texts)
           /\ Len(TextWritten(text, n)) = IF n < Len(velocity) THEN Len(velocity)
                                          ELSE n
           /\ \A k \in 1 .. Len(TextWritten(text, n)) :
                TextWritten(text, n)[k] = IF k <= n THEN text ELSE velocity[k]
<1> DEFINE l == IF n < Len(velocity) THEN Len(velocity) ELSE n
<1>1. l \in Nat
  OBVIOUS
<1>2. \A k \in 1 .. l : (IF k <= n THEN text ELSE velocity[k]) \in Texts
  OBVIOUS
<1>3. TextWritten(text, n) = [k \in 1 .. l |-> IF k <= n THEN text ELSE velocity[k]]
  BY DEF TextWritten
<1> HIDE DEF l
<1>4. TextWritten(text, n) \in [1 .. l -> Texts]
  BY <1>2, <1>3
<1>5. TextWritten(text, n) \in Seq(Texts) /\ Len(TextWritten(text, n)) = l
  BY <1>1, <1>4
<1>6. \A k \in 1 .. l : TextWritten(text, n)[k] = IF k <= n THEN text ELSE velocity[k]
  BY <1>3
<1> QED  BY <1>5, <1>6 DEF l

\* The invariant's parts make the property.
LEMMA OneManifest == Sound => FileOfOneManifest
<1> SUFFICES ASSUME Sound PROVE FileOfOneManifest
  OBVIOUS
<1>1. velocity \in Seq(Texts) /\ DOMAIN velocity = 1 .. Len(velocity)
  BY DEF Sound, ProxyTypeOK
<1>2. \A k \in DOMAIN velocity : velocity[k] \in since.texts
  BY <1>1 DEF Sound, FileSound, InPlace
<1>3. ASSUME NEW text \in since.texts, since.texts = {text}, since.filled
      PROVE  velocity = WholeText(text)
  <2>1. text \in Texts
    BY DEF Sound, ProxyTypeOK
  <2>2. Length(text) \in Nat \ {0} /\ Len(velocity) \in Nat
    BY <1>1, <2>1, TextLength
  <2>3. \A k \in 1 .. Len(velocity) : velocity[k] = text /\ k <= Length(text)
    BY <1>3 DEF Sound, FileSound, InPlace
  <2>4. Len(velocity) >= Length(text)
    BY <1>3 DEF Sound, FileSound, ToTheEnd
  <2>5. Len(velocity) = Length(text)
    BY <2>2, <2>3, <2>4
  <2>6. velocity = [k \in 1 .. Len(velocity) |-> velocity[k]]
    BY <1>1
  <2> QED  BY <2>3, <2>5, <2>6 DEF WholeText
<1> QED  BY <1>2, <1>3 DEF FileOfOneManifest

\* A goroutine that waits has no manifest.
LEMMA WaitingLoop == Waiting \in [at : LoopSteps, m : Manifests \cup {NoManifest}]
BY DEF Waiting, LoopSteps

\* The daemon's first state.
LEMMA InitSound == ProxyInit => Sound
<1> SUFFICES ASSUME ProxyInit PROVE Sound
  OBVIOUS
<1> USE DEF ProxyInit
<1>1. current \in Manifests \cup {NoManifest}
      /\ (current # NoManifest => Validated(current))
  BY DEF Load
<1>2. ProxyTypeOK
  <2>1. servers_yaml \in Manifests \cup {NoManifest}
        /\ current \in Manifests \cup {NoManifest}
    BY <1>1
  <2>2. unhandled \in Seq(BOOLEAN) /\ Len(unhandled) <= MaxEdits
    BY ProxyAssumption
  <2>3. loop \in [Loops -> [at : LoopSteps, m : Manifests \cup {NoManifest}]]
    BY WaitingLoop
  <2>4. loop[Handling].m \in {NoManifest, current}
        /\ \A l \in Loops : InLoop(l, "wait") <=> loop[l].m = NoManifest
    BY DEF Waiting, Loops, InLoop
  <2>5. velocity \in Seq(Texts)
    BY DEF Truncated
  <2>6. since \in [texts : SUBSET Texts, filled : BOOLEAN]
    OBVIOUS
  <2>7. edits \in 0 .. MaxEdits /\ troubles \in 0 .. MaxTroubles
    <3>1. edits = 0 /\ troubles = 0
      OBVIOUS
    <3> QED  BY <3>1, ProxyAssumption
  <2> HIDE DEF ProxyInit
  <2> QED  BY <2>1, <2>2, <2>3, <2>4, <2>5, <2>6, <2>7 DEF ProxyTypeOK
<1>3. InForce
  BY <1>1 DEF InForce, Waiting
<1>4. FileSound
  BY DEF FileSound, OwnText, InPlace, ToTheEnd, Writing, Waiting, Truncated
<1> QED  BY <1>2, <1>3, <1>4, ProxyAssumption DEF Sound

-----------------------------------------------------------------------------
(* Steps.  Each says what a goroutine's record may become.                 *)

\* A goroutine goes on with the manifest it has, or waits again.
Onward(l) ==
    \/ \E step \in LoopSteps \ {"wait"} :
         loop' = [loop EXCEPT ![l].at = step]
    \/ loop' = [loop EXCEPT ![l] = Waiting]

\* Its steps keep all that is about the goroutines.
LEMMA OnwardTypes ==
    ASSUME Sound, NEW l \in Loops, ~InLoop(l, "wait"), Onward(l),
           UNCHANGED <<servers_yaml, current, unhandled, edits>>
    PROVE  /\ loop' \in [Loops -> [at : LoopSteps, m : Manifests \cup {NoManifest}]]
           /\ loop'[Handling].m \in {NoManifest, current'}
           /\ \A k \in Loops : (loop'[k].at = "wait") <=> (loop'[k].m = NoManifest)
           /\ \A k \in Loops : loop'[k].m \in {loop[k].m, NoManifest}
           /\ \A k \in Loops \ {l} : loop'[k] = loop[k]
           /\ InForce'
<1> USE DEF Sound, ProxyTypeOK, InLoop
<1>1. CASE \E step \in LoopSteps \ {"wait"} : loop' = [loop EXCEPT ![l].at = step]
  <2>1. PICK step \in LoopSteps \ {"wait"} : loop' = [loop EXCEPT ![l].at = step]
    BY <1>1
  <2>2. loop' \in [Loops -> [at : LoopSteps, m : Manifests \cup {NoManifest}]]
    BY <2>1
  <2>3. \A k \in Loops : loop'[k].m = loop[k].m
    BY <2>1
  <2>4. \A k \in Loops : (loop'[k].at = "wait") <=> (loop'[k].m = NoManifest)
    BY <2>1, <2>3
  <2>5. \A k \in Loops \ {l} : loop'[k] = loop[k]
    BY <2>1
  <2>6. InForce'
    BY <2>3 DEF InForce
  <2> QED  BY <2>2, <2>3, <2>4, <2>5, <2>6 DEF Loops
<1>2. CASE loop' = [loop EXCEPT ![l] = Waiting]
  <2>1. loop' \in [Loops -> [at : LoopSteps, m : Manifests \cup {NoManifest}]]
    BY <1>2, WaitingLoop
  <2>2. \A k \in Loops : loop'[k].m \in {loop[k].m, NoManifest}
    BY <1>2 DEF Waiting
  <2>3. \A k \in Loops : (loop'[k].at = "wait") <=> (loop'[k].m = NoManifest)
    BY <1>2 DEF Waiting
  <2>4. \A k \in Loops \ {l} : loop'[k] = loop[k]
    BY <1>2
  <2>5. InForce'
    BY <2>2 DEF InForce
  <2> QED  BY <2>1, <2>2, <2>3, <2>4, <2>5 DEF Loops
<1> QED  BY <1>1, <1>2 DEF Onward

\* A goroutine that goes on with the types of the file's state kept.
LEMMA OnwardSound ==
    ASSUME Sound, NEW l \in Loops, ~InLoop(l, "wait"), Onward(l),
           UNCHANGED <<servers_yaml, current, unhandled, edits>>,
           velocity' \in Seq(Texts),
           since' \in [texts : SUBSET Texts, filled : BOOLEAN],
           troubles' \in 0 .. MaxTroubles
    PROVE  ProxyTypeOK' /\ Len(unhandled') <= edits' /\ InForce'
<1>1. /\ loop' \in [Loops -> [at : LoopSteps, m : Manifests \cup {NoManifest}]]
      /\ loop'[Handling].m \in {NoManifest, current'}
      /\ \A k \in Loops : (loop'[k].at = "wait") <=> (loop'[k].m = NoManifest)
      /\ InForce'
  BY OnwardTypes
<1>2. servers_yaml' \in Manifests \cup {NoManifest}
      /\ current' \in Manifests \cup {NoManifest}
      /\ unhandled' \in Seq(BOOLEAN) /\ Len(unhandled') <= MaxEdits
      /\ edits' \in 0 .. MaxEdits /\ Len(unhandled') <= edits'
  BY DEF Sound, ProxyTypeOK
<1>3. \A k \in Loops : (InLoop(k, "wait") <=> loop[k].m = NoManifest)'
  BY <1>1 DEF InLoop
<1>4. ProxyTypeOK'
  BY <1>1, <1>2, <1>3 DEF ProxyTypeOK
<1> QED  BY <1>1, <1>2, <1>4

\* Who writes after the step wrote before it, from the same manifest.
NobodyNew ==
    \A k \in Loops : Writing(k)' => Writing(k) /\ loop'[k].m = loop[k].m

\* Where the file is left alone and nobody begins to write, it stays sound.
LEMMA FileLeftAlone ==
    ASSUME Sound, UNCHANGED <<velocity, since>>, NobodyNew
    PROVE  FileSound'
<1>1. OwnText'
  BY DEF Sound, FileSound, OwnText, NobodyNew, TextOf, FromManifest, Gameplay
<1>2. InPlace' /\ ToTheEnd'
  BY DEF Sound, FileSound, InPlace, ToTheEnd, Length
<1> QED  BY <1>1, <1>2 DEF FileSound

\* Some pieces are put there by one that has the file open, all or the first.
LEMMA FilePut ==
    ASSUME Sound, NEW text \in Texts, NEW n \in 0 .. Length(text),
           text \in since.texts, velocity' = TextWritten(text, n),
           since'.texts = since.texts,
           since'.filled => since.filled \/ n = Length(text), NobodyNew
    PROVE  FileSound' /\ velocity' \in Seq(Texts)
<1>1. velocity \in Seq(Texts) /\ n \in Nat /\ Length(text) \in Nat
  BY TextLength DEF Sound, ProxyTypeOK
<1>2. /\ velocity' \in Seq(Texts)
      /\ Len(velocity') = IF n < Len(velocity) THEN Len(velocity) ELSE n
      /\ \A k \in 1 .. Len(velocity') :
           velocity'[k] = IF k <= n THEN text ELSE velocity[k]
  BY <1>1, TextWrittenFacts
<1>3. Len(velocity) \in Nat /\ Len(velocity') \in Nat
  BY <1>1, <1>2
<1>4. OwnText'
  BY DEF Sound, FileSound, OwnText, NobodyNew, TextOf, FromManifest, Gameplay
<1>5. ASSUME NEW k \in 1 .. Len(velocity')
      PROVE  velocity'[k] \in since.texts /\ k <= Length(velocity'[k])
  <2>1. CASE k <= n
    BY <1>1, <1>2, <2>1
  <2>2. CASE ~(k <= n)
    <3>1. k \in 1 .. Len(velocity) /\ velocity'[k] = velocity[k]
      BY <1>1, <1>2, <1>3, <2>2
    <3> QED  BY <3>1 DEF Sound, FileSound, InPlace
  <2> QED  BY <2>1, <2>2
<1>6. InPlace'
  BY <1>5 DEF InPlace, Length
<1>7. ASSUME NEW whole \in since.texts, since.texts = {whole}, since'.filled
      PROVE  Len(velocity') >= Length(whole)
  <2>1. whole = text
    BY <1>7
  <2>2. CASE since.filled
    <3>1. Len(velocity) >= Length(text)
      BY <1>7, <2>1, <2>2 DEF Sound, FileSound, ToTheEnd
    <3> QED  BY <1>1, <1>2, <1>3, <2>1, <3>1
  <2>3. CASE n = Length(text)
    BY <1>1, <1>2, <1>3, <2>1, <2>3
  <2> QED  BY <1>7, <2>2, <2>3
<1>8. ToTheEnd'
  BY <1>7 DEF ToTheEnd, Length
<1> QED  BY <1>2, <1>4, <1>6, <1>8 DEF FileSound

\* What Proxied does is Onward, without a write.
LEMMA ProxiedOnward ==
    ASSUME Sound, NEW l \in Loops,
           \/ Proxied(l, "proxy", "observe")
           \/ Proxied(l, "lastProxy", "wait")
    PROVE  Onward(l) /\ ~Writing(l)'
<1> DEFINE R == [at : LoopSteps, m : Manifests \cup {NoManifest}]
<1>0. loop \in [Loops -> R]
  BY DEF Sound, ProxyTypeOK
<1> HIDE DEF R
<1>1. CASE StepTo(l, "proxy") \/ StepTo(l, "observe") \/ StepTo(l, "lastProxy")
  <2>1. PICK step \in {"proxy", "observe", "lastProxy"} :
          loop' = [loop EXCEPT ![l].at = step]
    BY <1>1 DEF StepTo
  <2>2. loop'[l].at = step
    BY <1>0, <2>1 DEF R
  <2> QED  BY <2>1, <2>2 DEF Onward, Writing, LoopSteps
<1>2. CASE WaitAgain(l)
  BY <1>0, <1>2 DEF WaitAgain, Onward, Writing, Waiting
<1> QED  BY <1>1, <1>2 DEF Proxied

\* A step of a goroutine that neither opens nor fills the file.
LEMMA QuietStep ==
    ASSUME Sound, NEW l \in Loops, ~InLoop(l, "wait"), Onward(l), ~Writing(l)',
           UNCHANGED <<servers_yaml, current, unhandled, velocity, since, edits>>,
           troubles' \in 0 .. MaxTroubles
    PROVE  Sound'
<1>1. ProxyTypeOK' /\ Len(unhandled') <= edits' /\ InForce'
  BY OnwardSound DEF Sound, ProxyTypeOK
<1>2. \A k \in Loops \ {l} : loop'[k] = loop[k]
  BY OnwardTypes
<1>3. NobodyNew
  BY <1>2 DEF NobodyNew, Writing
<1> QED  BY <1>1, <1>3, FileLeftAlone DEF Sound

\* After the pipelines: the file's turn, or the records'.
LEMMA EndPipelinesSound == Sound /\ EndPipelines => Sound'
BY ProxiedOnward, QuietStep
   DEF EndPipelines, InLoop, Loops, Sound, ProxyTypeOK

\* Without Docker the records come at once.
LEMMA ObserveOnlySound == Sound /\ ObserveOnly => Sound'
<1> SUFFICES ASSUME Sound, ObserveOnly PROVE Sound'
  OBVIOUS
<1>1. Onward(Handling) /\ ~Writing(Handling)'
  BY DEF ObserveOnly, StepTo, Onward, Writing, LoopSteps, Sound, ProxyTypeOK, Loops
<1> QED  BY <1>1, QuietStep DEF ObserveOnly, InLoop, Loops, Sound, ProxyTypeOK

\* The records are written, and the file is next, or nothing is.
LEMMA ObservedSound ==
    ASSUME Sound, NEW l \in Loops, Observed(l) PROVE Sound'
BY ProxiedOnward, QuietStep DEF Observed, InLoop, Sound, ProxyTypeOK

\* A record that cannot be written ends the pass.
LEMMA ObservedBadlySound ==
    ASSUME Sound, NEW l \in Loops, ObservedBadly(l) PROVE Sound'
<1>1. Onward(l) /\ ~Writing(l)'
  BY DEF ObservedBadly, WaitAgain, Onward, Writing, Waiting, Sound, ProxyTypeOK
<1>2. troubles' \in 0 .. MaxTroubles
  BY ProxyAssumption DEF ObservedBadly, Sound, ProxyTypeOK
<1> QED  BY <1>1, <1>2, QuietStep DEF ObservedBadly, InLoop

\* AfterToml is Onward, and the goroutine does not write any more.
LEMMA AfterTomlOnward ==
    ASSUME Sound, NEW l \in Loops, AfterToml(l)
    PROVE  Onward(l) /\ ~Writing(l)'
<1> USE DEF Sound, ProxyTypeOK
<1>1. CASE StepTo(l, "observe")
  BY <1>1 DEF StepTo, Onward, Writing, LoopSteps
<1>2. CASE WaitAgain(l)
  BY <1>2 DEF WaitAgain, Onward, Writing, Waiting
<1> QED  BY <1>1, <1>2 DEF AfterToml

\* A write that ends early is by one that has the file open, and no longer.
LEMMA CutShortPuts ==
    ASSUME Sound, NEW l \in Loops, Writing(l), velocity' \in CutShort(l),
           since' = since, NobodyNew
    PROVE  FileSound' /\ velocity' \in Seq(Texts)
<1>1. PICK text \in Texts : text = TextOf(l)
  BY TextTyped DEF Writing, InLoop
<1>2. PICK n \in 0 .. Length(text) : velocity' = TextWritten(text, n)
  BY <1>1 DEF CutShort
<1>3. text \in since.texts
  BY <1>1 DEF Sound, FileSound, OwnText
<1> QED  BY <1>2, <1>3, FilePut

\* A failed write leaves what the open left, or some pieces more.
LEMMA WriteTomlFailsSound ==
    ASSUME Sound, NEW l \in Loops, WriteTomlFails(l) PROVE Sound'
<1>1. Onward(l) /\ ~Writing(l)'
  BY AfterTomlOnward DEF WriteTomlFails
<1>2. troubles' \in 0 .. MaxTroubles
  BY ProxyAssumption DEF WriteTomlFails, Sound, ProxyTypeOK
<1>3. ~InLoop(l, "wait") /\ UNCHANGED <<servers_yaml, current, unhandled, since, edits>>
  BY DEF WriteTomlFails, InLoop, Writing
<1>4. CASE ~Writing(l)
  BY <1>1, <1>2, <1>3, <1>4, QuietStep DEF WriteTomlFails
<1>5. CASE Writing(l)
  <2>1. \A k \in Loops \ {l} : loop'[k] = loop[k]
    BY <1>1, <1>3, OnwardTypes
  <2>2. NobodyNew
    BY <1>1, <2>1 DEF NobodyNew, Writing
  <2>3. velocity' \in CutShort(l)
    BY <1>5 DEF WriteTomlFails
  <2>4. FileSound' /\ velocity' \in Seq(Texts)
    BY <1>3, <1>5, <2>2, <2>3, CutShortPuts
  <2>5. since' \in [texts : SUBSET Texts, filled : BOOLEAN]
    BY <1>3 DEF Sound, ProxyTypeOK
  <2>6. ProxyTypeOK' /\ Len(unhandled') <= edits' /\ InForce'
    BY <1>1, <1>2, <1>3, <2>4, <2>5, OnwardSound
  <2> QED  BY <2>4, <2>6 DEF Sound
<1> QED  BY <1>4, <1>5

\* The file is opened: it holds nothing, and whoever is at it may fill it.
LEMMA OpenTomlSound ==
    ASSUME Sound, NEW l \in Loops, OpenToml(l) PROVE Sound'
<1> DEFINE W == {l} \cup {o \in Loops : Writing(o)}
<1>1. /\ velocity' = <<>>
      /\ since' = [texts |-> {TextOf(k) : k \in W}, filled |-> FALSE]
      /\ UNCHANGED <<servers_yaml, current, unhandled, edits, troubles>>
  BY DEF OpenToml, Opened, Truncated
<1>2. ~InLoop(l, "wait")
  BY DEF OpenToml, InLoop
<1>3. \E step \in {"proxyText", "lastProxyText"} : loop' = [loop EXCEPT ![l].at = step]
  BY DEF OpenToml, StepTo
<1>4. Onward(l)
  BY <1>3 DEF Onward, LoopSteps
<1>5. /\ \A k \in Loops \ {l} : loop'[k] = loop[k]
      /\ loop'[l].m = loop[l].m
  BY <1>3 DEF Sound, ProxyTypeOK
<1>6. \A k \in W : TextOf(k) \in Texts
  BY <1>2, TextTyped DEF Writing, InLoop
<1>7. since' \in [texts : SUBSET Texts, filled : BOOLEAN]
  BY <1>1, <1>6
<1>8. velocity' \in Seq(Texts) /\ Len(velocity') = 0
  BY <1>1
<1>9. ProxyTypeOK' /\ Len(unhandled') <= edits' /\ InForce'
  BY <1>1, <1>2, <1>4, <1>7, <1>8, OnwardSound DEF Sound, ProxyTypeOK
<1>10. OwnText'
  <2> SUFFICES ASSUME NEW k \in Loops, Writing(k)'
               PROVE  FromManifest(loop'[k].m) \in since'.texts
    BY DEF OwnText, TextOf, FromManifest, Gameplay
  <2>1. k \in W /\ loop'[k].m = loop[k].m
    BY <1>5 DEF Writing
  <2>2. TextOf(k) \in since'.texts
    BY <1>1, <2>1
  <2> QED  BY <2>1, <2>2 DEF TextOf
<1>11. InPlace' /\ ToTheEnd'
  BY <1>1, <1>8 DEF InPlace, ToTheEnd
<1> QED  BY <1>9, <1>10, <1>11 DEF Sound, FileSound

\* The file is filled.
LEMMA WriteTomlSound ==
    ASSUME Sound, NEW l \in Loops, WriteToml(l) PROVE Sound'
<1>1. Onward(l) /\ ~Writing(l)'
  BY AfterTomlOnward DEF WriteToml
<1>2. ~InLoop(l, "wait") /\ Writing(l)
  BY DEF WriteToml, Writing, InLoop
<1>3. /\ since' = [since EXCEPT !.filled = TRUE]
      /\ UNCHANGED <<servers_yaml, current, unhandled, edits, troubles>>
  BY DEF WriteToml
<1>4. since \in [texts : SUBSET Texts, filled : BOOLEAN]
  BY DEF Sound, ProxyTypeOK
<1>5. /\ since' \in [texts : SUBSET Texts, filled : BOOLEAN]
      /\ since'.texts = since.texts
  BY <1>3, <1>4
<1>6. \A k \in Loops \ {l} : loop'[k] = loop[k]
  BY <1>1, <1>2, <1>3, OnwardTypes
<1>7. NobodyNew
  BY <1>1, <1>6 DEF NobodyNew, Writing
<1>8. PICK text \in Texts : text = TextOf(l)
  BY <1>2, TextTyped
<1>9. PICK n \in 0 .. Length(text) : n = Length(text)
  BY TextLength
<1>10. velocity' = TextWritten(text, n)
  BY <1>8, <1>9 DEF WriteToml
<1>11. text \in since.texts
  BY <1>2, <1>8 DEF Sound, FileSound, OwnText
<1>12. FileSound' /\ velocity' \in Seq(Texts)
  BY <1>5, <1>7, <1>9, <1>10, <1>11, FilePut
<1>13. ProxyTypeOK' /\ Len(unhandled') <= edits' /\ InForce'
  BY <1>1, <1>2, <1>3, <1>5, <1>12, OnwardSound DEF Sound, ProxyTypeOK
<1> QED  BY <1>12, <1>13 DEF Sound

-----------------------------------------------------------------------------
(* The repository, the beginnings of a pass, and a restart.                *)

\* A commit changes what servers.yaml holds, and the events that wait.
LEMMA EditSound ==
    ASSUME Sound, (\E m \in Manifests \cup {NoManifest} : EditManifest(m)) \/ EditOthers
    PROVE  Sound'
<1>1. PICK touched \in BOOLEAN :
        /\ edits < MaxEdits /\ edits' = edits + 1
        /\ unhandled' = Append(unhandled, touched)
        /\ servers_yaml' \in Manifests \cup {NoManifest}
        /\ UNCHANGED <<current, loop, velocity, since, troubles>>
  BY DEF EditManifest, EditOthers, Sound, ProxyTypeOK
<1>2. /\ unhandled' \in Seq(BOOLEAN) /\ Len(unhandled') = Len(unhandled) + 1
      /\ edits' \in 0 .. MaxEdits /\ Len(unhandled') <= edits'
  BY <1>1, ProxyAssumption DEF Sound, ProxyTypeOK
<1>3. Len(unhandled') <= MaxEdits
  BY <1>2, ProxyAssumption
<1>4. ProxyTypeOK'
  BY <1>1, <1>2, <1>3 DEF Sound, ProxyTypeOK, InLoop
<1>5. InForce'
  BY <1>1 DEF Sound, InForce
<1>6. FileSound'
  BY <1>1, FileLeftAlone DEF NobodyNew, Writing
<1> QED  BY <1>2, <1>4, <1>5, <1>6 DEF Sound

\* A goroutine that waits begins a pass with a manifest that is in force.
LEMMA PassBegins ==
    ASSUME Sound, NEW l \in Loops, NEW step \in {"pipelines", "observe"},
           NEW m \in Manifests, Validated(m),
           InLoop(l, "wait"), loop' = [loop EXCEPT ![l] = [at |-> step, m |-> m]],
           current' \in {current, m}, l = Handling => current' = m,
           l # Handling => current' = current,
           unhandled' \in Seq(BOOLEAN), Len(unhandled') <= edits,
           UNCHANGED <<servers_yaml, velocity, since, edits, troubles>>
    PROVE  Sound'
<1>1. loop' \in [Loops -> [at : LoopSteps, m : Manifests \cup {NoManifest}]]
  BY DEF Sound, ProxyTypeOK, LoopSteps
<1>2. loop'[l] = [at |-> step, m |-> m]
  BY DEF Sound, ProxyTypeOK
<1>3. \A k \in Loops \ {l} : loop'[k] = loop[k]
  BY DEF Sound, ProxyTypeOK
<1>4. loop'[Handling].m \in {NoManifest, current'}
  BY <1>2, <1>3 DEF Sound, ProxyTypeOK, Loops
<1>5. \A k \in Loops : (InLoop(k, "wait") <=> loop[k].m = NoManifest)'
  BY <1>2, <1>3, ProxyAssumption DEF Sound, ProxyTypeOK, InLoop
<1>6. Len(unhandled') <= MaxEdits /\ Len(unhandled') <= edits'
  BY ProxyAssumption DEF Sound, ProxyTypeOK
<1>7. ProxyTypeOK'
  BY <1>1, <1>4, <1>5, <1>6 DEF Sound, ProxyTypeOK
<1>8. InForce'
  BY <1>2, <1>3 DEF Sound, InForce
<1>9. NobodyNew
  BY <1>2, <1>3 DEF NobodyNew, Writing
<1> QED  BY <1>6, <1>7, <1>8, <1>9, FileLeftAlone DEF Sound

\* The observe loop takes the manifest in force.
LEMMA ObserveAgainSound == Sound /\ ObserveAgain => Sound'
<1> SUFFICES ASSUME Sound, ObserveAgain PROVE Sound'
  OBVIOUS
<1>1. current \in Manifests /\ Validated(current)
  BY DEF ObserveAgain, Sound, ProxyTypeOK, InForce
<1>2. unhandled' \in Seq(BOOLEAN) /\ Len(unhandled') <= edits
  BY DEF ObserveAgain, Sound, ProxyTypeOK
<1>3. Observing \in Loops /\ Observing # Handling
  BY ProxyAssumption DEF Loops
<1> QED  BY <1>1, <1>2, <1>3, PassBegins DEF ObserveAgain

\* What Load and the manifest in force give is a manifest that passed Validate.
LEMMA LoadValidated ==
    ASSUME Sound
    PROVE  /\ Load \in Manifests \cup {NoManifest}
           /\ Load # NoManifest => Validated(Load)
BY DEF Load, Sound, ProxyTypeOK, Validated

\* The consumer takes an event, and the manifest that it reloaded.
LEMMA HandleEventSound == Sound /\ HandleEvent => Sound'
<1> SUFFICES ASSUME Sound, HandleEvent PROVE Sound'
  OBVIOUS
<1>1. unhandled' = Tail(unhandled) /\ unhandled # <<>> /\ unhandled \in Seq(BOOLEAN)
  BY DEF HandleEvent, Sound, ProxyTypeOK
<1>2. unhandled' \in Seq(BOOLEAN) /\ Len(unhandled') = Len(unhandled) - 1
  BY <1>1
<1>3. Len(unhandled') <= edits /\ Len(unhandled') <= MaxEdits
  BY <1>2, ProxyAssumption DEF Sound, ProxyTypeOK
<1>4. UNCHANGED <<servers_yaml, velocity, since, edits, troubles>>
  BY DEF HandleEvent
<1>5. CASE Reloaded = NoManifest
  <2>1. UNCHANGED <<current, loop>>
    BY <1>5 DEF HandleEvent
  <2>2. ProxyTypeOK'
    BY <1>2, <1>3, <1>4, <2>1 DEF Sound, ProxyTypeOK, InLoop
  <2>3. InForce' /\ FileSound'
    BY <1>4, <2>1, FileLeftAlone DEF Sound, InForce, NobodyNew, Writing
  <2> QED  BY <1>3, <1>4, <2>2, <2>3 DEF Sound
<1>6. CASE Reloaded # NoManifest
  <2>1. Reloaded \in Manifests /\ Validated(Reloaded)
    BY <1>6, LoadValidated DEF Reloaded, Sound, ProxyTypeOK, InForce
  <2>2. /\ current' = Reloaded /\ InLoop(Handling, "wait")
        /\ loop' = [loop EXCEPT ![Handling] = [at |-> "pipelines", m |-> Reloaded]]
    BY <1>6 DEF HandleEvent, Taken
  <2>3. Handling \in Loops
    BY DEF Loops
  <2> QED  BY <1>2, <1>3, <1>4, <2>1, <2>2, <2>3, PassBegins
<1> QED  BY <1>5, <1>6

\* A new daemon's goroutines wait; the file is what the old one left.
LEMMA RestartLoopsSound == Sound /\ RestartLoops => Sound'
<1> SUFFICES ASSUME Sound, RestartLoops PROVE Sound'
  OBVIOUS
<1>1. /\ current' = Load /\ unhandled' = <<>> /\ loop' = [l \in Loops |-> Waiting]
      /\ UNCHANGED <<servers_yaml, since, edits>>
  BY DEF RestartLoops
<1>2. troubles' \in 0 .. MaxTroubles
  BY ProxyAssumption DEF RestartLoops, Sound, ProxyTypeOK
<1>3. unhandled' \in Seq(BOOLEAN) /\ Len(unhandled') <= MaxEdits /\ Len(unhandled') <= edits'
  BY <1>1, ProxyAssumption DEF Sound, ProxyTypeOK
<1>4. loop' \in [Loops -> [at : LoopSteps, m : Manifests \cup {NoManifest}]]
  BY <1>1, WaitingLoop
<1>5. \A k \in Loops : loop'[k].at = "wait" /\ loop'[k].m = NoManifest
  BY <1>1 DEF Waiting
<1>6. NobodyNew
  BY <1>5 DEF NobodyNew, Writing
<1>7. FileSound' /\ velocity' \in Seq(Texts)
  <2>1. CASE UNCHANGED velocity
    BY <1>1, <1>6, <2>1, FileLeftAlone DEF Sound, ProxyTypeOK
  <2>2. CASE \E l \in Loops : Writing(l) /\ velocity' \in CutShort(l)
    BY <1>1, <1>6, <2>2, CutShortPuts
  <2> QED  BY <2>1, <2>2 DEF RestartLoops
<1>8. ProxyTypeOK'
  <2>1. current' \in Manifests \cup {NoManifest}
    BY <1>1, LoadValidated
  <2>2. loop'[Handling].m \in {NoManifest, current'}
    BY <1>5 DEF Loops
  <2>3. \A k \in Loops : (InLoop(k, "wait") <=> loop[k].m = NoManifest)'
    BY <1>5 DEF InLoop
  <2> QED  BY <1>1, <1>2, <1>3, <1>4, <1>7, <2>1, <2>2, <2>3
           DEF Sound, ProxyTypeOK
<1>9. InForce'
  BY <1>1, <1>5, LoadValidated DEF InForce
<1> QED  BY <1>3, <1>7, <1>8, <1>9 DEF Sound

-----------------------------------------------------------------------------
(* The theorems.                                                           *)

\* Every step keeps the invariant.
LEMMA StepSound == Sound /\ [ProxyNext]_proxyVars => Sound'
<1> SUFFICES ASSUME Sound, [ProxyNext]_proxyVars PROVE Sound'
  OBVIOUS
<1>1. CASE (\E m \in Manifests \cup {NoManifest} : EditManifest(m)) \/ EditOthers
  BY <1>1, EditSound
<1>2. CASE \E l \in Loops : OpenToml(l) \/ WriteToml(l) \/ WriteTomlFails(l)
  BY <1>2, OpenTomlSound, WriteTomlSound, WriteTomlFailsSound
<1>3. CASE \E l \in Loops : Observed(l) \/ ObservedBadly(l)
  BY <1>3, ObservedSound, ObservedBadlySound
<1>4. CASE ObserveAgain \/ HandleEvent \/ EndPipelines \/ ObserveOnly
  BY <1>4, ObserveAgainSound, HandleEventSound, EndPipelinesSound, ObserveOnlySound
<1>5. CASE RestartLoops
  BY <1>5, RestartLoopsSound
<1>6. CASE UNCHANGED proxyVars
  <2>1. UNCHANGED <<servers_yaml, current, unhandled, loop>>
        /\ UNCHANGED <<velocity, since, edits, troubles>>
    BY <1>6 DEF proxyVars
  <2>2. ProxyTypeOK' /\ Len(unhandled') <= edits'
    BY <2>1 DEF Sound, ProxyTypeOK, InLoop
  <2>3. InForce' /\ FileSound'
    BY <2>1, FileLeftAlone DEF Sound, InForce, NobodyNew, Writing
  <2> QED  BY <2>2, <2>3 DEF Sound
<1> QED  BY <1>1, <1>2, <1>3, <1>4, <1>5, <1>6 DEF ProxyNext, LoopGoesOn

\* So it holds in every state.
LEMMA AlwaysSound == ProxySpec => []Sound
<1>1. ProxyInit => Sound
  BY InitSound
<1>2. Sound /\ [ProxyNext]_proxyVars => Sound'
  BY StepSound
<1> QED  BY <1>1, <1>2, PTL DEF ProxySpec

\* A manifest that passed Validate reaches every server.
LEMMA ValidatedReaches == Sound => EveryServerReachable
<1> SUFFICES ASSUME Sound, NEW m \in Manifests, Validated(m)
             PROVE  LET text == FromManifest(m) IN
                    /\ Cardinality(text.entries) = Cardinality(Gameplay(m))
                    /\ Gameplay(m) # {} => Cardinality(text.try) = 1
                    /\ text.try \subseteq text.entries
                    /\ \A i, j \in DOMAIN m.servers :
                         i # j /\ m.servers[i].port = m.servers[j].port
                           => m.servers[i].port = 0
  BY DEF EveryServerReachable, Sound, ProxyTypeOK, InForce
<1>1. Distinct(m)
  BY DEF Validated
<1>2. Cardinality(FromManifest(m).entries) = Cardinality(Gameplay(m))
  BY <1>1, OwnEntries
<1>3. Gameplay(m) # {} => Cardinality(FromManifest(m).try) = 1
  BY <1>1, OneToTry
<1>4. FromManifest(m).try \subseteq FromManifest(m).entries
  BY DEF FromManifest
<1>5. ASSUME NEW i \in DOMAIN m.servers, NEW j \in DOMAIN m.servers, i # j,
             m.servers[i].port = m.servers[j].port
      PROVE  m.servers[i].port = 0
  <2>1. PICK n \in Nat : DOMAIN m.servers = 1 .. n
    BY ProxyAssumption
  <2>2. i < j \/ j < i
    BY <1>5, <2>1
  <2> QED  BY <1>1, <1>5, <2>2 DEF Distinct
<1> QED  BY <1>2, <1>3, <1>4, <1>5

\* Whatever is committed, and whichever goroutine writes: the manifests they
\* write from give each gameplay server an entry, one server to begin at, and
\* ports that Docker can publish.
THEOREM EveryServerReachableAlways == ProxySpec => []EveryServerReachable
BY AlwaysSound, ValidatedReaches, PTL

\* However the two goroutines' writes overlap, fail part-way or are cut off by
\* crashes: the file holds only pieces of the texts it was open for since it was
\* truncated, and if that was one text and was written once, exactly that text.
THEOREM FileOfOneManifestAlways == ProxySpec => []FileOfOneManifest
BY AlwaysSound, OneManifest, PTL

\* The types of the variables, and that the consumer, which alone replaces the
\* manifest in force, works with it.
THEOREM ProxyTypeCorrect == ProxySpec => []ProxyTypeOK
<1>1. Sound => ProxyTypeOK
  BY DEF Sound
<1> QED  BY <1>1, AlwaysSound, PTL
=============================================================================
