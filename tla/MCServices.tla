---------------------------- MODULE MCServices -----------------------------
(***************************************************************************)
(* The components around the rollover for TLC.  They share no state: the   *)
(* download cache, the dashboard, config syncs and the proxy's file are    *)
(* each driven from outside in every order, so one run takes them one      *)
(* after the other.  subject is the one whose steps are taken; the others  *)
(* rest in an initial state of theirs.                                     *)
(***************************************************************************)
EXTENDS DownloadCache, Dashboard, MCConfigSync, ProxyConfig

VARIABLE subject

vars == <<subject, cacheVars, boardVars, syncVars, proxyVars>>

-----------------------------------------------------------------------------
(* Manifests for ProxyConfig.                                              *)

OneOf(name, kind, port) == [name |-> name, kind |-> kind, port |-> port]
Declares(complete, servers, proxy) ==
    [complete |-> complete, servers |-> servers, proxy |-> proxy]

lobby    == OneOf("lobby", "gameplay", 25565)
survival == OneOf("survival", "gameplay", 25566)
velocityServer == OneOf("velocity", "proxy", 0)

Unproxied == Declares(TRUE, <<survival>>, FALSE)

\* Sound ones of different lengths and with and without a proxy; ones with a
\* name or a port twice, or not complete.
MCManifests ==
    {Declares(TRUE, <<lobby>>, TRUE),
     Declares(TRUE, <<velocityServer, survival, lobby>>, TRUE),
     Unproxied,
     Declares(TRUE, <<lobby, survival, OneOf("lobby", "gameplay", 0)>>, TRUE),
     Declares(TRUE, <<lobby, OneOf("survival", "gameplay", 25565)>>, TRUE),
     Declares(FALSE, <<survival>>, TRUE)}

-----------------------------------------------------------------------------
Subjects == {"cache", "board", "sync", "proxy"}

Init ==
    /\ subject \in Subjects
    /\ CacheInit /\ BoardInit /\ SyncInit /\ ProxyInit
    /\ subject # "sync" => \A p \in Paths : tree[p] = 1
    /\ subject # "proxy" => servers_yaml = Unproxied

CacheStep(A) ==
    subject = "cache" /\ A /\ UNCHANGED <<subject, boardVars, syncVars, proxyVars>>
BoardStep(A) ==
    subject = "board" /\ A /\ UNCHANGED <<subject, cacheVars, syncVars, proxyVars>>
SyncStep(A) ==
    subject = "sync" /\ A /\ UNCHANGED <<subject, cacheVars, boardVars, proxyVars>>
ProxyStep(A) ==
    subject = "proxy" /\ A /\ UNCHANGED <<subject, cacheVars, boardVars, syncVars>>

Next ==
    \/ CacheStep(CacheNext) \/ BoardStep(BoardNext)
    \/ SyncStep(SyncNext) \/ ProxyStep(ProxyNext)

\* BoardFairness and ProxyFairness, for the one whose turn it is.
Fairness ==
    /\ \A d \in Deploys : WF_vars(BoardStep(DeployGoesOn(d)))
    /\ WF_vars(BoardStep(BridgeGoesOn))
    /\ \A b \in Browsers :
         WF_vars(BoardStep(Locking(b))) /\ WF_vars(BoardStep(PageGoesOn(b)))
    /\ \A l \in Loops : WF_vars(ProxyStep(LoopGoesOn(l)))

Spec == Init /\ [][Next]_vars /\ Fairness
=============================================================================
