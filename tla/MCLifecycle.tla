----------------------------- MODULE MCLifecycle ------------------------------
(* The components that start, replace and stop things, one at a time: the     *)
(* first choice is which component runs, the others stay as they began.       *)
EXTENDS L3Manager, ClientHandover, ResourceRefresh, SessionFile, ProxyServer, BrowserLogin

VARIABLE running

CONSTANTS c1, c2, v1, e1, r1, r2, m1, w1, w2, p1, p2, p3

MCCallers == {c1, c2}
MCVips == {v1}
MCOneEndpoint == {<<e1>>}
MCReplacers == {r1, r2}
MCManuals == {m1}
MCSavers == {w1, w2}
MCClients == {p1, p2, p3}

MCInit ==
    /\ running \in {"manager", "handover", "refresh", "file", "proxy", "login"}
    /\ Init /\ HandoverInit /\ RefreshInit /\ FileInit /\ ProxyInit
    /\ BrowserInit

RunManager ==
    /\ running = "manager" /\ Next
    /\ UNCHANGED <<running, handoverVars, refreshVars, fileVars, proxyVars, browserVars>>

RunHandover ==
    /\ running = "handover" /\ HandoverNext
    /\ UNCHANGED <<running, vars, refreshVars, fileVars, proxyVars, browserVars>>

RunRefresh ==
    /\ running = "refresh" /\ RefreshNext
    /\ UNCHANGED <<running, vars, handoverVars, fileVars, proxyVars, browserVars>>

RunFile ==
    /\ running = "file" /\ FileNext
    /\ UNCHANGED <<running, vars, handoverVars, refreshVars, proxyVars, browserVars>>

RunProxy ==
    /\ running = "proxy" /\ ProxyNext
    /\ UNCHANGED <<running, vars, handoverVars, refreshVars, fileVars, browserVars>>

RunLogin ==
    /\ running = "login" /\ BrowserNext
    /\ UNCHANGED <<running, vars, handoverVars, refreshVars, fileVars, proxyVars>>

MCNext == RunManager \/ RunHandover \/ RunRefresh \/ RunFile \/ RunProxy \/ RunLogin

allVars == <<running, vars, handoverVars, refreshVars, fileVars, proxyVars, browserVars>>

(* A component that does not run has not begun, and none of its fair actions  *)
(* is enabled.                                                                *)
MCSpec == MCInit /\ [][MCNext]_allVars /\ Fairness /\ RefreshFairness /\ FileFairness
          /\ ProxyFairness /\ BrowserFairness

(* The state of the component that runs is well typed. *)
TypesOK ==
    CASE running = "manager" -> TypeOK
      [] running = "handover" -> HandoverTypeOK
      [] running = "refresh" -> RefreshTypeOK
      [] running = "file" -> FileTypeOK
      [] running = "proxy" -> ProxyTypeOK
      [] running = "login" -> BrowserTypeOK

(* The latest state is used in the end: the resource table of the gateway by   *)
(* the cache, the session file by the server.                                  *)
LatestIsUsed == TableConverges /\ LatestFileTried
=============================================================================
