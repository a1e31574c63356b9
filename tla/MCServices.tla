----------------------------- MODULE MCServices -----------------------------
(* Parts of the router that share no state, checked one at a time: scene is *)
(* chosen at the start and the others keep their initial state.             *)
EXTENDS MCApiCalls, MCModelDocuments, PortalSessions, QuarantineRelease, UpstreamFigures, UpstreamModelCatalog

CONSTANTS e1, e2, r1, r2, r3, a1, a2, a3, p1, p2, k1, k2, credit, think

VARIABLE scene

MCDelays == <<1, 1>>

Scenes == {"calls", "endpoints", "sessions", "handoffs", "release", "figures", "catalog", "documents"}

AnyOrder == Symmetry \cup Permutations(Editors)

allVars == <<scene, apiVars, sessionVars, releaseVars, figureVars, catalogVars, documentVars>>

ServicesInit ==
    /\ scene \in Scenes
    /\ ApiInit /\ SessionsInit /\ ReleaseInit /\ FiguresInit /\ CatalogInit
    /\ DocumentsInit
    /\ CASE scene = "endpoints" -> TRUE
         [] scene = "calls"     -> choice # "picked" /\ Drawn \notin {doc[k] : k \in Keys}
         [] OTHER -> key[kc] = "live" /\ doc = [k \in Keys |-> Heard] /\ choice = "picked" /\ ~logging
    /\ scene # "sessions" => ~user.configured
    /\ scene # "documents" => template = Missing /\ sitting = [s \in Sittings |-> Missing]

ServicesNext ==
    \/ /\ scene = "calls" /\ ApiNext /\ TwoMixed
       /\ UNCHANGED <<scene, sessionVars, releaseVars, figureVars, catalogVars, documentVars>>
    \/ /\ scene = "endpoints" /\ ApiNext /\ OneOfAll
       /\ UNCHANGED <<scene, sessionVars, releaseVars, figureVars, catalogVars, documentVars>>
    \/ /\ scene = "sessions" /\ SessionsNext /\ handoff' = handoff
       /\ UNCHANGED <<scene, apiVars, releaseVars, figureVars, catalogVars, documentVars>>
    \/ /\ scene = "handoffs" /\ SessionsNext /\ row' = row
       /\ UNCHANGED <<scene, apiVars, releaseVars, figureVars, catalogVars, documentVars>>
    \/ /\ scene = "release" /\ ReleaseNext
       /\ UNCHANGED <<scene, apiVars, sessionVars, figureVars, catalogVars, documentVars>>
    \/ /\ scene = "figures" /\ FiguresNext
       /\ UNCHANGED <<scene, apiVars, sessionVars, releaseVars, catalogVars, documentVars>>
    \/ /\ scene = "catalog" /\ CatalogNext
       /\ UNCHANGED <<scene, apiVars, sessionVars, releaseVars, figureVars, documentVars>>
    \/ /\ scene = "documents" /\ DocumentsNext
       /\ UNCHANGED <<scene, apiVars, sessionVars, releaseVars, figureVars, catalogVars>>

ServicesSpec == ServicesInit /\ [][ServicesNext]_allVars

\* The type invariants of the parts.
ServicesTypeOK ==
    ApiTypeOK /\ SessionsTypeOK /\ ReleaseTypeOK
    /\ FiguresTypeOK /\ CatalogTypeOK /\ DocumentsTypeOK
=============================================================================
