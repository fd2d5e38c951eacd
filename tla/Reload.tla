------------------------------- MODULE Reload -------------------------------
(***************************************************************************)
(* An instance that reloads its policies and its providers while it runs,  *)
(* each on a channel of its own.  A scene says what may happen.            *)
(***************************************************************************)
EXTENDS PolicyReload, ProviderReload

CONSTANT Scenes

ASSUME ScenesAssumption ==
    \A s \in Scenes : /\ s.running \subseteq Valid /\ s.following \subseteq Nodes
                      /\ s.attached \in [Keys -> Revs \cup {0}] /\ s.touched \subseteq Keys

VARIABLE scene
vars == <<pvars, svars, scene>>

Init == scene \in Scenes /\ PolicyInit(scene) /\ ProviderInit(scene)

PolicyStep == PolicyNext /\ UNCHANGED <<svars, scene>>
ProviderStep == ProviderNext(scene.touched, scene.hashed) /\ UNCHANGED <<pvars, scene>>
Next == PolicyStep \/ ProviderStep

Spec == Init /\ [][Next]_vars /\ PolicyFairness /\ ProviderFairness

TypeOK == PolicyTypeOK /\ ProviderTypeOK

(* Every follower reaches what its source holds. (follow_reloads,          *)
(* follow_provider_reloads)                                                *)
Converges == PolicyConverges /\ ProvidersConverge
=============================================================================
