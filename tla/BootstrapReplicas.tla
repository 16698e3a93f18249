-------------------------- MODULE BootstrapReplicas --------------------------
(***************************************************************************)
(* Two replicas of the provider at once.  Leader election is off unless    *)
(* --leader-election is given (cmd/provider/main.go), and a rolling update *)
(* starts the new process before the old one ends: two processes, each     *)
(* with its own caches and workers, reconcile the same Bootstraps against  *)
(* one API server and the same nodes.  Each is a Bootstrap of its own over *)
(* shared api, conn and nodes.                                             *)
(***************************************************************************)
EXTENDS Naturals

CONSTANTS CRs, Nodes, NodeOf, WriteRef, NoSecret, NoDetails, Env, MaxNow

ASSUME ReplicasAssumption ==
    /\ NodeOf \in [CRs -> Nodes]
    /\ WriteRef \subseteq CRs
    /\ NoDetails # NoSecret
    /\ MaxNow \in Nat \ {0}

VARIABLES
    api, conn, etcd, acknowledged, now,              \* shared
    cacheA, connCacheA, pcA, memA, baseA, obsA,      \* the first replica's
    cacheB, connCacheB, pcB, memB, baseB, obsB       \* the second replica's

A == INSTANCE Bootstrap WITH
        cache <- cacheA, connCache <- connCacheA, pc <- pcA,
        mem <- memA, base <- baseA, obs <- obsA

B == INSTANCE Bootstrap WITH
        cache <- cacheB, connCache <- connCacheB, pc <- pcB,
        mem <- memB, base <- baseB, obs <- obsB

varsA == <<cacheA, connCacheA, pcA, memA, baseA, obsA>>
varsB == <<cacheB, connCacheB, pcB, memB, baseB, obsB>>

vars == <<api, conn, etcd, acknowledged, now,
          cacheA, connCacheA, pcA, memA, baseA, obsA,
          cacheB, connCacheB, pcB, memB, baseB, obsB>>

Init == A!Init /\ B!Init

Next ==
    \/ A!Next /\ UNCHANGED varsB
    \/ B!Next /\ UNCHANGED varsA

Spec == Init /\ [][Next]_vars

----------------------------------------------------------------------------
(* Properties *)

\* Every variable has its type.
TypeOK == A!TypeOK /\ B!TypeOK

\* Neither replica makes the call again once either's was answered.
NoSecondBootstrap == A!NoSecondBootstrap /\ B!NoSecondBootstrap

InCreate == {"create", "verifyCreated", "verifyExists", "created", "failed"}

\* The pending annotation, written over the version that was read, keeps the
\* other replica out of Create until the outcome is recorded.
OneCaller == \A c \in CRs : ~(pcA[c] \in InCreate /\ pcB[c] \in InCreate)

\* Together they keep the promise of OneShot, for which it does not matter whose
\* worker takes a step.
KeepsThePromise == A!KeepsThePromise
=============================================================================
