----------------------------- MODULE MCSyncTree -----------------------------
(***************************************************************************)
(* A small tree for SyncTree: an LVF under a root AMS under a Forest       *)
(* Guide.                                                                  *)
(***************************************************************************)
EXTENDS SyncTree, TLC

CONSTANTS leaf, mid, top

MCUpstream == (leaf :> mid) @@ (mid :> top) @@ (top :> Nobody)

\* leaf -> root AMS -> Forest Guide, which here learns from pushes alone.
ForestRole == (leaf :> "lvf") @@ (mid :> "ams") @@ (top :> "fg")
ForestKids == (leaf :> {}) @@ (mid :> {leaf}) @@ (top :> {})
=============================================================================
