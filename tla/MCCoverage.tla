----------------------------- MODULE MCCoverage -----------------------------
(***************************************************************************)
(* Small instances of CoverageStore.  Sources: a child and the root        *)
(* itself; source ids: one civic, one geodetic; stamp 3 has no UTC offset. *)
(***************************************************************************)
EXTENDS CoverageStore

E(s, id, t) == [source |-> s, source_id |-> id, last_updated |-> t]
Up(s, id, t) == [kind |-> "upsert", entry |-> E(s, id, t)]
Del(s, id) == [kind |-> "delete", entry |-> E(s, id, 0)]

\* On a plain node: two versions of one entry, the newer one with a second
\* entry in the same push, a deletion, and a version without a UTC offset.
PlainRequests ==
  {<<Up("child", "civic", 1)>>,
   <<Up("child", "civic", 2), Up("child", "geo", 0)>>,
   <<Up("child", "civic", 3)>>}
PlainAndDelete == PlainRequests \cup {<<Del("child", "geo")>>}

\* On a root AMS: a child's entry, and attempts to delete or to outdate the
\* provisioned one.
RootRequests ==
  {<<Up("child", "geo", 1)>>,
   <<Del("root", "civic"), Up("root", "geo", 2)>>}
RootFile == {<<E("root", "civic", 1)>>}
NoFiles == {<<>>}
=============================================================================
