----------------------------- MODULE MCRouting -----------------------------
(***************************************************************************)
(* Networks of three servers for FederationRouting.  The kinds are listed  *)
(* up to renaming; parents and coverage entries are all there are, but for *)
(* a node that names itself and one that has the location without being    *)
(* the first GIS node.                                                     *)
(***************************************************************************)
EXTENDS FederationRouting, TLC

CONSTANTS a, b, c, u1, u2, u3

MCNodes == {a, b, c}
MCUris == {u1, u2, u3}

Kinds ==
  { (a :> "gis") @@ (b :> k2) @@ (c :> k3) :
      <<k2, k3>> \in {<<"gis", "routing">>, <<"gis", "guide">>,
                      <<"routing", "routing">>, <<"routing", "guide">>} }
AllRouting == (a :> "routing") @@ (b :> "routing") @@ (c :> "routing")

Unlike == (a :> u1) @@ (b :> u2) @@ (c :> u3)
Shared == (a :> u1) @@ (b :> u2) @@ (c :> u2)   \* two nodes left the default

Parents(kind) == {p \in [Nodes -> Nodes \cup {None}] : \A n \in Nodes : p[n] # n}
Matches(kind, few) ==
  {m \in [Nodes -> Nodes \cup {None, NoServer}] :
     \A n \in Nodes : m[n] # n /\ (kind[n] \in few => m[n] = None)}

Networks(kinds, uris, names, few) ==
  UNION {[kind : {k}, parent : Parents(k), dns : names, uri : uris,
          covers : {{}, {a}} \cap SUBSET {n \in Nodes : k[n] = "gis"},
          match : Matches(k, few)] : k \in kinds}

\* GIS nodes never look at their coverage store.
MCSetups == Networks(Kinds \cup {AllRouting}, {Unlike}, {{}}, {"gis"})
            \cup Networks({(a :> "gis") @@ (b :> "routing") @@ (c :> "routing")},
                          {Shared}, {Nodes}, {"gis"})

Asked == [op |-> "findService", recursive |-> TRUE, form |-> "ok",
          service |-> "sos", civic |-> TRUE]
Listed == [Asked EXCEPT !.op = "listServicesByLocation"]

MCQueries ==
  {Asked, [Asked EXCEPT !.recursive = FALSE], Listed, [Listed EXCEPT !.recursive = FALSE],
   [Listed EXCEPT !.civic = FALSE], [Asked EXCEPT !.service = "other"]}
=============================================================================
