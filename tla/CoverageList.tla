---------------------------- MODULE CoverageList ----------------------------
(***************************************************************************)
(* The child coverage list of the LoST-Sync store (federation/coverage.py) *)
(* and the three edits the code makes to it.  A coverage entry is reduced  *)
(* to what the store itself looks at: its key (source, source_id) and its  *)
(* last_updated stamp.  Stamp 0 is an empty or unparseable lastUpdated     *)
(* (_parse_iso_timestamp returns None, which sorts before every date).     *)
(* Zoneless holds the stamps written without a UTC offset: Python refuses  *)
(* to order such a datetime against one that has an offset (TypeError).    *)
(***************************************************************************)
EXTENDS Naturals, SequencesExt

CONSTANTS
  Sources,     \* values of the mapping's "source" attribute
  SourceIds,   \* values of its "sourceId" attribute
  Stamps,      \* values of its "lastUpdated" attribute, in time order
  Zoneless     \* the stamps that carry no UTC offset

ASSUME StampsAssumption == Stamps \subseteq Nat /\ Zoneless \subseteq Stamps

Entry == [source : Sources, source_id : SourceIds, last_updated : Stamps]

\* "upsert" and "delete" come from pushMappings and pulls; "assert" puts an
\* operator-authored AMS provisioning entry back in place.
SyncOperation == [kind : {"upsert", "delete"}, entry : Entry]
Operation == [kind : {"upsert", "delete", "assert"}, entry : Entry]

Lists == Seq(Entry)
Programs == Seq(Operation)

SameKey(e, f) == e.source = f.source /\ e.source_id = f.source_id

\* No two entries of the list have one key.
UniqueKeys(list) == \A i, j \in DOMAIN list : SameKey(list[i], list[j]) => i = j

\* Position of the first entry with e's key, 0 when there is none.
KeyIndex(list, e) == SelectInSeq(list, LAMBDA x : SameKey(x, e))

\* Position of the first entry with e's source_id, whatever its source.
SourceIdIndex(list, e) ==
  SelectInSeq(list, LAMBDA x : x.source_id = e.source_id)

Orderable(a, b) == a = 0 \/ b = 0 \/ (a \in Zoneless <=> b \in Zoneless)

\* Fault: the stored entry is replaced whatever its stamp.
Upsert_AnyStamp(list, e) ==
  LET i == KeyIndex(list, e) IN
  IF i = 0 THEN Append(list, e) ELSE ReplaceAt(list, i, e)

\* Fault: an entry that is not newer is kept beside the stored one.
Upsert_KeepBoth(list, e) ==
  LET i == KeyIndex(list, e) IN
  IF i # 0 /\ e.last_updated > list[i].last_updated THEN ReplaceAt(list, i, e)
  ELSE Append(list, e)

Upsert(list, e) ==
  LET i == KeyIndex(list, e) IN
  IF i = 0 THEN Append(list, e)
  ELSE IF e.last_updated > list[i].last_updated THEN ReplaceAt(list, i, e)
  ELSE list

Delete(list, e) ==
  LET i == KeyIndex(list, e) IN IF i = 0 THEN list ELSE RemoveAt(list, i)

Supersede(list, e) ==
  LET i == SourceIdIndex(list, e) IN
  IF i = 0 THEN Append(list, e) ELSE ReplaceAt(list, i, e)

\* Comparing a stored stamp with a new one of the other kind raises.
Raises(list, op) ==
  LET i == KeyIndex(list, op.entry) IN
  /\ op.kind = "upsert"
  /\ i # 0
  /\ ~Orderable(op.entry.last_updated, list[i].last_updated)

ApplyOp(list, op) ==
  CASE op.kind = "upsert" -> Upsert(list, op.entry)
    [] op.kind = "delete" -> Delete(list, op.entry)
    [] op.kind = "assert" -> Supersede(list, op.entry)

\* The edits that put a provisioning file's entries back, in file order.
Asserts(file) == [i \in DOMAIN file |-> [kind |-> "assert", entry |-> file[i]]]

=============================================================================
