------------------------------ MODULE Routing ------------------------------
(***************************************************************************)
(* What one subscriber is sent of one transaction.  txBuilder collects the *)
(* changes of a transaction, the router finds the subscribers whose index  *)
(* key a change carries (mergeMatches), and dispatchEvent filters the      *)
(* transaction by the subscriber's grant, applies the multi-root guard and *)
(* the caps, and encodes what is left.  Broadcaster.tla takes the outcome  *)
(* as given; this module computes it.                                      *)
(*                                                                         *)
(* The state is the transaction being built; every prefix is a transaction *)
(* that may commit, so an invariant over Outcome(sub) speaks of every      *)
(* committed transaction.  A row image is the set of columns it carries,   *)
(* names and keys are sequences of tokens (so that the concatenations the  *)
(* indexes are keyed with can collide), and an event is a function from    *)
(* the kept indexes to the filtered changes.                               *)
(***************************************************************************)
EXTENDS Integers, Sequences, FiniteSets, FiniteSetsExt

CONSTANTS
  SubSchema,        \* the schema every subscription is for ("public")
  Rows,             \* rows writers change: schema, table and primary key
  Renames,          \* primary keys an UPDATE may change a key to
  PKCol,            \* the primary key column
  Columns,          \* the other columns
  FloatCol,         \* one of them, which may hold a NaN
  UpdateImages,     \* sets of columns an UPDATE carries (the rest is TOAST)
  Values,           \* "fine", "nan", "undecodable": what a change holds
  SubTables,        \* tables that pass validTableName
  SubPKs,           \* primary keys clients subscribe to
  Grants,           \* whitelists: granted table -> allowed columns
  MaxChangesPerTx,  \* router.Config.MaxChangesPerTx
  MaxPayload,       \* Encoder.maxPayloadBytes, counted in columns
  MaxChanges        \* bound: changes in one transaction

Blank == <<>>       \* the primary key ''

Names == Seq(STRING)

ASSUME RoutingAssumption ==
  /\ Rows \subseteq [schema : Names, table : Names, pk : Names]
  /\ Renames \subseteq Names
  /\ SubPKs \subseteq Names \ {Blank}   \* serveExact refuses ""
  /\ PKCol \notin Columns /\ FloatCol \in Columns
  /\ \A c \in UpdateImages : c \subseteq Columns
  /\ Values \subseteq {"fine", "nan", "undecodable"} /\ "fine" \in Values

VARIABLES
  changes,  \* txBuilder.inFlight.changes
  written,  \* history: what the writer did, decodable or not
  grant     \* the subscriber's Whitelist.Tables

vars == <<changes, written, grant>>

AllColumns == Columns \cup {PKCol}
Subscriptions ==
  [kind : {"exact"}, table : SubTables, pk : SubPKs]
    \cup [kind : {"wildcard"}, table : SubTables, pk : {Blank}]

Init == changes = <<>> /\ written = <<>> /\ grant \in Grants
----------------------------------------------------------------------------
(* wal.txBuilder.                                                          *)

\* mapValue, over the values of a change: it fails for a text it cannot parse
\* (an infinite timestamp), and a float NaN stays one.
mapValue(v) == [err |-> v = "undecodable", nan |-> v = "nan"]

\* Fault: a change that cannot be decoded resets the builder.
RecordOrReset(op, row, newPK, pk, cols, v) ==
  /\ Len(written) < MaxChanges
  /\ v = "nan" => FloatCol \in cols
  /\ written' = Append(written,
       [op |-> op, schema |-> row.schema, table |-> row.table,
        old |-> row.pk, new |-> newPK, cols |-> cols, value |-> v])
  /\ changes' =
       IF mapValue(v).err THEN <<>>
       ELSE Append(changes,
              [op |-> op, schema |-> row.schema, table |-> row.table,
               pk |-> pk, cols |-> cols, nan |-> mapValue(v).nan])
  /\ grant' = grant

\* A change that cannot be decoded is logged and skipped; the transaction goes on.
Record(op, row, newPK, pk, cols, v) ==
  /\ Len(written) < MaxChanges
  /\ v = "nan" => FloatCol \in cols
  /\ written' = Append(written,
       [op |-> op, schema |-> row.schema, table |-> row.table,
        old |-> row.pk, new |-> newPK, cols |-> cols, value |-> v])
  /\ changes' =
       IF mapValue(v).err THEN changes
       ELSE Append(changes,
              [op |-> op, schema |-> row.schema, table |-> row.table,
               pk |-> pk, cols |-> cols, nan |-> mapValue(v).nan])
  /\ grant' = grant

HandleInsert ==
  \E row \in Rows, v \in Values :
    Record("insert", row, row.pk, row.pk, AllColumns, v)

\* Fault: the key of the old image comes first.
HandleUpdateOldKey ==
  \E row \in Rows, cols \in UpdateImages, v \in Values :
    \E new \in Renames \cup {row.pk} :
      Record("update", row, new, row.pk, cols \cup {PKCol}, v)

\* The key of the new image; of the old one when the new one has none and
\* Postgres sent an old one, which it does when the key changes.
HandleUpdate ==
  \E row \in Rows, cols \in UpdateImages, v \in Values :
    \E new \in Renames \cup {row.pk} :
      Record("update", row, new, IF new = Blank THEN row.pk ELSE new,
             cols \cup {PKCol}, v)

\* A delete has a key and no values to map.
HandleDelete ==
  \E row \in Rows : Record("delete", row, row.pk, row.pk, {}, "fine")

HandleCommit ==
  /\ written # <<>>
  /\ changes' = <<>> /\ written' = <<>>
  /\ grant' = grant
----------------------------------------------------------------------------
(* Index keys.                                                             *)

WildcardKey(c) == c.schema \o <<".">> \o c.table
Key(c) == WildcardKey(c) \o <<":">> \o c.pk

subChannelKey(sub) ==
  LET key == SubSchema \o <<".">> \o sub.table
  IN IF sub.kind = "exact" THEN key \o <<":">> \o sub.pk ELSE key

mergeMatches(sub) ==
  \E i \in DOMAIN changes :
    subChannelKey(sub) = IF sub.kind = "exact" THEN Key(changes[i])
                         ELSE WildcardKey(changes[i])
----------------------------------------------------------------------------
(* auth.Whitelist.                                                         *)

\* Fault: a delete names no column, so it needs no grant.
FilterPassesDeletes(c) ==
  \/ c.op # "delete" /\ c.table \notin DOMAIN grant
  \/ c.op = "update" /\ c.cols \cap (grant[c.table] \ {PKCol}) = {}

\* Filter's second result: the change is not for this subscriber.
FilterDrops(c) ==
  \/ c.table \notin DOMAIN grant
  \/ c.op = "update" /\ c.cols \cap (grant[c.table] \ {PKCol}) = {}

\* Filter's first result.
FilterKeeps(c) ==
  [c EXCEPT !.cols = IF c.op = "delete" THEN {}
                     ELSE c.cols \cap (grant[c.table] \cup {PKCol})]
----------------------------------------------------------------------------
(* router.dispatchEvent.                                                   *)

OnTable(sub, c) == c.schema = SubSchema /\ c.table = sub.table

matchesAnchor(sub, c) ==
  OnTable(sub, c) /\ (sub.kind = "exact" => c.pk = sub.pk)

\* Fault: any second change of the anchor table counts as a second root.
SecondChangeIsRoot(sub) ==
  \E i, j \in DOMAIN changes :
    i < j /\ OnTable(sub, changes[i]) /\ OnTable(sub, changes[j])

\* The loop remembers the first anchor key it meets that is not "" and
\* reports a later one that differs from it.
hasMultipleAnchorRoots(sub) ==
  \E i, j \in DOMAIN changes :
    /\ i < j
    /\ OnTable(sub, changes[i]) /\ OnTable(sub, changes[j])
    /\ changes[i].pk # Blank
    /\ \A k \in 1 .. i - 1 : OnTable(sub, changes[k]) => changes[k].pk = Blank
    /\ changes[j].pk # changes[i].pk

Kept ==
  {i \in DOMAIN changes :
     changes[i].schema = SubSchema /\ ~FilterDrops(changes[i])}

filtered == [i \in Kept |-> FilterKeeps(changes[i])]

anchorSurvived(sub) == \E i \in Kept : matchesAnchor(sub, changes[i])

\* Fault: the cap counts the changes of the transaction, not the kept ones.
CapBeforeFilter(rows) == Len(changes) > MaxChangesPerTx

OverCap(rows) == Cardinality(DOMAIN rows) > MaxChangesPerTx

\* Encode: JSON has no NaN, and a payload that cannot be marshalled becomes
\* one without changes.
Encode(rows) ==
  IF \E i \in DOMAIN rows : rows[i].nan /\ FloatCol \in rows[i].cols
    THEN <<>> ELSE rows

Payload(rows) ==
  MapThenSumSet(LAMBDA i : 1 + Cardinality(rows[i].cols), DOMAIN rows)

Silent == [kind |-> "silent", rows |-> <<>>]
TooLarge == [kind |-> "large", rows |-> <<>>]

\* routeTx and dispatchEvent, for a subscriber that is neither too new for
\* the transaction nor dropped.
dispatchEvent(sub) ==
  IF \/ ~mergeMatches(sub)
     \/ sub.kind = "exact" /\ hasMultipleAnchorRoots(sub)
     \/ ~anchorSurvived(sub)
    THEN Silent
    ELSE IF OverCap(filtered) \/ Payload(Encode(filtered)) > MaxPayload
      THEN TooLarge
      ELSE [kind |-> "frame", rows |-> Encode(filtered)]
----------------------------------------------------------------------------
Next == HandleInsert \/ HandleUpdate \/ HandleDelete \/ HandleCommit
Spec == Init /\ [][Next]_vars

\* The subscriptions the handshake admits: the grant includes the table.
Admitted == {sub \in Subscriptions : sub.table \in DOMAIN grant}
Frame(sub) == dispatchEvent(sub).kind = "frame"
----------------------------------------------------------------------------
(* Properties.                                                             *)

Change == [op : {"insert", "update", "delete"}, schema : Names, table : Names,
           pk : Names, cols : SUBSET AllColumns, nan : BOOLEAN]
Write == [op : {"insert", "update", "delete"}, schema : Names, table : Names,
          old : Names, new : Names, cols : SUBSET AllColumns, value : Values]

\* The builder's changes are well formed, there are never more of them than
\* the writer made, and none without its primary key column.
TypeOK ==
  /\ changes \in Seq(Change) /\ written \in Seq(Write)
  /\ Len(changes) <= Len(written)
  /\ \A i \in DOMAIN changes :
       changes[i].op # "delete" => PKCol \in changes[i].cols
  /\ grant \in Grants

\* A write the grant lets its holder see (README, "Frames"): an update counts
\* only if it carries an allowed column besides the primary key.
VisibleWrite(w) ==
  /\ w.schema = SubSchema /\ w.table \in DOMAIN grant
  /\ w.op = "update" => \E c \in w.cols : c \in grant[w.table] /\ c # PKCol

\* The key a write goes by: that of the row it leaves, of the old row when the
\* new key is blank.
KeyOf(w) == IF w.new = Blank THEN w.old ELSE w.new

\* The writes that txBuilder could decode.
Decoded == {i \in DOMAIN written : written[i].value # "undecodable"}

\* A row subscriber is sent a transaction only if every write to the subscribed
\* table in it is a write to the subscribed row (README, "One root row per
\* transaction": otherwise it is not delivered to row subscribers).
OneRootOnly ==
  \A sub \in Admitted : sub.kind = "exact" /\ Frame(sub) =>
    \A i \in DOMAIN written : OnTable(sub, written[i]) => KeyOf(written[i]) = sub.pk

\* The index lookup, the multi-root guard and anchorSurvived together select
\* exactly the transactions in which, of the writes that could be decoded, one
\* changes the subscribed row (or table) visibly and, for a row, none changes
\* another row of its table.  Key collisions, rows that only match before the
\* filter and repeated changes of one row make no difference.  The exception to
\* the README's one root: a write that is skipped because it cannot be decoded is
\* no root either, so the guard lets a transaction through that also writes
\* another row of the table, undecodably.
DeliversItsRoot ==
  \A sub \in Admitted :
    LET roots == {i \in Decoded : OnTable(sub, written[i])}
        own == {i \in roots : sub.kind = "exact" => KeyOf(written[i]) = sub.pk}
    IN dispatchEvent(sub).kind # "silent" <=>
         roots = own /\ \E i \in own : VisibleWrite(written[i])

\* A row whose primary key is changed goes by its new key: whoever is sent the
\* transaction subscribed to a key that some row of its table has after a write
\* the grant shows.  Subscribers of the old key are not told that it is gone.
MovedRowGoesByNewKey ==
  \A sub \in Admitted :
    sub.kind = "exact" /\ dispatchEvent(sub).kind # "silent" =>
      \E i \in DOMAIN written :
        /\ OnTable(sub, written[i]) /\ VisibleWrite(written[i])
        /\ written[i].value # "undecodable"
        /\ \/ written[i].new = sub.pk
           \/ written[i].new = Blank /\ written[i].old = sub.pk

\* Nothing leaves the process that the grant does not name: no other schema,
\* no table that is not granted (deletes included), no column that is neither
\* granted nor the primary key (docs/auth.md, "tables").
GrantConfines ==
  \A sub \in Admitted :
    LET rows == dispatchEvent(sub).rows IN
    \A i \in DOMAIN rows :
      /\ rows[i].schema = SubSchema /\ rows[i].table \in DOMAIN grant
      /\ rows[i].cols \subseteq grant[rows[i].table] \cup {PKCol}

\* The frame has one row for each of the writes at the positions of seen, with
\* the columns the grant allows.
HoldsExactly(sub, seen) ==
  LET rows == dispatchEvent(sub).rows
  IN /\ Cardinality(DOMAIN rows) = Cardinality(seen)
     /\ \A i \in seen : \E j \in DOMAIN rows :
          /\ rows[j].op = written[i].op /\ rows[j].table = written[i].table
          /\ rows[j].cols =
               written[i].cols \cap (grant[written[i].table] \cup {PKCol})

Seen == {i \in DOMAIN written : VisibleWrite(written[i])}

\* README, "Atomic": a frame contains all of the transaction's changes that
\* the subscriber may see, "never part of one".
Atomic == \A sub \in Admitted : Frame(sub) => HoldsExactly(sub, Seen)

\* What of it holds: unless it would show a NaN, a frame has every change that
\* the subscriber may see and that could be decoded.  A change that cannot be
\* decoded is missing, and takes nothing else with it (docs/operations.md,
\* "HandleInsert error; change skipped").
SkipsOnlyUndecodable ==
  \A sub \in Admitted :
    /\ Frame(sub)
    /\ \A i \in Seen : written[i].value = "nan" => FloatCol \notin grant[written[i].table]
    => HoldsExactly(sub, Seen \cap Decoded)

\* A change the subscriber may not see, outside its own table, has no effect
\* on what it is sent: it neither adds a row nor uses up a cap ("Cap is
\* post-filter, not pre-filter", router.go).
InvisibleIsIrrelevant ==
  [][\A sub \in Admitted :
       LET w == written'[Len(written')] IN
       Len(written') > Len(written) /\ ~VisibleWrite(w) /\ ~OnTable(sub, w)
         => dispatchEvent(sub)' = dispatchEvent(sub)]_vars
=============================================================================
