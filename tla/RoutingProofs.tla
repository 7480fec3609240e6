--------------------------- MODULE RoutingProofs ---------------------------
(***************************************************************************)
(* Proofs about Routing: what leaves the process, who is sent a            *)
(* transaction, what its frame holds, and what makes no difference to it,  *)
(* for every set of rows, grants, caps and transactions.  Who is sent one  *)
(* needs primary keys that are not "", because the multi-root guard uses   *)
(* "" for "none yet".                                                      *)
(***************************************************************************)
EXTENDS Routing, TLAPS, WellFoundedInduction, NaturalsInduction,
        FiniteSetTheorems

\* No row of the database has the key "".
NoBlankKeys == (\A r \in Rows : r.pk # Blank) /\ Blank \notin Renames

\* None of the changes collected so far has it either.
KeysNotBlank == \A i \in DOMAIN changes : changes[i].pk # Blank

----------------------------------------------------------------------------
(* Type correctness.                                                       *)

\* Record keeps the types when it is given a well-formed change.
LEMMA RecordKeepsTypes ==
  ASSUME TypeOK, NEW op \in {"insert", "update", "delete"}, NEW row \in Rows,
         NEW new \in Names, NEW pk \in Names, NEW cols \in SUBSET AllColumns,
         op # "delete" => PKCol \in cols, NEW v \in Values,
         Record(op, row, new, pk, cols, v)
  PROVE  TypeOK'
<1>1. row \in [schema : Names, table : Names, pk : Names]
  BY RoutingAssumption
<1>2. PICK w \in Write : written' = Append(written, w)
  BY <1>1 DEF Record, mapValue, Write
<1>3. \/ changes' = changes
      \/ \E c \in Change : /\ changes' = Append(changes, c)
                           /\ c.op # "delete" => PKCol \in c.cols
  <2>1. PICK n \in BOOLEAN : n = (v = "nan")
    OBVIOUS
  <2>2. PICK c : c = [op |-> op, schema |-> row.schema, table |-> row.table,
                      pk |-> pk, cols |-> cols, nan |-> n]
    OBVIOUS
  <2>3. c \in Change /\ (c.op # "delete" => PKCol \in c.cols)
    BY <1>1, <2>2 DEF Change
  <2>4. changes' = changes \/ changes' = Append(changes, c)
    BY <2>1, <2>2 DEF Record, mapValue
  <2>5. QED BY <2>3, <2>4
<1>4. CASE changes' = changes
  BY <1>2, <1>4 DEF TypeOK, Record, mapValue
<1>5. ASSUME NEW c \in Change, changes' = Append(changes, c),
             c.op # "delete" => PKCol \in c.cols
      PROVE  TypeOK'
  BY <1>2, <1>5 DEF TypeOK, Record, mapValue
<1>6. QED BY <1>3, <1>4, <1>5

\* The changes txBuilder collects are well formed whatever the writer does.
THEOREM TypeCorrect == Spec => []TypeOK
<1>1. Init => TypeOK
  BY DEF Init, TypeOK
<1>2. TypeOK /\ [Next]_vars => TypeOK'
  <2>1. ASSUME TypeOK, HandleInsert PROVE TypeOK'
    <3>1. PICK row \in Rows, v \in Values :
            Record("insert", row, row.pk, row.pk, AllColumns, v)
      BY <2>1 DEF HandleInsert
    <3>2. row.pk \in Names /\ PKCol \in AllColumns
      BY RoutingAssumption DEF AllColumns
    <3>3. QED BY <2>1, <3>1, <3>2, RecordKeepsTypes
  <2>2. ASSUME TypeOK, HandleUpdate PROVE TypeOK'
    <3>0. PICK row \in Rows, c \in UpdateImages, v \in Values :
            \E new \in Renames \cup {row.pk} :
              Record("update", row, new, IF new = Blank THEN row.pk ELSE new,
                     c \cup {PKCol}, v)
      BY <2>2 DEF HandleUpdate
    <3>1. PICK new \in Renames \cup {row.pk} :
            Record("update", row, new, IF new = Blank THEN row.pk ELSE new,
                   c \cup {PKCol}, v)
      BY <3>0
    <3>2. new \in Names /\ (IF new = Blank THEN row.pk ELSE new) \in Names
      BY RoutingAssumption
    <3>3. c \cup {PKCol} \in SUBSET AllColumns
      BY RoutingAssumption DEF AllColumns
    <3>4. QED BY <2>2, <3>1, <3>2, <3>3, RecordKeepsTypes
  <2>3. ASSUME TypeOK, HandleDelete PROVE TypeOK'
    <3>1. PICK row \in Rows : Record("delete", row, row.pk, row.pk, {}, "fine")
      BY <2>3 DEF HandleDelete
    <3>2. row.pk \in Names /\ "fine" \in Values
      BY RoutingAssumption
    <3>3. QED BY <2>3, <3>1, <3>2, RecordKeepsTypes
  <2>4. ASSUME TypeOK, HandleCommit PROVE TypeOK'
    BY <2>4 DEF TypeOK, HandleCommit
  <2>5. ASSUME TypeOK, UNCHANGED vars PROVE TypeOK'
    BY <2>5 DEF TypeOK, vars
  <2>6. QED BY <2>1, <2>2, <2>3, <2>4, <2>5 DEF Next
<1>3. QED BY <1>1, <1>2, PTL DEF Spec
----------------------------------------------------------------------------
(* What leaves the process.                                                *)

\* The second result of Filter is the reader's view of what a grant shows.
LEMMA FilterShowsVisible ==
  ASSUME NEW c
  PROVE  c.schema = SubSchema /\ ~FilterDrops(c) <=> VisibleWrite(c)
BY DEF FilterDrops, VisibleWrite

\* Every row of every event is a kept change, cut down to the grant.
LEMMA RowsAreFiltered ==
  ASSUME NEW sub, NEW i \in DOMAIN dispatchEvent(sub).rows
  PROVE  i \in Kept /\ dispatchEvent(sub).rows[i] = FilterKeeps(changes[i])
<1>1. DOMAIN <<>> = {}
  OBVIOUS
<1>2. dispatchEvent(sub).rows = <<>> \/ dispatchEvent(sub).rows = filtered
  BY DEF dispatchEvent, Silent, TooLarge, Encode
<1>3. dispatchEvent(sub).rows = filtered
  BY <1>1, <1>2
<1>4. QED BY <1>3 DEF filtered

\* Nothing is sent that the grant does not name, for every grant.
THEOREM NothingBeyondTheGrant == Spec => []GrantConfines
<1>1. TypeOK => GrantConfines
  <2>1. SUFFICES ASSUME TypeOK, NEW sub \in Admitted,
                        NEW i \in DOMAIN dispatchEvent(sub).rows
                 PROVE  LET r == dispatchEvent(sub).rows[i] IN
                        /\ r.schema = SubSchema /\ r.table \in DOMAIN grant
                        /\ r.cols \subseteq grant[r.table] \cup {PKCol}
    BY DEF GrantConfines
  <2>2. /\ i \in Kept
        /\ dispatchEvent(sub).rows[i] = FilterKeeps(changes[i])
    BY RowsAreFiltered
  <2>3. changes[i] \in Change
    BY <2>1, <2>2 DEF TypeOK, Kept
  <2>4. changes[i].schema = SubSchema /\ changes[i].table \in DOMAIN grant
    BY <2>2 DEF Kept, FilterDrops
  <2>5. PICK c : c = changes[i]
    OBVIOUS
  <2>6. /\ FilterKeeps(c).schema = c.schema
        /\ FilterKeeps(c).table = c.table
        /\ FilterKeeps(c).cols \subseteq grant[c.table] \cup {PKCol}
    BY <2>3, <2>5 DEF FilterKeeps, Change
  <2>7. QED BY <2>2, <2>4, <2>5, <2>6
<1>2. QED BY <1>1, TypeCorrect, PTL
----------------------------------------------------------------------------
(* Who is sent a transaction.                                              *)

\* Keys stay non-blank: an UPDATE that renames a row gives it a key of Renames.
LEMMA NoBlankChanges ==
  ASSUME NoBlankKeys
  PROVE  Spec => []KeysNotBlank
<1>1. Init => KeysNotBlank
  BY DEF Init, KeysNotBlank
<1>2. TypeOK /\ KeysNotBlank /\ [Next]_vars => KeysNotBlank'
  <2>1. ASSUME TypeOK, KeysNotBlank,
               NEW op, NEW row \in Rows, NEW new, NEW pk, NEW cols, NEW v,
               Record(op, row, new, pk, cols, v), pk # Blank
        PROVE  KeysNotBlank'
    <3>1. PICK c : c = [op |-> op, schema |-> row.schema, table |-> row.table,
                        pk |-> pk, cols |-> cols, nan |-> v = "nan"]
      OBVIOUS
    <3>2. changes' = changes \/ changes' = Append(changes, c)
      BY <2>1, <3>1 DEF Record, mapValue
    <3>3. c.pk # Blank
      BY <2>1, <3>1
    <3>4. QED BY <2>1, <3>2, <3>3 DEF KeysNotBlank, TypeOK
  <2>2. ASSUME TypeOK, KeysNotBlank, HandleInsert PROVE KeysNotBlank'
    BY <2>1, <2>2 DEF HandleInsert, NoBlankKeys
  <2>3. ASSUME TypeOK, KeysNotBlank, HandleUpdate PROVE KeysNotBlank'
    BY <2>1, <2>3 DEF HandleUpdate, NoBlankKeys
  <2>4. ASSUME TypeOK, KeysNotBlank, HandleDelete PROVE KeysNotBlank'
    BY <2>1, <2>4 DEF HandleDelete, NoBlankKeys
  <2>5. ASSUME KeysNotBlank, HandleCommit PROVE KeysNotBlank'
    BY <2>5 DEF KeysNotBlank, HandleCommit
  <2>6. ASSUME KeysNotBlank, UNCHANGED vars PROVE KeysNotBlank'
    BY <2>6 DEF KeysNotBlank, vars
  <2>7. QED BY <2>2, <2>3, <2>4, <2>5, <2>6 DEF Next
<1>3. QED BY <1>1, <1>2, TypeCorrect, PTL DEF Spec

\* Every nonempty set of positions has a first one.
LEMMA FirstPosition ==
  ASSUME NEW S \in SUBSET Nat, S # {}
  PROVE  \E m \in S : \A k \in S : m <= k
<1>1. PICK m \in S : \A k \in S : <<k, m>> \notin OpToRel(<, Nat)
  BY WFMin, NatLessThanWellFounded, Zenon
<1>2. \A k \in S : ~(k < m)
  BY <1>1, Zenon DEF OpToRel
<1>3. QED BY <1>2

\* The loop of hasMultipleAnchorRoots finds two roots exactly when there are
\* two, once no key is "".
LEMMA GuardFindsSecondRoot ==
  ASSUME TypeOK, KeysNotBlank, NEW sub,
         NEW a \in DOMAIN changes, NEW b \in DOMAIN changes,
         OnTable(sub, changes[a]), OnTable(sub, changes[b]),
         changes[a].pk # changes[b].pk
  PROVE  hasMultipleAnchorRoots(sub)
<1>1. DOMAIN changes = 1 .. Len(changes) /\ Len(changes) \in Nat
  BY DEF TypeOK
<1>2. PICK S : S = {i \in DOMAIN changes : OnTable(sub, changes[i])}
  OBVIOUS
<1>3. PICK m \in S : \A k \in S : m <= k
  <2>1. S \in SUBSET Nat /\ S # {}
    BY <1>1, <1>2
  <2>2. QED BY <2>1, FirstPosition
<1>4. m \in DOMAIN changes /\ OnTable(sub, changes[m]) /\ changes[m].pk # Blank
  BY <1>2, <1>3 DEF KeysNotBlank
<1>5. \A k \in 1 .. m - 1 : ~OnTable(sub, changes[k])
  BY <1>1, <1>2, <1>3
<1>6. PICK j \in {a, b} : changes[j].pk # changes[m].pk
  OBVIOUS
<1>7. m < j
  BY <1>1, <1>2, <1>3, <1>6
<1>8. QED BY <1>4, <1>5, <1>6, <1>7 DEF hasMultipleAnchorRoots

\* The subscriber of a change is found through its index key.
LEMMA AnchorIsIndexed ==
  ASSUME NEW sub \in Subscriptions, NEW i \in DOMAIN changes,
         matchesAnchor(sub, changes[i])
  PROVE  mergeMatches(sub)
<1>1. PICK c : c = changes[i]
  OBVIOUS
<1>2. c.schema = SubSchema /\ c.table = sub.table
      /\ (sub.kind = "exact" => c.pk = sub.pk)
  BY <1>1 DEF matchesAnchor, OnTable
<1>3. CASE sub.kind = "exact"
  BY <1>1, <1>2, <1>3 DEF mergeMatches, subChannelKey, Key, WildcardKey
<1>4. CASE sub.kind # "exact"
  BY <1>1, <1>2, <1>4 DEF mergeMatches, subChannelKey, WildcardKey
<1>5. QED BY <1>3, <1>4

\* Without "" as a key, the router picks exactly the transactions with a change
\* of the subscribed row (or table) and, for a row, of no other row of its table.
LEMMA ChangesAreRouted ==
  ASSUME TypeOK, KeysNotBlank, NEW sub \in Admitted
  PROVE  dispatchEvent(sub).kind # "silent" <=>
           /\ \E i \in DOMAIN changes :
                matchesAnchor(sub, changes[i]) /\ VisibleWrite(changes[i])
           /\ sub.kind = "exact" =>
                \A i \in DOMAIN changes :
                  OnTable(sub, changes[i]) => changes[i].pk = sub.pk
<1>2. sub \in Subscriptions
  BY DEF Admitted
<1>3. dispatchEvent(sub).kind # "silent" <=>
        /\ mergeMatches(sub)
        /\ ~(sub.kind = "exact" /\ hasMultipleAnchorRoots(sub))
        /\ anchorSurvived(sub)
  BY DEF dispatchEvent, Silent, TooLarge
<1>4. anchorSurvived(sub) <=>
        \E i \in DOMAIN changes :
          matchesAnchor(sub, changes[i]) /\ VisibleWrite(changes[i])
  BY FilterShowsVisible DEF anchorSurvived, Kept
<1>5. anchorSurvived(sub) => mergeMatches(sub)
  BY <1>2, AnchorIsIndexed DEF anchorSurvived, Kept
<1>6. ASSUME sub.kind = "exact", anchorSurvived(sub)
      PROVE  ~hasMultipleAnchorRoots(sub) <=>
               \A i \in DOMAIN changes :
                 OnTable(sub, changes[i]) => changes[i].pk = sub.pk
  <2>1. PICK a \in DOMAIN changes :
          OnTable(sub, changes[a]) /\ changes[a].pk = sub.pk
    BY <1>4, <1>6 DEF matchesAnchor
  <2>2. ASSUME NEW i \in DOMAIN changes, OnTable(sub, changes[i]),
               changes[i].pk # sub.pk
        PROVE  hasMultipleAnchorRoots(sub)
    BY <2>1, <2>2, GuardFindsSecondRoot
  <2>3. ASSUME hasMultipleAnchorRoots(sub)
        PROVE  \E i \in DOMAIN changes :
                 OnTable(sub, changes[i]) /\ changes[i].pk # sub.pk
    <3>1. PICK i \in DOMAIN changes, j \in DOMAIN changes :
            /\ OnTable(sub, changes[i]) /\ OnTable(sub, changes[j])
            /\ changes[j].pk # changes[i].pk
      BY <2>3 DEF hasMultipleAnchorRoots
    <3>2. QED BY <3>1
  <2>4. QED BY <2>2, <2>3
<1>7. QED BY <1>3, <1>4, <1>5, <1>6
----------------------------------------------------------------------------
(* Where the changes come from.  The transaction handed to the router is   *)
(* the sequence of the writes that could be decoded: this relates the      *)
(* events to what the writer did.                                          *)

\* Change c is what txBuilder makes of write w.
Records(c, w) ==
  /\ c.op = w.op /\ c.schema = w.schema /\ c.table = w.table
  /\ c.pk = KeyOf(w) /\ c.cols = w.cols /\ c.nan = (w.value = "nan")

\* The changes are the decodable writes, each of them once.
SourceInv ==
  /\ \E f \in Bijection(DOMAIN changes, Decoded) :
       \A j \in DOMAIN changes : Records(changes[j], written[f[j]])
  /\ \A i \in DOMAIN written : written[i].op = "delete" => written[i].cols = {}

\* One write w, with what txBuilder makes of it.
Recorded(w) ==
  /\ written' = Append(written, w)
  /\ w.op = "delete" => w.cols = {}
  /\ \/ w.value = "undecodable" /\ changes' = changes
     \/ /\ w.value # "undecodable"
        /\ \E c \in Change : Records(c, w) /\ changes' = Append(changes, c)
  /\ grant' = grant

\* Record is such a step when it is given the key it should be given.
LEMMA RecordRecords ==
  ASSUME TypeOK, NEW op \in {"insert", "update", "delete"}, NEW row \in Rows,
         NEW new \in Names, NEW pk \in Names, NEW cols \in SUBSET AllColumns,
         op = "delete" => cols = {}, NEW v \in Values,
         pk = IF new = Blank THEN row.pk ELSE new,
         Record(op, row, new, pk, cols, v)
  PROVE  \E w \in Write : Recorded(w)
<1>1. row \in [schema : Names, table : Names, pk : Names]
  BY RoutingAssumption
<1>2. PICK w : w = [op |-> op, schema |-> row.schema, table |-> row.table,
                    old |-> row.pk, new |-> new, cols |-> cols, value |-> v]
  OBVIOUS
<1>3. w \in Write
  BY <1>1, <1>2 DEF Write
<1>4. written' = Append(written, w) /\ grant' = grant
  BY <1>2 DEF Record
<1>5. w.op = "delete" => w.cols = {}
  BY <1>2
<1>6. CASE v = "undecodable"
  <2>1. w.value = "undecodable" /\ changes' = changes
    BY <1>2, <1>6 DEF Record, mapValue
  <2>2. QED BY <1>3, <1>4, <1>5, <2>1 DEF Recorded
<1>7. CASE v # "undecodable"
  <2>1. PICK n \in BOOLEAN : n = (v = "nan")
    OBVIOUS
  <2>2. PICK c : c = [op |-> op, schema |-> row.schema, table |-> row.table,
                      pk |-> pk, cols |-> cols, nan |-> n]
    OBVIOUS
  <2>3. c \in Change
    BY <1>1, <2>2 DEF Change
  <2>4. changes' = Append(changes, c)
    BY <1>7, <2>1, <2>2 DEF Record, mapValue
  <2>5. Records(c, w)
    BY <1>2, <2>1, <2>2 DEF Records, KeyOf
  <2>6. w.value # "undecodable"
    BY <1>2, <1>7
  <2>7. QED BY <1>3, <1>4, <1>5, <2>3, <2>4, <2>5, <2>6 DEF Recorded
<1>8. QED BY <1>6, <1>7

\* Every handler records one write, or commits.
LEMMA StepsRecord ==
  ASSUME TypeOK, Next
  PROVE  HandleCommit \/ \E w \in Write : Recorded(w)
<1>1. ASSUME HandleInsert PROVE \E w \in Write : Recorded(w)
  <2>1. PICK row \in Rows, v \in Values :
          Record("insert", row, row.pk, row.pk, AllColumns, v)
    BY <1>1 DEF HandleInsert
  <2>2. row.pk \in Names
    BY RoutingAssumption
  <2>3. QED BY <2>1, <2>2, RecordRecords
<1>2. ASSUME HandleUpdate PROVE \E w \in Write : Recorded(w)
  <2>1. PICK row \in Rows, c \in UpdateImages, v \in Values :
          \E new \in Renames \cup {row.pk} :
            Record("update", row, new, IF new = Blank THEN row.pk ELSE new,
                   c \cup {PKCol}, v)
    BY <1>2 DEF HandleUpdate
  <2>2. PICK new \in Renames \cup {row.pk} :
          Record("update", row, new, IF new = Blank THEN row.pk ELSE new,
                 c \cup {PKCol}, v)
    BY <2>1
  <2>3. new \in Names /\ (IF new = Blank THEN row.pk ELSE new) \in Names
    BY RoutingAssumption
  <2>4. c \cup {PKCol} \in SUBSET AllColumns
    BY RoutingAssumption DEF AllColumns
  <2>5. QED BY <2>2, <2>3, <2>4, RecordRecords
<1>3. ASSUME HandleDelete PROVE \E w \in Write : Recorded(w)
  <2>1. PICK row \in Rows : Record("delete", row, row.pk, row.pk, {}, "fine")
    BY <1>3 DEF HandleDelete
  <2>2. row.pk \in Names /\ "fine" \in Values
    BY RoutingAssumption
  <2>3. QED BY <2>1, <2>2, RecordRecords
<1>4. QED BY <1>1, <1>2, <1>3 DEF Next

\* One more pair makes a bijection between one more position on either side.
LEMMA BijectionExtends ==
  ASSUME NEW S, NEW T, NEW f \in Bijection(S, T), NEW a, NEW b,
         a \notin S, b \notin T
  PROVE  [x \in S \cup {a} |-> IF x = a THEN b ELSE f[x]]
           \in Bijection(S \cup {a}, T \cup {b})
<1> DEFINE g == [x \in S \cup {a} |-> IF x = a THEN b ELSE f[x]]
<1>1. /\ f \in [S -> T]
      /\ \A x, y \in S : f[x] = f[y] => x = y
      /\ \A y \in T : \E x \in S : f[x] = y
  BY DEF Bijection, Injection, Surjection, IsInjective
<1>2. g \in [S \cup {a} -> T \cup {b}]
  BY <1>1
<1>3. \A x, y \in S \cup {a} : g[x] = g[y] => x = y
  BY <1>1
<1>4. \A y \in T \cup {b} : \E x \in S \cup {a} : g[x] = y
  BY <1>1
<1>5. QED BY <1>2, <1>3, <1>4 DEF Bijection, Injection, Surjection, IsInjective

\* Recording a write keeps the changes and the decodable writes in step.
LEMMA RecordedKeepsSource ==
  ASSUME TypeOK, SourceInv, NEW w \in Write, Recorded(w)
  PROVE  SourceInv'
<1>1. PICK f \in Bijection(DOMAIN changes, Decoded) :
        \A j \in DOMAIN changes : Records(changes[j], written[f[j]])
  BY DEF SourceInv
<1>2. /\ changes \in Seq(Change) /\ written \in Seq(Write)
      /\ Len(changes) \in Nat /\ Len(written) \in Nat
      /\ DOMAIN changes = 1 .. Len(changes)
      /\ DOMAIN written = 1 .. Len(written)
  BY DEF TypeOK
<1> DEFINE n == Len(written) + 1
           m == Len(changes) + 1
<1>3. /\ DOMAIN written' = DOMAIN written \cup {n}
      /\ \A i \in DOMAIN written : written'[i] = written[i]
      /\ written'[n] = w /\ n \notin DOMAIN written
  BY <1>2 DEF Recorded
<1>4. \A i \in DOMAIN written' : written'[i].op = "delete" => written'[i].cols = {}
  BY <1>3 DEF SourceInv, Recorded
<1>5. f \in [DOMAIN changes -> Decoded] /\ Decoded \subseteq DOMAIN written
  BY DEF Bijection, Injection, Decoded
<1>6. CASE w.value = "undecodable" /\ changes' = changes
  <2>1. Decoded' = Decoded
    BY <1>3, <1>6 DEF Decoded
  <2>2. \A j \in DOMAIN changes' : Records(changes'[j], written'[f[j]])
    BY <1>1, <1>3, <1>5, <1>6
  <2>3. f \in Bijection(DOMAIN changes', Decoded')
    BY <1>6, <2>1
  <2>4. QED BY <1>4, <2>2, <2>3 DEF SourceInv
<1>7. ASSUME w.value # "undecodable",
             NEW c \in Change, Records(c, w), changes' = Append(changes, c)
      PROVE  SourceInv'
  <2>1. /\ DOMAIN changes' = DOMAIN changes \cup {m}
        /\ \A j \in DOMAIN changes : changes'[j] = changes[j]
        /\ changes'[m] = c /\ m \notin DOMAIN changes
    BY <1>2, <1>7
  <2>2. Decoded' = Decoded \cup {n} /\ n \notin Decoded
    BY <1>3, <1>5, <1>7 DEF Decoded
  <2> DEFINE g == [x \in DOMAIN changes \cup {m} |-> IF x = m THEN n ELSE f[x]]
  <2>3. g \in Bijection(DOMAIN changes', Decoded')
    BY <2>1, <2>2, BijectionExtends
  <2>4. ASSUME NEW j \in DOMAIN changes'
        PROVE  Records(changes'[j], written'[g[j]])
    <3>1. CASE j = m
      BY <1>3, <1>7, <2>1, <3>1
    <3>2. CASE j # m
      <4>1. j \in DOMAIN changes /\ g[j] = f[j] /\ f[j] \in DOMAIN written
        BY <1>5, <2>1, <3>2
      <4>2. QED BY <1>1, <1>3, <2>1, <4>1
    <3>3. QED BY <3>1, <3>2
  <2>5. QED BY <1>4, <2>3, <2>4 DEF SourceInv
<1>8. QED BY <1>6, <1>7 DEF Recorded

\* The router is handed exactly the writes that could be decoded.
LEMMA SourceInvariant == Spec => []SourceInv
<1>1. ASSUME changes = <<>>, written = <<>> PROVE SourceInv
  <2>1. DOMAIN changes = {} /\ DOMAIN written = {} /\ Decoded = {}
    BY <1>1 DEF Decoded
  <2>2. changes \in Bijection(DOMAIN changes, Decoded)
    <3>1. changes \in [{} -> {}]
      BY <1>1
    <3>2. QED BY <2>1, <3>1 DEF Bijection, Injection, Surjection, IsInjective
  <2>3. QED BY <2>1, <2>2 DEF SourceInv
<1>2. Init => SourceInv
  BY <1>1 DEF Init
<1>3. TypeOK /\ SourceInv /\ [Next]_vars => SourceInv'
  <2>1. ASSUME HandleCommit PROVE SourceInv'
    <3>1. changes' = <<>> /\ written' = <<>>
      BY <2>1 DEF HandleCommit
    <3>2. DOMAIN changes' = {} /\ DOMAIN written' = {} /\ Decoded' = {}
      BY <3>1 DEF Decoded
    <3>3. changes' \in Bijection(DOMAIN changes', Decoded')
      <4>1. changes' \in [{} -> {}]
        BY <3>1
      <4>2. QED BY <3>2, <4>1 DEF Bijection, Injection, Surjection, IsInjective
    <3>4. QED BY <3>2, <3>3 DEF SourceInv
  <2>2. ASSUME SourceInv, UNCHANGED vars PROVE SourceInv'
    BY <2>2 DEF SourceInv, Decoded, vars
  <2>3. QED BY <2>1, <2>2, StepsRecord, RecordedKeepsSource
<1>4. QED BY <1>2, <1>3, TypeCorrect, PTL DEF Spec

\* A change shows a grant what the write behind it shows.
LEMMA RecordsShowTheSame ==
  ASSUME NEW c, NEW w, Records(c, w)
  PROVE  VisibleWrite(c) <=> VisibleWrite(w)
BY DEF Records, VisibleWrite

\* A subscriber is sent a transaction only for a write that leaves a row of its
\* key and that its grant shows: nobody is told by the key a row had before.
THEOREM MovedRowsGoByNewKey == Spec => []MovedRowGoesByNewKey
<1>1. TypeOK /\ SourceInv => MovedRowGoesByNewKey
  <2>1. SUFFICES
          ASSUME TypeOK, SourceInv, NEW sub \in Admitted, sub.kind = "exact",
                 dispatchEvent(sub).kind # "silent"
          PROVE  \E i \in DOMAIN written :
                   /\ OnTable(sub, written[i]) /\ VisibleWrite(written[i])
                   /\ written[i].value # "undecodable"
                   /\ \/ written[i].new = sub.pk
                      \/ written[i].new = Blank /\ written[i].old = sub.pk
    BY DEF MovedRowGoesByNewKey
  <2>2. PICK j \in Kept : matchesAnchor(sub, changes[j])
    BY <2>1 DEF dispatchEvent, Silent, anchorSurvived
  <2>3. j \in DOMAIN changes /\ VisibleWrite(changes[j])
    BY <2>2, FilterShowsVisible DEF Kept
  <2>4. PICK f \in Bijection(DOMAIN changes, Decoded) :
          \A k \in DOMAIN changes : Records(changes[k], written[f[k]])
    BY <2>1 DEF SourceInv
  <2>5. /\ f[j] \in DOMAIN written /\ written[f[j]].value # "undecodable"
        /\ Records(changes[j], written[f[j]])
    BY <2>3, <2>4 DEF Bijection, Injection, Decoded
  <2>6. VisibleWrite(written[f[j]])
    BY <2>3, <2>5, RecordsShowTheSame
  <2>7. /\ OnTable(sub, written[f[j]])
        /\ \/ written[f[j]].new = sub.pk
           \/ written[f[j]].new = Blank /\ written[f[j]].old = sub.pk
    BY <2>1, <2>2, <2>5 DEF matchesAnchor, OnTable, Records, KeyOf
  <2>8. QED BY <2>5, <2>6, <2>7
<1>2. QED BY <1>1, TypeCorrect, SourceInvariant, PTL

\* Where no key is "", and of the writes that could be decoded: routing picks
\* exactly the transactions that write the subscribed row (or table) and, for a
\* row, no other row of its table.
THEOREM RootsAreRoutedExactly ==
  ASSUME NoBlankKeys
  PROVE  Spec => []DeliversItsRoot
<1>1. TypeOK /\ KeysNotBlank /\ SourceInv => DeliversItsRoot
  <2> SUFFICES ASSUME TypeOK, KeysNotBlank, SourceInv, NEW sub \in Admitted
               PROVE  LET roots == {i \in Decoded : OnTable(sub, written[i])}
                          own == {i \in roots :
                                    sub.kind = "exact" => KeyOf(written[i]) = sub.pk}
                      IN dispatchEvent(sub).kind # "silent" <=>
                           roots = own /\ \E i \in own : VisibleWrite(written[i])
    BY DEF DeliversItsRoot
  <2>1. PICK f \in Bijection(DOMAIN changes, Decoded) :
          \A j \in DOMAIN changes : Records(changes[j], written[f[j]])
    BY DEF SourceInv
  <2>2. /\ \A j \in DOMAIN changes : f[j] \in Decoded
        /\ \A i \in Decoded : \E j \in DOMAIN changes : f[j] = i
    BY <2>1 DEF Bijection, Injection, Surjection
  <2>3. ASSUME NEW j \in DOMAIN changes
        PROVE  /\ OnTable(sub, changes[j]) <=> OnTable(sub, written[f[j]])
               /\ changes[j].pk = KeyOf(written[f[j]])
               /\ VisibleWrite(changes[j]) <=> VisibleWrite(written[f[j]])
    <3>1. Records(changes[j], written[f[j]])
      BY <2>1
    <3>2. VisibleWrite(changes[j]) <=> VisibleWrite(written[f[j]])
      BY <3>1, RecordsShowTheSame
    <3> QED BY <3>1, <3>2 DEF OnTable, Records
  <2>4. (\E j \in DOMAIN changes :
           matchesAnchor(sub, changes[j]) /\ VisibleWrite(changes[j]))
        <=> \E i \in Decoded : /\ OnTable(sub, written[i])
                               /\ sub.kind = "exact" => KeyOf(written[i]) = sub.pk
                               /\ VisibleWrite(written[i])
    BY <2>2, <2>3 DEF matchesAnchor
  <2>5. (\A j \in DOMAIN changes : OnTable(sub, changes[j]) => changes[j].pk = sub.pk)
        <=> \A i \in Decoded : OnTable(sub, written[i]) => KeyOf(written[i]) = sub.pk
    BY <2>2, <2>3
  <2> QED BY <2>4, <2>5, ChangesAreRouted
<1> QED BY <1>1, TypeCorrect, NoBlankChanges, SourceInvariant, PTL

\* So a row subscriber's transaction writes no other row of its table (README,
\* "One root row per transaction") where no key is "" and every write of the
\* transaction could be decoded.  Either condition is needed: TLC finds the
\* transaction with a blank key, and a skipped write is not looked at.
THEOREM OneRootUnlessBlank ==
  ASSUME NoBlankKeys
  PROVE  Spec => [](Decoded = DOMAIN written => OneRootOnly)
<1>1. DeliversItsRoot => (Decoded = DOMAIN written => OneRootOnly)
  <2> SUFFICES ASSUME DeliversItsRoot, Decoded = DOMAIN written,
                      NEW sub \in Admitted, sub.kind = "exact", Frame(sub),
                      NEW i \in DOMAIN written, OnTable(sub, written[i])
               PROVE  KeyOf(written[i]) = sub.pk
    BY DEF OneRootOnly
  <2> DEFINE roots == {n \in Decoded : OnTable(sub, written[n])}
             own == {n \in roots : sub.kind = "exact" => KeyOf(written[n]) = sub.pk}
  <2>1. dispatchEvent(sub).kind # "silent"
    BY DEF Frame
  <2>2. roots = own
    BY <2>1 DEF DeliversItsRoot
  <2>3. i \in roots
    OBVIOUS
  <2>4. i \in own
    BY <2>2, <2>3
  <2> QED BY <2>4
<1> QED BY <1>1, RootsAreRoutedExactly, PTL
----------------------------------------------------------------------------
(* What a frame holds.                                                     *)

\* A bijection cut down to parts that correspond is one between them.
LEMMA BijectionRestricts ==
  ASSUME NEW S, NEW T, NEW f \in Bijection(S, T), NEW A \in SUBSET S,
         NEW B \in SUBSET T, \A x \in S : x \in A <=> f[x] \in B
  PROVE  [x \in A |-> f[x]] \in Bijection(A, B)
<1>1. /\ f \in [S -> T]
      /\ \A x, y \in S : f[x] = f[y] => x = y
      /\ \A y \in T : \E x \in S : f[x] = y
  BY DEF Bijection, Injection, Surjection, IsInjective
<1>2. [x \in A |-> f[x]] \in [A -> B]
  BY <1>1
<1>3. QED BY <1>1, <1>2 DEF Bijection, Injection, Surjection, IsInjective

\* A frame that shows no NaN has one row for every write that the grant shows and
\* that could be decoded, with exactly the granted columns: a skipped write takes
\* nothing else with it.
THEOREM OnlyUndecodableIsSkipped == Spec => []SkipsOnlyUndecodable
<1>1. TypeOK /\ SourceInv => SkipsOnlyUndecodable
  <2> DEFINE seen == Seen \cap Decoded
  <2>1. SUFFICES
          ASSUME TypeOK, SourceInv, NEW sub \in Admitted, Frame(sub),
                 \A i \in Seen :
                   written[i].value = "nan" => FloatCol \notin grant[written[i].table]
          PROVE  LET rows == dispatchEvent(sub).rows IN
                 /\ Cardinality(DOMAIN rows) = Cardinality(seen)
                 /\ \A i \in seen : \E j \in DOMAIN rows :
                      /\ rows[j].op = written[i].op
                      /\ rows[j].table = written[i].table
                      /\ rows[j].cols =
                           written[i].cols \cap (grant[written[i].table] \cup {PKCol})
    BY DEF SkipsOnlyUndecodable, HoldsExactly
  <2>2. PICK f \in Bijection(DOMAIN changes, Decoded) :
          \A j \in DOMAIN changes : Records(changes[j], written[f[j]])
    BY <2>1 DEF SourceInv
  <2>3. /\ f \in [DOMAIN changes -> Decoded] /\ Decoded \subseteq DOMAIN written
        /\ \A i \in Decoded : \E j \in DOMAIN changes : f[j] = i
    BY <2>2 DEF Bijection, Injection, Surjection, Decoded
  <2>4. seen \subseteq Decoded /\ Kept \subseteq DOMAIN changes
    BY DEF Kept
  <2>5. \A j \in DOMAIN changes : j \in Kept <=> f[j] \in seen
    <3>1. SUFFICES ASSUME NEW j \in DOMAIN changes
                   PROVE  j \in Kept <=> f[j] \in seen
      OBVIOUS
    <3>2. j \in Kept <=> VisibleWrite(changes[j])
      BY FilterShowsVisible DEF Kept
    <3>3. VisibleWrite(changes[j]) <=> VisibleWrite(written[f[j]])
      BY <2>2, RecordsShowTheSame
    <3>4. f[j] \in DOMAIN written /\ f[j] \in Decoded
      BY <2>3
    <3>5. QED BY <3>2, <3>3, <3>4 DEF Seen
  <2>6. ASSUME NEW j \in Kept
        PROVE  /\ filtered[j].op = written[f[j]].op
               /\ filtered[j].table = written[f[j]].table
               /\ filtered[j].cols = written[f[j]].cols
                                       \cap (grant[written[f[j]].table] \cup {PKCol})
               /\ filtered[j].nan = (written[f[j]].value = "nan")
    <3>1. j \in DOMAIN changes /\ changes[j] \in Change /\ f[j] \in DOMAIN written
      BY <2>1, <2>3, <2>4 DEF TypeOK
    <3>2. PICK c \in Change : c = changes[j]
      BY <3>1
    <3>3. PICK w : w = written[f[j]]
      OBVIOUS
    <3>4. Records(c, w) /\ (w.op = "delete" => w.cols = {})
      BY <2>1, <2>2, <3>1, <3>2, <3>3 DEF SourceInv
    <3>5. filtered[j] = FilterKeeps(c)
      BY <3>2 DEF filtered
    <3>6. /\ FilterKeeps(c).op = c.op /\ FilterKeeps(c).table = c.table
          /\ FilterKeeps(c).nan = c.nan
          /\ FilterKeeps(c).cols = IF c.op = "delete" THEN {}
                                   ELSE c.cols \cap (grant[c.table] \cup {PKCol})
      BY DEF FilterKeeps, Change
    <3>7. FilterKeeps(c).cols = w.cols \cap (grant[w.table] \cup {PKCol})
      BY <3>4, <3>6 DEF Records
    <3>8. QED BY <3>3, <3>4, <3>5, <3>6, <3>7 DEF Records
  <2>7. Encode(filtered) = filtered
    <3>1. ASSUME NEW j \in Kept, filtered[j].nan PROVE FloatCol \notin filtered[j].cols
      <4>1. f[j] \in Seen /\ written[f[j]].value = "nan"
        BY <2>4, <2>5, <2>6, <3>1
      <4>2. FloatCol \notin grant[written[f[j]].table] /\ FloatCol # PKCol
        BY <2>1, <4>1, RoutingAssumption
      <4>3. QED BY <2>6, <4>2
    <3>2. DOMAIN filtered = Kept
      BY DEF filtered
    <3>3. QED BY <3>1, <3>2 DEF Encode
  <2>8. dispatchEvent(sub).rows = filtered
    BY <2>1, <2>7 DEF Frame, dispatchEvent, Silent, TooLarge
  <2>9. Cardinality(Kept) = Cardinality(seen)
    <3>1. [x \in Kept |-> f[x]] \in Bijection(Kept, seen)
      BY <2>4, <2>5, BijectionRestricts
    <3>2. ExistsBijection(Kept, seen)
      BY <3>1 DEF ExistsBijection
    <3>3. IsFiniteSet(Kept)
      <4>1. DOMAIN changes = 1 .. Len(changes) /\ Len(changes) \in Nat
        BY <2>1 DEF TypeOK
      <4>2. IsFiniteSet(1 .. Len(changes))
        BY <4>1, FS_Interval
      <4>3. QED BY <2>4, <4>1, <4>2, FS_Subset
    <3>4. QED BY <3>2, <3>3, FS_Bijection
  <2>10. ASSUME NEW i \in seen
         PROVE  \E j \in Kept : f[j] = i
    BY <2>3, <2>4, <2>5
  <2>11. DOMAIN filtered = Kept
    BY DEF filtered
  <2>12. QED BY <2>6, <2>8, <2>9, <2>10, <2>11
<1>2. QED BY <1>1, TypeCorrect, SourceInvariant, PTL
----------------------------------------------------------------------------
(* What a change does not touch.                                           *)

\* Appending a change that is neither shown nor of the subscribed table leaves
\* the kept changes, the roots and the anchor as they were.  The index lookup
\* may be hit by a key that collides, but then the anchor decides.
LEMMA UnseenChangeChangesNothing ==
  ASSUME TypeOK, NEW sub \in Admitted, NEW c \in Change,
         changes' = Append(changes, c), grant' = grant,
         ~VisibleWrite(c), ~OnTable(sub, c)
  PROVE  dispatchEvent(sub)' = dispatchEvent(sub)
<1>1. /\ Len(changes) \in Nat /\ DOMAIN changes = 1 .. Len(changes)
      /\ DOMAIN changes' = DOMAIN changes \cup {Len(changes) + 1}
      /\ \A i \in DOMAIN changes : changes'[i] = changes[i]
      /\ changes'[Len(changes) + 1] = c
  BY DEF TypeOK
<1>2. Kept' = Kept
  <2>1. ASSUME NEW i \in DOMAIN changes
        PROVE  (i \in Kept)' <=> i \in Kept
    BY <1>1 DEF Kept, FilterDrops
  <2>2. Len(changes) + 1 \notin Kept'
    <3>1. ~(c.schema = SubSchema /\ ~FilterDrops(c))
      BY FilterShowsVisible
    <3>2. QED BY <1>1, <3>1 DEF Kept, FilterDrops
  <2>3. Kept \subseteq DOMAIN changes /\ Kept' \subseteq DOMAIN changes'
    BY DEF Kept
  <2>4. QED BY <1>1, <2>1, <2>2, <2>3
<1>3. filtered' = filtered
  <2>1. \A i \in Kept : changes'[i] = changes[i]
    BY <1>1 DEF Kept
  <2>2. QED BY <1>2, <2>1 DEF filtered, FilterKeeps
<1>4. anchorSurvived(sub)' <=> anchorSurvived(sub)
  <2>1. \A i \in Kept : changes'[i] = changes[i]
    BY <1>1 DEF Kept
  <2>2. QED BY <1>2, <2>1 DEF anchorSurvived, matchesAnchor, OnTable
<1>5. hasMultipleAnchorRoots(sub)' <=> hasMultipleAnchorRoots(sub)
  <2>1. ASSUME NEW i \in DOMAIN changes', OnTable(sub, changes'[i])
        PROVE  i \in DOMAIN changes
    BY <1>1, <2>1
  <2>2. hasMultipleAnchorRoots(sub) => hasMultipleAnchorRoots(sub)'
    BY <1>1 DEF hasMultipleAnchorRoots, OnTable
  <2>3. hasMultipleAnchorRoots(sub)' => hasMultipleAnchorRoots(sub)
    BY <1>1, <2>1 DEF hasMultipleAnchorRoots, OnTable
  <2>4. QED BY <2>2, <2>3
<1>6. (anchorSurvived(sub) => mergeMatches(sub))
      /\ (anchorSurvived(sub)' => mergeMatches(sub)')
  <2>1. sub \in Subscriptions
    BY DEF Admitted
  <2>2. anchorSurvived(sub) => mergeMatches(sub)
    BY <2>1, AnchorIsIndexed DEF anchorSurvived, Kept
  <2>3. anchorSurvived(sub) => mergeMatches(sub)'
    <3>1. mergeMatches(sub) => mergeMatches(sub)'
      BY <1>1 DEF mergeMatches, Key, WildcardKey
    <3>2. QED BY <2>2, <3>1
  <2>4. QED BY <1>4, <2>2, <2>3
<1>7. QED BY <1>3, <1>4, <1>5, <1>6 DEF dispatchEvent, Silent, TooLarge

\* A write the subscriber may not see, outside its own table, changes nothing
\* of what it is sent: no row, no key that collides, and no cap used up.
THEOREM InvisibleChangesNothing == Spec => InvisibleIsIrrelevant
<1>1. ASSUME TypeOK, [Next]_vars, NEW sub \in Admitted,
             Len(written') > Len(written),
             ~VisibleWrite(written'[Len(written')]),
             ~OnTable(sub, written'[Len(written')])
      PROVE  dispatchEvent(sub)' = dispatchEvent(sub)
  <2>1. written \in Seq(Write) /\ Len(written) \in Nat
    BY <1>1 DEF TypeOK
  <2>2. Next
    BY <1>1, <2>1 DEF vars
  <2>3. ~HandleCommit
    BY <1>1, <2>1 DEF HandleCommit
  <2>4. PICK w \in Write : Recorded(w)
    BY <1>1, <2>2, <2>3, StepsRecord
  <2>5. written'[Len(written')] = w
    BY <2>1, <2>4 DEF Recorded
  <2>6. CASE changes' = changes
    <3>1. grant' = grant
      BY <2>4 DEF Recorded
    <3>2. filtered' = filtered
      BY <2>6, <3>1 DEF filtered, Kept, FilterKeeps, FilterDrops
    <3>3. /\ anchorSurvived(sub)' <=> anchorSurvived(sub)
          /\ hasMultipleAnchorRoots(sub)' <=> hasMultipleAnchorRoots(sub)
          /\ mergeMatches(sub)' <=> mergeMatches(sub)
      BY <2>6, <3>1 DEF anchorSurvived, matchesAnchor, OnTable, Kept, FilterDrops,
                        hasMultipleAnchorRoots, mergeMatches, Key, WildcardKey
    <3>4. QED BY <3>2, <3>3 DEF dispatchEvent, Silent, TooLarge
  <2>7. ASSUME NEW c \in Change, Records(c, w), changes' = Append(changes, c)
        PROVE  dispatchEvent(sub)' = dispatchEvent(sub)
    <3>1. ~VisibleWrite(c)
      BY <1>1, <2>5, <2>7, RecordsShowTheSame
    <3>2. ~OnTable(sub, c)
      BY <1>1, <2>5, <2>7 DEF OnTable, Records
    <3>3. grant' = grant
      BY <2>4 DEF Recorded
    <3>4. QED BY <1>1, <2>7, <3>1, <3>2, <3>3, UnseenChangeChangesNothing
  <2>8. QED BY <2>4, <2>6, <2>7 DEF Recorded
<1>2. TypeOK /\ [Next]_vars =>
        [\A sub \in Admitted :
           LET w == written'[Len(written')] IN
           Len(written') > Len(written) /\ ~VisibleWrite(w) /\ ~OnTable(sub, w)
             => dispatchEvent(sub)' = dispatchEvent(sub)]_vars
  BY <1>1
<1>3. QED BY <1>2, TypeCorrect, PTL DEF Spec, InvisibleIsIrrelevant
=============================================================================
