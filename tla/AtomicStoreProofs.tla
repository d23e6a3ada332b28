------------------------- MODULE AtomicStoreProofs -------------------------
(***************************************************************************)
(* Proofs about AtomicStore, for any rows, names and items: whatever is    *)
(* written, one message at a time, the constraints of the tables hold.     *)
(***************************************************************************)
EXTENDS AtomicStore, TLAPS

\* The rows and the ids of the database.
TypeOK == rows \in [Key -> Row] /\ ids \in [Key -> SUBSET Item]

\* The inductive invariant: a message's ids are those of rows only where rows are.
IInv == TypeOK /\ Consistent

\* The tables are kept apart by their rows' ids.
LEMMA Tables ==
  /\ List \subseteq Key /\ Item \subseteq Key /\ Lock \subseteq Key
  /\ Lock \cap (List \cup Item) = {} /\ List \cap Item = {}
  /\ \A k \in Key : k \in Table(k)
  /\ \A j, k \in Key : j \in Table(k) => Table(j) = Table(k)
  /\ \A k \in Key : Table(k) \subseteq Key /\ (k \notin Lock => Table(k) \cap Lock = {})
BY RowsAssumption DEF Key, Table

\* What UPDATE and REPLACE leave of each row: its own is written, one that clashes is removed.
LEMMA WithRowFields ==
  ASSUME NEW r \in [Key -> Row], NEW k \in Key, NEW m \in Message, NEW j \in Key
  PROVE  /\ WithRow(r, k, m) \in [Key -> Row]
         /\ m.update => /\ WithRow(r, k, m)[j].state = r[j].state
                        /\ WithRow(r, k, m)[j].name = r[j].name
         /\ ~m.update /\ j = k => /\ WithRow(r, k, m)[j].state = "here"
                                  /\ WithRow(r, k, m)[j].name = m.name
         /\ ~m.update /\ j # k /\ j \in Clashing(r, k, m) => WithRow(r, k, m)[j].state = "gone"
         /\ ~m.update /\ j # k /\ j \notin Clashing(r, k, m) => WithRow(r, k, m)[j] = r[j]
<1>1. m.name \in Name \cup {NoName} /\ m.value \in Nat /\ m.update \in BOOLEAN
  BY DEF Message
<1>2. CASE m.update
  BY <1>1, <1>2 DEF WithRow, Row
<1>3. CASE ~m.update
  <2>1. \A i \in Key : /\ [r[i] EXCEPT !.state = "gone"] \in Row
                       /\ [r[i] EXCEPT !.state = "gone"].state = "gone"
    BY DEF Row
  <2>2. [state |-> "here", name |-> m.name, value |-> m.value] \in Row
    BY <1>1 DEF Row
  <2> QED
    BY <1>3, <2>1, <2>2 DEF WithRow
<1> QED
  BY <1>1, <1>2, <1>3

\* A row that is there after a message was there before, or is the message's own.
LEMMA ExistsBefore ==
  ASSUME NEW r \in [Key -> Row], NEW k \in Key, NEW m \in Message, NEW j \in Key,
         Exists(WithRow(r, k, m), j)
  PROVE  \/ Exists(r, j) /\ WithRow(r, k, m)[j].name = r[j].name /\ (m.update \/ j # k)
         \/ ~m.update /\ j = k /\ WithRow(r, k, m)[j].name = m.name
<1>1. WithRow(r, k, m)[j].state = "here"
  BY DEF Exists
<1>2. CASE m.update
  BY <1>1, <1>2, WithRowFields DEF Exists
<1>3. CASE ~m.update /\ j = k
  BY <1>3, WithRowFields
<1>4. CASE ~m.update /\ j # k
  <2>1. j \notin Clashing(r, k, m)
    BY <1>1, <1>4, WithRowFields
  <2>2. WithRow(r, k, m)[j] = r[j]
    BY <1>4, <2>1, WithRowFields
  <2> QED
    BY <1>1, <1>4, <2>2 DEF Exists
<1> QED
  BY <1>2, <1>3, <1>4

\* A row that something points to stays there, for REPLACE may not remove it.
LEMMA ReferencedStays ==
  ASSUME NEW r \in [Key -> Row], NEW c, NEW k \in Key, NEW m \in Message, NEW j \in Key,
         RootAllowed(r, c, k, m), Exists(r, j), Referenced(c, j)
  PROVE  Exists(WithRow(r, k, m), j)
<1>1. m.update \/ j \notin Clashing(r, k, m)
  BY DEF RootAllowed
<1>2. r[j].state = "here"
  BY DEF Exists
<1>3. CASE m.update
  BY <1>2, <1>3, WithRowFields DEF Exists
<1>4. CASE ~m.update /\ j = k
  BY <1>4, WithRowFields DEF Exists
<1>5. CASE ~m.update /\ j # k
  <2>1. WithRow(r, k, m)[j] = r[j]
    BY <1>1, <1>5, WithRowFields
  <2> QED
    BY <1>2, <2>1 DEF Exists
<1> QED
  BY <1>3, <1>4, <1>5

\* Names stay unique, since REPLACE removes who else has the name.
LEMMA NamesStayUnique ==
  ASSUME NEW r \in [Key -> Row], NEW k \in Key, NEW m \in Message,
         \A j \in Key : Exists(r, j) => Clashing(r, j, r[j]) = {},
         NEW j \in Key, Exists(WithRow(r, k, m), j)
  PROVE  Clashing(WithRow(r, k, m), j, WithRow(r, k, m)[j]) = {}
<1> DEFINE w == WithRow(r, k, m)
<1> SUFFICES ASSUME NEW i \in Table(j) \ {j}, Exists(w, i), w[j].name # NoName,
                    w[i].name = w[j].name
             PROVE  FALSE
  BY DEF Clashing
<1>1. i \in Key /\ Table(i) = Table(j) /\ j \in Table(i) /\ i # j
  BY Tables DEF Table, Key
<1>2. CASE m.update \/ (i # k /\ j # k)
  <2>1. Exists(r, i) /\ w[i].name = r[i].name /\ Exists(r, j) /\ w[j].name = r[j].name
    BY <1>1, <1>2, ExistsBefore
  <2>2. i \in Clashing(r, j, r[j])
    BY <2>1 DEF Clashing
  <2> QED
    BY <2>1, <2>2
<1>3. CASE ~m.update /\ j = k
  <2>1. Exists(r, i) /\ w[i].name = r[i].name /\ w[j].name = m.name
    BY <1>1, <1>3, ExistsBefore
  <2>2. i \in Clashing(r, k, m)
    BY <1>3, <2>1 DEF Clashing
  <2> QED
    BY <1>1, <1>3, <2>2, WithRowFields DEF Exists
<1>4. CASE ~m.update /\ i = k
  <2>1. Exists(r, j) /\ w[j].name = r[j].name /\ w[i].name = m.name
    BY <1>1, <1>4, ExistsBefore
  <2>2. j \in Clashing(r, k, m)
    BY <1>1, <1>4, <2>1 DEF Clashing
  <2> QED
    BY <1>1, <1>4, <2>2, WithRowFields DEF Exists
<1> QED
  BY <1>2, <1>3, <1>4

\* The first database has items only, each with a name of its own.
LEMMA InitConsistent == Init => IInv
<1> SUFFICES ASSUME Init PROVE IInv
  OBVIOUS
<1>1. \A k \in DOMAIN Loaded : Loaded[k] \in Name /\ k \in Item
  BY RowsAssumption
<1>2. \A k \in Key : k \in DOMAIN Loaded => rows[k].name = Loaded[k]
  BY DEF Init, FirstRows
<1>3. \A k \in Key : k \notin DOMAIN Loaded => rows[k] = NoRow /\ ~Exists(rows, k)
  BY DEF Init, FirstRows, NoRow, Exists
<1>4. TypeOK
  BY <1>1 DEF Init, FirstRows, TypeOK, Row, NoRow
<1>5. \A k \in Lock : ~Exists(rows, k)
  BY <1>1, <1>3, Tables
<1>6. ASSUME NEW k \in Key, Exists(rows, k)
      PROVE  Clashing(rows, k, rows[k]) = {}
  <2> SUFFICES ASSUME NEW j \in Table(k) \ {k}, Exists(rows, j), rows[j].name = rows[k].name
               PROVE  FALSE
    BY DEF Clashing
  <2>1. j \in Key
    BY Tables
  <2>2. j \in DOMAIN Loaded /\ k \in DOMAIN Loaded
    BY <1>3, <1>6, <2>1
  <2>3. Loaded[j] = Loaded[k]
    BY <1>2, <2>1, <2>2
  <2> QED
    BY <2>2, <2>3, RowsAssumption
<1>7. \A l \in List : ids[l] = {}
  BY Tables DEF Init
<1> QED
  BY <1>4, <1>5, <1>6, <1>7 DEF IInv, Consistent, LocksHold

\* A message that the constraints allow leaves them true.
LEMMA WriteConsistent ==
  ASSUME IInv, NEW k \in Key, NEW m \in Message, Write(k, m), m.ids # {} => k \in List /\ ~m.update
  PROVE  IInv'
<1>1. /\ rows' = WithRow(rows, k, m) /\ ids' = WithIds(ids, k, m.ids)
      /\ RootAllowed(rows, ids, k, m) /\ \A i \in m.ids : Exists(rows', i)
      /\ LocksHold(rows')
  BY DEF Write
<1>2. rows \in [Key -> Row] /\ ids \in [Key -> SUBSET Item] /\ m.ids \in SUBSET Item
  BY DEF IInv, TypeOK, Message
<1>3. TypeOK'
  BY <1>1, <1>2, WithRowFields DEF TypeOK, WithIds
<1>4. ASSUME NEW l \in List
      PROVE  /\ ids'[l] # {} => Exists(rows', l)
             /\ \A i \in ids'[l] : Exists(rows', i)
  <2>1. l \in Key /\ ids'[l] = IF l = k THEN ids[l] \cup m.ids ELSE ids[l]
    BY <1>1, <1>2, Tables DEF WithIds
  <2>2. ids[l] # {} => Exists(rows', l)
    <3>1. ids[l] # {} => Exists(rows, l) /\ Referenced(ids, l)
      BY DEF IInv, Consistent, Referenced
    <3> QED
      BY <1>1, <1>2, <2>1, <3>1, ReferencedStays
  <2>3. \A i \in ids[l] : Exists(rows', i)
    <3>1. \A i \in ids[l] : i \in Key /\ Exists(rows, i) /\ Referenced(ids, i)
      BY <1>2, <2>1, Tables DEF IInv, Consistent, Referenced
    <3> QED
      BY <1>1, <1>2, <3>1, ReferencedStays
  <2>4. m.ids # {} /\ l = k => Exists(rows', l)
    BY <1>1, <1>2, <2>1, WithRowFields DEF Exists
  <2> QED
    BY <1>1, <2>1, <2>2, <2>3, <2>4
<1>5. \A j \in Key : Exists(rows', j) => Clashing(rows', j, rows'[j]) = {}
  BY <1>1, <1>2, NamesStayUnique DEF IInv, Consistent
<1> QED
  BY <1>1, <1>3, <1>4, <1>5 DEF IInv, Consistent

\* Without its locks the database is as it was.
LEMMA UnlockConsistent == ASSUME IInv, Unlock PROVE IInv'
<1>1. rows' = Unlocked(rows) /\ ids' = ids
  BY DEF Unlock
<1>2. rows \in [Key -> Row] /\ Lock \subseteq Key
  BY Tables DEF IInv, TypeOK
<1>3. \A k \in Key \ Lock : rows'[k] = rows[k]
  BY <1>1, <1>2 DEF Unlocked
<1>4. \A k \in Lock : rows'[k] = [rows[k] EXCEPT !.state = "none"] /\ rows[k] \in Row
  BY <1>1, <1>2 DEF Unlocked
<1>5. \A k \in Lock : rows'[k] \in Row /\ ~Exists(rows', k)
  BY <1>4 DEF Row, Exists
<1>6. rows' \in [Key -> Row]
  BY <1>1, <1>2, <1>3, <1>5 DEF Unlocked
<1>7. \A k \in Key : Exists(rows', k) <=> Exists(rows, k) /\ k \notin Lock
  BY <1>3, <1>5 DEF Exists
<1>8. ASSUME NEW k \in Key, Exists(rows', k)
      PROVE  Clashing(rows', k, rows'[k]) = {}
  <2>1. k \notin Lock /\ rows'[k] = rows[k] /\ Clashing(rows, k, rows[k]) = {}
    BY <1>3, <1>7, <1>8 DEF IInv, Consistent
  <2>2. \A j \in Table(k) : j \in Key \ Lock
    BY <2>1, Tables
  <2> QED
    BY <1>3, <1>7, <2>1, <2>2 DEF Clashing
<1>9. \A l \in List : l \in Key \ Lock /\ \A i \in ids[l] : i \in Key \ Lock
  BY Tables DEF IInv, TypeOK
<1> QED
  BY <1>1, <1>5, <1>6, <1>7, <1>8, <1>9 DEF IInv, TypeOK, Consistent, LocksHold

\* Every step of the abstract storage keeps the constraints.
LEMMA NextConsistent == ASSUME IInv, [Next]_dbVars PROVE IInv'
<1>1. ASSUME NEW k \in Key, NEW update \in BOOLEAN, Write(k, Seen(k, update))
      PROVE  IInv'
  <2>1. Seen(k, update) \in Message /\ Seen(k, update).key = k /\ Seen(k, update).update = update
    BY <1>1 DEF Write, Seen
  <2>2. Seen(k, update).ids # {} => k \in List /\ ~update
    BY <2>1, RowsAssumption DEF Message, Key
  <2> QED
    BY <1>1, <2>1, <2>2, WriteConsistent
<1>2. CASE UNCHANGED dbVars
  BY <1>2 DEF dbVars, IInv, TypeOK, Consistent, LocksHold, Clashing, Exists
<1> QED
  BY <1>1, <1>2, UnlockConsistent DEF Next

\* In every state of the abstract storage the tables' constraints hold: ids belong to rows, names
\* are unique, and locks find their playlists.
THEOREM AlwaysConsistent == Spec => []Consistent
<1>1. IInv => Consistent
  BY DEF IInv
<1> QED
  BY <1>1, InitConsistent, NextConsistent, PTL DEF Spec
=============================================================================
