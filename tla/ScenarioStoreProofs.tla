------------------------- MODULE ScenarioStoreProofs -------------------------
(***************************************************************************)
(* ScenarioStore for any number of readers and editors, any lifetime of    *)
(* the cached entries and any bound on attempts.                           *)
(*                                                                         *)
(* Freshness: an entry of age a has differed from the table for at most    *)
(* a + FillDelay ticks (Bounded).  Optimistic concurrency: a pending write *)
(* that still matches the stored ETag carries the next version, because an *)
(* ETag is never handed out twice (Guarded).  Coherence: without foreign   *)
(* writes an answer changes only by a write whose invalidation is still to *)
(* come (Coherent).                                                        *)
(***************************************************************************)
EXTENDS ScenarioStore, TLAPS

(* The answers of the table *)

LEMMA FirstMatchType ==
    ASSUME NEW id, FirstMatch(id) # None
    PROVE  FirstMatch(id) \in Stored
BY DEF FirstMatch

LEMMA SelectType ==
    ASSUME NEW v, select_enabled_for_vertical(v) # None
    PROVE  select_enabled_for_vertical(v) \in Stored
BY DEF select_enabled_for_vertical, Enabled

LEMMA FoundType ==
    ASSUME TypeOK, NEW r \in Stored
    PROVE  [row |-> r, record |-> table[r]] \in Entries
<1>1. r \in Rows /\ table[r] \in Record
  BY DEF Stored, TypeOK
<1> QED BY <1>1 DEF Entries

LEMMA AnswerType ==
    ASSUME TypeOK, NEW key \in Keys
    PROVE  Answer(key) \in Values
<1>1. CASE key[1] = "id"
  <2>1. Answer(key) = Found(FirstMatch(key[2]))
    BY <1>1 DEF Answer
  <2>2. Found(FirstMatch(key[2])) \in Entries \cup {None}
    BY FirstMatchType, FoundType DEF Found
  <2> QED BY <2>1, <2>2 DEF Values
<1>2. CASE key[1] = "vertical"
  <2>1. Answer(key) = Found(select_enabled_for_vertical(key[2]))
    BY <1>2 DEF Answer
  <2>2. Found(select_enabled_for_vertical(key[2])) \in Entries \cup {None}
    BY SelectType, FoundType DEF Found
  <2> QED BY <2>1, <2>2 DEF Values
<1>3. CASE key[1] \notin {"id", "vertical"}
  <2>1. \A r \in Stored : Found(r) \in Entries
    BY FoundType, StoreAssumption DEF Found, Stored, Rows
  <2> QED BY <1>3, <2>1 DEF Answer, Values
<1> QED BY <1>1, <1>2, <1>3

\* The answers depend on the table alone.
LEMMA AnswerStays ==
    ASSUME UNCHANGED table, NEW key
    PROVE  Answer(key)' = Answer(key)
BY DEF Answer, Found, FirstMatch, select_enabled_for_vertical, Enabled, Stored

-----------------------------------------------------------------------------
(* Types *)

LEMMA IdleType == IdleClient \in ClientState
<1>1. 0 \in 0 .. MaxAttempts - 1
  BY StoreAssumption
<1> QED BY <1>1 DEF IdleClient, ClientState, PCs, Values

LEMMA LookupType ==
    ASSUME NEW todo \in Lookups
    PROVE  todo \in Seq(Keys) /\ todo # <<>>
<1>1. \A b \in BOOLEAN : list_all(b) \in Seq(Keys) /\ list_all(b) # <<>>
  BY DEF list_all, Keys
<1>2. \A id \in ScenarioIds : <<<<"id", id>>>> \in Seq(Keys)
  BY DEF Keys
<1>3. \A v \in Verticals : <<<<"vertical", v>>>> \in Seq(Keys)
  BY DEF Keys
<1>4. ASSUME NEW id \in ScenarioIds \cup {None}, NEW v \in Verticals \cup {None}
      PROVE  resolve(id, v) \in Seq(Keys) /\ resolve(id, v) # <<>>
  <2> DEFINE a == IF id = None THEN <<>> ELSE <<<<"id", id>>>>
             b == IF v = None THEN <<>> ELSE <<<<"vertical", v>>>>
             z == <<<<"id", DefaultId>>>>
  <2>1. a \in Seq(Keys) /\ b \in Seq(Keys) /\ z \in Seq(Keys) /\ Len(z) = 1
    BY <1>2, <1>3, StoreAssumption
  <2>2. resolve(id, v) = a \o b \o z
    BY DEF resolve
  <2> HIDE DEF a, b, z
  <2>3. a \o b \in Seq(Keys) /\ a \o b \o z \in Seq(Keys) /\ Len(a \o b \o z) > 0
    BY <2>1
  <2> QED BY <2>2, <2>3
<1> QED BY <1>1, <1>4, LookupsAssumption

\* What TypeOK says of the clients.
ClientOK(n) ==
    /\ n \in ClientState
    /\ n.pc \in {"lookup", "fill"} => n.todo # <<>>
    /\ n.pc \in {"existing", "query", "write"} => n.op \in Ops
    /\ n.pc \in {"existing", "write"} => n.op.row \in Rows

ClientsOK ==
    /\ client \in [Clients -> ClientState]
    /\ \A c \in Clients : ClientOK(client[c])

LEMMA TypeParts == TypeOK => ClientsOK
BY DEF TypeOK, ClientsOK, ClientOK

LEMMA MovesType ==
    ASSUME ClientsOK, NEW c \in Clients, NEW n, ClientOK(n), client' = [client EXCEPT ![c] = n]
    PROVE  ClientsOK'
<1>1. client' \in [Clients -> ClientState]
  BY DEF ClientsOK, ClientOK
<1>2. ASSUME NEW d \in Clients PROVE ClientOK(client'[d])
  BY DEF ClientsOK
<1> QED BY <1>1, <1>2 DEF ClientsOK, ClientOK

LEMMA IdleOK == ClientOK(IdleClient)
BY IdleType DEF ClientOK, IdleClient

LEMMA ReturnType ==
    ASSUME ClientsOK, NEW c \in Clients, Return(c)
    PROVE  ClientsOK'
BY IdleOK, MovesType DEF Return

\* The queries that are left are queries.
LEMMA HeadType ==
    ASSUME ClientsOK, NEW c \in Clients, client[c].pc \in {"lookup", "fill"}
    PROVE  Head(client[c].todo) \in Keys
<1>1. client[c].todo \in Seq(Keys) /\ client[c].todo # <<>>
  BY DEF ClientsOK, ClientOK, ClientState
<1> QED BY <1>1

LEMMA AnsweredType ==
    ASSUME ClientsOK, NEW c \in Clients, client[c].pc \in {"lookup", "fill"},
           NEW value, Answered(c, value)
    PROVE  ClientsOK'
<1>1. CASE Return(c)
  BY <1>1, ReturnType
<1>2. CASE ~Return(c)
  <2> DEFINE n == [IdleClient EXCEPT !.pc = "lookup", !.todo = Tail(client[c].todo)]
  <2>1. client' = [client EXCEPT ![c] = n] /\ Len(client[c].todo) > 1
    BY <1>2 DEF Answered
  <2>2. client[c].todo \in Seq(Keys) /\ client[c].todo # <<>>
    BY DEF ClientsOK, ClientOK, ClientState
  <2>3. Tail(client[c].todo) \in Seq(Keys) /\ Tail(client[c].todo) # <<>>
    BY <2>1, <2>2
  <2>4. ClientOK(n)
    BY <2>3, IdleType DEF ClientOK, ClientState, IdleClient, PCs
  <2> HIDE DEF n
  <2> QED BY <2>1, <2>4, MovesType
<1> QED BY <1>1, <1>2

LEMMA LookupOK ==
    ASSUME ClientsOK, NEW c \in Clients, Lookup(c)
    PROVE  ClientsOK'
<1>1. PICK todo \in Lookups : Begin(c, todo)
  BY DEF Lookup
<1> DEFINE n == [client[c] EXCEPT !.pc = "lookup", !.todo = todo]
<1>2. client' = [client EXCEPT ![c] = n]
  BY <1>1 DEF Begin, ClientsOK
<1>3. client[c] \in ClientState
  BY DEF ClientsOK
<1>4. ClientOK(n)
  BY <1>3, LookupType DEF ClientOK, ClientState, PCs
<1> HIDE DEF n
<1> QED BY <1>2, <1>4, MovesType

LEMMA MissOK ==
    ASSUME TypeOK, NEW c \in Clients, Miss(c)
    PROVE  ClientsOK'
<1>0. ClientsOK
  BY TypeParts
<1>1. CASE Return(c)
  BY <1>0, <1>1, ReturnType
<1>2. CASE ~Return(c)
  <2> DEFINE n == [client[c] EXCEPT !.pc = "fill", !.value = Answer(Head(client[c].todo))]
  <2>1. client' = [client EXCEPT ![c] = n] /\ client[c].pc = "lookup"
    BY <1>0, <1>2 DEF Miss, At, ClientsOK
  <2>2. Answer(Head(client[c].todo)) \in Values
    BY <1>0, <2>1, HeadType, AnswerType
  <2>3. client[c] \in ClientState /\ client[c].todo # <<>>
    BY <1>0, <2>1 DEF ClientsOK, ClientOK
  <2>4. ClientOK(n)
    BY <2>2, <2>3 DEF ClientOK, ClientState, PCs
  <2> HIDE DEF n
  <2> QED BY <1>0, <2>1, <2>4, MovesType
<1> QED BY <1>1, <1>2

LEMMA OpType ==
    ASSUME NEW kind \in {"upsert", "delete"}, NEW row \in (Verticals \cup {None}) \X ScenarioIds,
           NEW enabled \in BOOLEAN
    PROVE  Op(kind, row, enabled) \in Ops
BY DEF Op, Ops

LEMMA StartOK ==
    ASSUME ClientsOK, NEW c \in Clients, NEW pc \in {"existing", "query"}, NEW op \in Ops,
           pc = "existing" => op.row \in Rows, Start(c, pc, op)
    PROVE  ClientsOK'
<1>1. PICK here \in BOOLEAN :
         client' = [client EXCEPT ![c].pc = pc, ![c].op = op, ![c].here = here]
  BY DEF Start
<1> DEFINE n == [client[c] EXCEPT !.pc = pc, !.op = op, !.here = here]
<1>2. client' = [client EXCEPT ![c] = n]
  BY <1>1 DEF ClientsOK
<1>3. client[c] \in ClientState
  BY DEF ClientsOK
<1>4. ClientOK(n)
  BY <1>3 DEF ClientOK, ClientState, PCs
<1> HIDE DEF n
<1> QED BY <1>2, <1>4, MovesType

LEMMA UpsertOK ==
    ASSUME ClientsOK, NEW c \in Clients, Upsert(c)
    PROVE  ClientsOK'
<1>1. PICK r \in Rows, enabled \in BOOLEAN : Start(c, "existing", Op("upsert", r, enabled))
  BY DEF Upsert
<1>2. Op("upsert", r, enabled) \in Ops /\ Op("upsert", r, enabled).row = r
  BY OpType DEF Rows, Op
<1> QED BY <1>1, <1>2, StartOK

LEMMA DeleteOK ==
    ASSUME ClientsOK, NEW c \in Clients, Delete(c)
    PROVE  ClientsOK'
<1>1. PICK id \in ScenarioIds : Start(c, "query", Op("delete", <<None, id>>, FALSE))
  BY DEF Delete
<1>2. Op("delete", <<None, id>>, FALSE) \in Ops
  BY OpType
<1> QED BY <1>1, <1>2, StartOK

\* A call moves to another point, its operation changed.
LEMMA OpMoves ==
    ASSUME ClientsOK, NEW c \in Clients, NEW pc \in {"write"}, NEW op \in Ops, op.row \in Rows,
           client' = [client EXCEPT ![c] = [client[c] EXCEPT !.pc = pc, !.op = op]]
    PROVE  ClientsOK'
<1> DEFINE n == [client[c] EXCEPT !.pc = pc, !.op = op]
<1>1. client[c] \in ClientState
  BY DEF ClientsOK
<1>2. ClientOK(n)
  BY <1>1 DEF ClientOK, ClientState, PCs
<1>3. client' = [client EXCEPT ![c] = n]
  OBVIOUS
<1> HIDE DEF n
<1> QED BY <1>2, <1>3, MovesType

LEMMA DoneOK ==
    ASSUME ClientsOK, NEW c \in Clients, Done(c)
    PROVE  ClientsOK'
<1>1. CASE Return(c)
  BY <1>1, ReturnType
<1>2. CASE ~Return(c)
  <2> DEFINE n == [client[c] EXCEPT !.pc = "invalidate"]
  <2>1. client' = [client EXCEPT ![c] = n]
    BY <1>2 DEF Done, ClientsOK
  <2>2. client[c] \in ClientState
    BY DEF ClientsOK
  <2>3. ClientOK(n)
    BY <2>2 DEF ClientOK, ClientState, PCs
  <2> HIDE DEF n
  <2> QED BY <2>1, <2>3, MovesType
<1> QED BY <1>1, <1>2

\* The operation of an upsert after it has read the record it replaces.
Informed(c) ==
    LET existing == table[client[c].op.row]
    IN  [client[c].op EXCEPT !.etag = IF existing = None THEN None ELSE existing.etag,
                             !.config_version = _bump_config_version(existing)]

LEMMA InformedType ==
    ASSUME TypeOK, NEW c \in Clients, At(c, "existing")
    PROVE  Informed(c) \in Ops /\ Informed(c).row = client[c].op.row /\ Informed(c).row \in Rows
<1> DEFINE existing == table[client[c].op.row]
           op == client[c].op
<1>1. op \in Ops /\ op.row \in Rows
  BY DEF TypeOK, At
<1>2. existing \in Record \cup {None}
  BY <1>1 DEF TypeOK
<1>3. (IF existing = None THEN None ELSE existing.etag) \in Nat \cup {None}
  BY <1>2 DEF Record
<1>4. _bump_config_version(existing) \in Nat \ {0}
  BY <1>2 DEF Record, _bump_config_version
<1> QED BY <1>1, <1>3, <1>4 DEF Informed, Ops

LEMMA ReadExistingMoves ==
    ASSUME TypeOK, NEW c \in Clients, ReadExisting(c), ~Return(c)
    PROVE  client' = [client EXCEPT ![c] = [client[c] EXCEPT !.pc = "write", !.op = Informed(c)]]
<1> DEFINE existing == table[client[c].op.row]
           e == IF existing = None THEN None ELSE existing.etag
           v == _bump_config_version(existing)
<1>1. client' = [client EXCEPT ![c].pc = "write", ![c].op.etag = e, ![c].op.config_version = v]
  BY DEF ReadExisting
<1>2. Informed(c) = [client[c].op EXCEPT !.etag = e, !.config_version = v]
  BY DEF Informed
<1>3. client \in [Clients -> ClientState] /\ client[c].op \in Ops
  BY DEF TypeOK, ReadExisting, At
<1> HIDE DEF existing, e, v
<1>4. client'[c] = [client[c] EXCEPT !.pc = "write", !.op = Informed(c)]
  BY <1>1, <1>2, <1>3 DEF ClientState, Ops
<1> QED BY <1>1, <1>3, <1>4

LEMMA ReadExistingOK ==
    ASSUME TypeOK, NEW c \in Clients, ReadExisting(c)
    PROVE  ClientsOK'
<1>1. CASE Return(c)
  BY <1>1, TypeParts, ReturnType
<1>2. CASE ~Return(c)
  BY <1>2, TypeParts, ReadExistingMoves, InformedType, OpMoves, Zenon DEF ReadExisting
<1> QED BY <1>1, <1>2

\* The row a deletion has found.
LEMMA FindRowMoves ==
    ASSUME TypeOK, NEW c \in Clients, FindRow(c)
    PROVE  \/ Return(c)
           \/ Done(c)
           \/ \E r \in Rows :
                 client' = [client EXCEPT ![c] =
                    [client[c] EXCEPT !.pc = "write", !.op = [client[c].op EXCEPT !.row = r]]]
<1> SUFFICES ASSUME ~Return(c), ~Done(c)
             PROVE  \E r \in Rows :
                 client' = [client EXCEPT ![c] =
                    [client[c] EXCEPT !.pc = "write", !.op = [client[c].op EXCEPT !.row = r]]]
  BY Zenon
<1> DEFINE r == FirstMatch(client[c].op.row[2])
<1>1. r # None /\ client' = [client EXCEPT ![c].pc = "write", ![c].op.row = r]
  BY DEF FindRow
<1>2. r \in Rows
  BY <1>1, FirstMatchType DEF Stored
<1> HIDE DEF r
<1>3. client' = [client EXCEPT ![c] =
                    [client[c] EXCEPT !.pc = "write", !.op = [client[c].op EXCEPT !.row = r]]]
  BY <1>1 DEF TypeOK, ClientState
<1> QED BY <1>2, <1>3

LEMMA FindRowOK ==
    ASSUME TypeOK, NEW c \in Clients, FindRow(c)
    PROVE  ClientsOK'
<1>1. CASE Return(c)
  BY <1>1, TypeParts, ReturnType
<1>2. CASE Done(c)
  BY <1>2, TypeParts, DoneOK
<1>3. ASSUME NEW r \in Rows,
             client' = [client EXCEPT ![c] =
                [client[c] EXCEPT !.pc = "write", !.op = [client[c].op EXCEPT !.row = r]]]
      PROVE  ClientsOK'
  <2> DEFINE op == [client[c].op EXCEPT !.row = r]
  <2>1. client[c].op \in Ops
    BY DEF TypeOK, FindRow, At
  <2>2. op \in Ops /\ op.row \in Rows
    BY <2>1 DEF Ops, Rows
  <2> QED BY <1>3, <2>2, TypeParts, OpMoves
<1> QED BY <1>1, <1>2, <1>3, FindRowMoves, Zenon

\* The effect of a write on the table.
LEMMA ApplyType ==
    ASSUME TypeOK, NEW op \in Ops, op.row \in Rows, Apply(op)
    PROVE  table' \in [Rows -> Record \cup {None}] /\ etag' \in Nat
<1>1. [config_version |-> op.config_version, enabled |-> op.enabled, etag |-> etag + 1] \in Record
  BY DEF Ops, Record, TypeOK
<1> QED BY <1>1 DEF Apply, TypeOK

LEMMA WriteOK ==
    ASSUME TypeOK, NEW c \in Clients, Write(c)
    PROVE  ClientsOK' /\ table' \in [Rows -> Record \cup {None}] /\ etag' \in Nat
           /\ foreign' \in BOOLEAN
<1>1. client[c].op \in Ops /\ client[c].op.row \in Rows
  BY DEF TypeOK, Write, At
<1>2. CASE /\ Apply(client[c].op)
           /\ foreign' = (foreign \/ ~client[c].here)
           /\ Done(c)
  BY <1>1, <1>2, ApplyType, TypeParts, DoneOK
<1>3. CASE Return(c) /\ UNCHANGED tableVars
  BY <1>3, TypeParts, ReturnType DEF tableVars, TypeOK
<1> QED BY <1>2, <1>3 DEF Write

LEMMA TimesOutOK ==
    ASSUME TypeOK, NEW c \in Clients, WriteTimesOut(c)
    PROVE  ClientsOK' /\ late' \subseteq {op \in Ops : op.row \in Rows}
           /\ timeouts' \in 0 .. MaxTimeouts
<1>0. client[c].op \in Ops /\ client[c].op.row \in Rows /\ client[c] \in ClientState
  BY DEF TypeOK, WriteTimesOut, At
<1>1. ClientsOK'
  <2>1. CASE Return(c)
    BY <2>1, TypeParts, ReturnType
  <2>2. CASE ~Return(c)
    <3> DEFINE k == client[c].attempt + 1
               n == [client[c] EXCEPT !.attempt = k]
    <3>1. client' = [client EXCEPT ![c] = n] /\ k < MaxAttempts
      BY <2>2 DEF WriteTimesOut, TypeOK
    <3>a. client[c].attempt \in 0 .. MaxAttempts - 1
      BY <1>0 DEF ClientState
    <3>b. k \in 0 .. MaxAttempts - 1
      BY <3>1, <3>a, StoreAssumption
    <3> HIDE DEF k
    <3>2. n \in ClientState
      BY <1>0, <3>b DEF ClientState
    <3>3. n.pc = client[c].pc /\ n.op = client[c].op /\ client[c].pc = "write"
      BY <1>0 DEF ClientState, WriteTimesOut, At
    <3>4. ClientOK(n)
      BY <1>0, <3>2, <3>3 DEF ClientOK
    <3> HIDE DEF n
    <3> QED BY <3>1, <3>4, TypeParts, MovesType
  <2> QED BY <2>1, <2>2
<1>2. late' \subseteq {op \in Ops : op.row \in Rows}
  BY <1>0 DEF WriteTimesOut, TypeOK
<1>3. timeouts' \in 0 .. MaxTimeouts
  BY StoreAssumption DEF WriteTimesOut, TypeOK
<1> QED BY <1>1, <1>2, <1>3

LEMMA InvalidateOK ==
    ASSUME TypeOK, NEW c \in Clients, Invalidate(c)
    PROVE  ClientsOK' /\ cache' \in [Keys -> CacheEntry \cup {None}]
<1>1. ASSUME NEW d \in Clients PROVE ClientOK(client'[d])
  <2>1. ClientOK(client[d]) /\ client[d] \in ClientState
    BY TypeParts DEF ClientsOK
  <2>2. ClientOK([client[d] EXCEPT !.raced = TRUE])
    BY <2>1 DEF ClientOK, ClientState
  <2>3. client'[d] \in {IdleClient, [client[d] EXCEPT !.raced = TRUE], client[d]}
    BY DEF Invalidate
  <2> QED BY <2>1, <2>2, <2>3, IdleOK
<1>2. client' \in [Clients -> ClientState]
  <2>1. client' = [d \in Clients |-> client'[d]]
    BY DEF Invalidate
  <2> QED BY <1>1, <2>1 DEF ClientOK
<1> QED BY <1>1, <1>2 DEF Invalidate, ClientsOK, ClientOK

LEMMA FillOK ==
    ASSUME TypeOK, NEW c \in Clients, Fill(c)
    PROVE  ClientsOK' /\ cache' \in [Keys -> CacheEntry \cup {None}]
<1>1. client[c].pc = "fill" /\ client[c] \in ClientState
  BY DEF Fill, At, TypeOK
<1>2. [value |-> client[c].value, age |-> 0, stale |-> client[c].stale,
       raced |-> client[c].raced] \in CacheEntry
  BY <1>1 DEF ClientState, CacheEntry
<1>3. Head(client[c].todo) \in Keys
  BY <1>1, TypeParts, HeadType
<1> QED BY <1>1, <1>2, <1>3, TypeParts, AnsweredType DEF Fill, TypeOK

\* Time passes over a cached entry and over an answer about to be cached.
LEMMA AgedType ==
    ASSUME NEW entry \in CacheEntry, NEW key
    PROVE  /\ Aged(entry, key) \in CacheEntry \cup {None}
           /\ Aged(entry, key) # None =>
                 /\ Aged(entry, key).value = entry.value
                 /\ Aged(entry, key).raced = entry.raced
                 /\ Aged(entry, key).age = entry.age + 1
                 /\ Aged(entry, key).age < TTL
                 /\ Aged(entry, key).stale <= entry.stale + 1
<1> DEFINE a == entry.age + 1
           s == StaleFor(entry, key)
           older == [entry EXCEPT !.age = a, !.stale = s]
<1>1. entry.age \in Nat /\ entry.stale \in Nat
  BY DEF CacheEntry
<1>2. a \in Nat /\ s \in Nat /\ s <= entry.stale + 1
  BY <1>1 DEF StaleFor
<1>3. Aged(entry, key) = IF older.age >= TTL THEN None ELSE older
  BY DEF Aged, _is_expired
<1> HIDE DEF a, s
<1>4. /\ older \in CacheEntry
      /\ older.value = entry.value /\ older.raced = entry.raced
      /\ older.age = a /\ older.stale = s
  BY <1>2 DEF CacheEntry
<1> HIDE DEF older
<1>5. a = entry.age + 1
  BY DEF a
<1> QED BY <1>1, <1>2, <1>3, <1>4, <1>5, StoreAssumption

LEMMA TickedClient ==
    ASSUME TypeOK, Tick, NEW c \in Clients
    PROVE  /\ ClientOK(client'[c])
           /\ client'[c].pc = client[c].pc /\ client'[c].op = client[c].op
           /\ client'[c].todo = client[c].todo /\ client'[c].value = client[c].value
           /\ client'[c].raced = client[c].raced
           /\ ~At(c, "fill") => client'[c] = client[c]
           /\ At(c, "fill") => /\ client'[c].waited = client[c].waited + 1
                               /\ client'[c].stale <= client[c].stale + 1
<1>1. client[c] \in ClientState /\ ClientOK(client[c])
  BY TypeParts DEF ClientsOK
<1>2. CASE ~At(c, "fill")
  <2>1. client'[c] = client[c]
    BY <1>2, Zenon DEF Tick
  <2> QED BY <1>1, <1>2, <2>1
<1>3. CASE At(c, "fill")
  <2> DEFINE s == StaleFor(client[c], Head(client[c].todo))
             k == client[c].waited + 1
             n == [client[c] EXCEPT !.waited = k, !.stale = s]
  <2>1. client'[c] = n
    BY <1>3, Zenon DEF Tick
  <2>a. client[c].waited \in Nat /\ client[c].stale \in Nat
    BY <1>1 DEF ClientState
  <2>2. s \in Nat /\ s <= client[c].stale + 1 /\ k \in Nat
    BY <2>a DEF StaleFor
  <2>b. k = client[c].waited + 1
    OBVIOUS
  <2> HIDE DEF s, k
  <2>3. /\ n \in ClientState /\ n.pc = client[c].pc /\ n.op = client[c].op
        /\ n.todo = client[c].todo /\ n.value = client[c].value /\ n.raced = client[c].raced
        /\ n.waited = k /\ n.stale = s
    BY <1>1, <2>2 DEF ClientState
  <2> HIDE DEF n
  <2>4. ClientOK(n)
    BY <1>1, <2>3 DEF ClientOK
  <2> QED BY <1>3, <2>1, <2>2, <2>b, <2>3, <2>4
<1> QED BY <1>2, <1>3

LEMMA TickOK ==
    ASSUME TypeOK, Tick
    PROVE  ClientsOK' /\ cache' \in [Keys -> CacheEntry \cup {None}]
<1>1. ClientsOK'
  <2>1. client' = [c \in Clients |-> client'[c]]
    BY Zenon DEF Tick
  <2> QED BY <2>1, TickedClient DEF ClientsOK, ClientOK
<1>2. ASSUME NEW key \in Keys PROVE cache'[key] \in CacheEntry \cup {None}
  BY AgedType, Zenon DEF Tick, Cached, TypeOK
<1>3. cache' = [key \in Keys |-> cache'[key]]
  BY Zenon DEF Tick
<1> QED BY <1>1, <1>2, <1>3

LEMMA InitTypeOK == Init => TypeOK
<1> SUFFICES ASSUME Init PROVE TypeOK
  OBVIOUS
<1>1. FirstRecord \in Record
  BY DEF FirstRecord, Record
<1>2. table \in [Rows -> Record \cup {None}]
  BY <1>1 DEF Init
<1>3. client \in [Clients -> ClientState] /\ \A c \in Clients : client[c].pc = "idle"
  BY IdleType DEF Init, IdleClient
<1>4. cache \in [Keys -> CacheEntry \cup {None}]
  BY DEF Init
<1>5. writes \in 0 .. MaxWrites /\ timeouts \in 0 .. MaxTimeouts /\ etag \in Nat
  BY StoreAssumption DEF Init
<1> QED BY <1>2, <1>3, <1>4, <1>5 DEF Init, TypeOK

LEMMA TypeFromParts ==
    ASSUME TypeOK, ClientsOK',
           table' \in [Rows -> Record \cup {None}], etag' \in Nat,
           cache' \in [Keys -> CacheEntry \cup {None}],
           late' \subseteq {op \in Ops : op.row \in Rows},
           writes' \in 0 .. MaxWrites, timeouts' \in 0 .. MaxTimeouts, foreign' \in BOOLEAN
    PROVE  TypeOK'
BY DEF TypeOK, ClientsOK, ClientOK

LEMMA NextTypeOK == TypeOK /\ [Next]_vars => TypeOK'
<1> SUFFICES ASSUME TypeOK, [Next]_vars PROVE TypeOK'
  OBVIOUS
<1> USE DEF tableVars, boundVars
<1>0. /\ table \in [Rows -> Record \cup {None}] /\ etag \in Nat
      /\ cache \in [Keys -> CacheEntry \cup {None}]
      /\ late \subseteq {op \in Ops : op.row \in Rows}
      /\ writes \in 0 .. MaxWrites /\ timeouts \in 0 .. MaxTimeouts /\ foreign \in BOOLEAN
      /\ ClientsOK
  BY TypeParts DEF TypeOK
<1>1. ASSUME NEW c \in Clients, Lookup(c) PROVE TypeOK'
  BY <1>0, <1>1, LookupOK, TypeFromParts DEF Lookup, Begin
<1>2. ASSUME NEW c \in Clients, Hit(c) PROVE TypeOK'
  BY <1>0, <1>2, AnsweredType, TypeFromParts DEF Hit, At
<1>3. ASSUME NEW c \in Clients, Miss(c) PROVE TypeOK'
  BY <1>0, <1>3, MissOK, TypeFromParts DEF Miss
<1>4. ASSUME NEW c \in Clients, Fill(c) PROVE TypeOK'
  BY <1>0, <1>4, FillOK, TypeFromParts DEF Fill
<1>5. ASSUME NEW c \in Clients, Upsert(c) PROVE TypeOK'
  <2>1. writes' \in 0 .. MaxWrites /\ UNCHANGED <<tableVars, cache, late, timeouts>>
    BY <1>0, <1>5, StoreAssumption DEF Upsert, Start
  <2> QED BY <1>0, <1>5, <2>1, UpsertOK, TypeFromParts
<1>6. ASSUME NEW c \in Clients, Delete(c) PROVE TypeOK'
  <2>1. writes' \in 0 .. MaxWrites /\ UNCHANGED <<tableVars, cache, late, timeouts>>
    BY <1>0, <1>6, StoreAssumption DEF Delete, Start
  <2> QED BY <1>0, <1>6, <2>1, DeleteOK, TypeFromParts
<1>7. ASSUME NEW c \in Clients, ReadExisting(c) PROVE TypeOK'
  BY <1>0, <1>7, ReadExistingOK, TypeFromParts, Zenon DEF ReadExisting
<1>8. ASSUME NEW c \in Clients, FindRow(c) PROVE TypeOK'
  BY <1>0, <1>8, FindRowOK, TypeFromParts DEF FindRow
<1>9. ASSUME NEW c \in Clients, Write(c) PROVE TypeOK'
  BY <1>0, <1>9, WriteOK, TypeFromParts DEF Write
<1>10. ASSUME NEW c \in Clients, WriteTimesOut(c) PROVE TypeOK'
  BY <1>0, <1>10, TimesOutOK, TypeFromParts DEF WriteTimesOut
<1>11. ASSUME NEW c \in Clients, Invalidate(c) PROVE TypeOK'
  BY <1>0, <1>11, InvalidateOK, TypeFromParts DEF Invalidate
<1>12. ASSUME NEW op \in late, Lands(op) PROVE TypeOK'
  <2>1. op \in Ops /\ op.row \in Rows /\ late' \subseteq late
    BY <1>0, <1>12 DEF Lands
  <2>2. table' \in [Rows -> Record \cup {None}] /\ etag' \in Nat /\ foreign' \in BOOLEAN
    BY <1>0, <1>12, <2>1, ApplyType DEF Lands
  <2>3. UNCHANGED <<cache, client, boundVars>>
    BY <1>12 DEF Lands
  <2>4. ClientsOK'
    BY <1>0, <2>3 DEF ClientsOK
  <2> QED BY <1>0, <2>1, <2>2, <2>3, <2>4, TypeFromParts
<1>13. CASE Tick
  BY <1>0, <1>13, TickOK, TypeFromParts, Zenon DEF Tick
<1>14. CASE UNCHANGED vars
  <2>1. ClientsOK'
    BY <1>0, <1>14 DEF ClientsOK, vars
  <2> QED BY <1>0, <1>14, <2>1, TypeFromParts DEF vars
<1> QED BY <1>1, <1>2, <1>3, <1>4, <1>5, <1>6, <1>7, <1>8, <1>9, <1>10, <1>11, <1>12, <1>13,
           <1>14 DEF Next, Read, Edit, Clients

\* A call in progress knows what it is about and no backend call outlives
\* its attempts, whatever fails, times out or interleaves.
THEOREM TypeCorrect == Spec => []TypeOK
BY InitTypeOK, NextTypeOK, PTL DEF Spec

-----------------------------------------------------------------------------
(* The steps of a caller, as far as the invariants need them *)

\* A call that holds no backend answer.
Bare(n) == n.pc # "fill" /\ n.waited = 0 /\ n.stale = 0

\* A step of caller c, the invalidation apart, concerns no other caller and
\* leaves c without an answer, or with the one the table has just given.
Moved(c) ==
    /\ client[c].pc # "invalidate"
    /\ \A d \in Clients : d # c => client'[d] = client[d]
    /\ \/ /\ client[c].pc # "fill" /\ client'[c].pc # "fill"
          /\ client'[c].waited = client[c].waited /\ client'[c].stale = client[c].stale
       \/ Bare(client'[c])
       \/ /\ client[c].pc = "lookup" /\ client'[c].pc = "fill"
          /\ client'[c].todo = client[c].todo
          /\ client'[c].value = Answer(Head(client[c].todo))
          /\ client'[c].waited = client[c].waited /\ client'[c].stale = client[c].stale
          /\ UNCHANGED <<table, cache>>

LEMMA ReturnMoves ==
    ASSUME ClientsOK, NEW c \in Clients, Return(c), client[c].pc # "invalidate"
    PROVE  Moved(c)
<1>1. Bare(IdleClient)
  BY DEF Bare, IdleClient
<1> QED BY <1>1 DEF Return, Moved, ClientsOK

LEMMA AnsweredMoves ==
    ASSUME ClientsOK, NEW c \in Clients, NEW value, Answered(c, value),
           client[c].pc # "invalidate"
    PROVE  Moved(c)
<1>1. CASE Return(c)
  BY <1>1, ReturnMoves
<1>2. CASE ~Return(c)
  <2> DEFINE n == [IdleClient EXCEPT !.pc = "lookup", !.todo = Tail(client[c].todo)]
  <2>1. client' = [client EXCEPT ![c] = n]
    BY <1>2 DEF Answered
  <2>2. Bare(n)
    BY DEF Bare, IdleClient
  <2> HIDE DEF n
  <2> QED BY <2>1, <2>2 DEF Moved, ClientsOK
<1> QED BY <1>1, <1>2

\* A step that changes neither the answer nor its age.
LEMMA PlainMoves ==
    ASSUME ClientsOK, NEW c \in Clients, client[c].pc # "invalidate", NEW n,
           n.pc # "fill", n.waited = client[c].waited, n.stale = client[c].stale,
           client[c].pc # "fill", client' = [client EXCEPT ![c] = n]
    PROVE  Moved(c)
<1>1. client'[c] = n /\ \A d \in Clients : d # c => client'[d] = client[d]
  BY DEF ClientsOK
<1> QED BY <1>1 DEF Moved

LEMMA DoneMoves ==
    ASSUME ClientsOK, NEW c \in Clients, Done(c), client[c].pc \notin {"fill", "invalidate"}
    PROVE  Moved(c)
<1>1. CASE Return(c)
  BY <1>1, ReturnMoves
<1>2. CASE ~Return(c)
  <2> DEFINE n == [client[c] EXCEPT !.pc = "invalidate"]
  <2>1. client' = [client EXCEPT ![c] = n]
    BY <1>2 DEF Done, ClientsOK
  <2>2. n.pc # "fill" /\ n.waited = client[c].waited /\ n.stale = client[c].stale
    BY DEF ClientsOK, ClientState
  <2> HIDE DEF n
  <2> QED BY <2>1, <2>2, PlainMoves
<1> QED BY <1>1, <1>2

LEMMA StartMoves ==
    ASSUME ClientsOK, NEW c \in Clients, NEW pc \in {"existing", "query"}, NEW op,
           Start(c, pc, op)
    PROVE  Moved(c)
<1>1. PICK here \in BOOLEAN :
         client' = [client EXCEPT ![c].pc = pc, ![c].op = op, ![c].here = here]
  BY DEF Start
<1> DEFINE n == [client[c] EXCEPT !.pc = pc, !.op = op, !.here = here]
<1>2. client' = [client EXCEPT ![c] = n]
  BY <1>1 DEF ClientsOK
<1>3. n.pc # "fill" /\ n.waited = client[c].waited /\ n.stale = client[c].stale
  BY DEF ClientsOK, ClientState
<1> HIDE DEF n
<1> QED BY <1>2, <1>3, PlainMoves DEF Start, At

\* A call moves on to its write.
LEMMA WriteMoves ==
    ASSUME ClientsOK, NEW c \in Clients, client[c].pc \notin {"fill", "invalidate"}, NEW op,
           client' = [client EXCEPT ![c] = [client[c] EXCEPT !.pc = "write", !.op = op]]
    PROVE  Moved(c)
<1> DEFINE n == [client[c] EXCEPT !.pc = "write", !.op = op]
<1>1. n.pc # "fill" /\ n.waited = client[c].waited /\ n.stale = client[c].stale
  BY DEF ClientsOK, ClientState
<1>2. client' = [client EXCEPT ![c] = n]
  OBVIOUS
<1> HIDE DEF n
<1> QED BY <1>1, <1>2, PlainMoves

LEMMA StepMoves ==
    ASSUME TypeOK, NEW c \in Clients, Read(c) \/ Edit(c), ~Invalidate(c)
    PROVE  Moved(c)
<1>0. ClientsOK
  BY TypeParts
<1>1. CASE Lookup(c)
  <2>1. PICK todo \in Lookups : Begin(c, todo)
    BY <1>1 DEF Lookup
  <2> DEFINE n == [client[c] EXCEPT !.pc = "lookup", !.todo = todo]
  <2>2. client' = [client EXCEPT ![c] = n] /\ client[c].pc = "idle"
    BY <1>0, <2>1 DEF Begin, At, ClientsOK
  <2>3. n.pc # "fill" /\ n.waited = client[c].waited /\ n.stale = client[c].stale
    BY <1>0 DEF ClientsOK, ClientState
  <2> HIDE DEF n
  <2> QED BY <1>0, <2>2, <2>3, PlainMoves
<1>2. CASE Hit(c) \/ Fill(c)
  BY <1>0, <1>2, AnsweredMoves DEF Hit, Fill, At
<1>3. CASE Miss(c)
  <2>1. CASE Return(c)
    BY <1>0, <1>3, <2>1, ReturnMoves DEF Miss, At
  <2>2. CASE ~Return(c)
    <3> DEFINE v == Answer(Head(client[c].todo))
               n == [client[c] EXCEPT !.pc = "fill", !.value = v]
    <3>1. /\ client' = [client EXCEPT ![c] = n] /\ client[c].pc = "lookup"
          /\ UNCHANGED <<table, cache>>
      BY <1>0, <1>3, <2>2 DEF Miss, At, ClientsOK, tableVars
    <3> HIDE DEF v
    <3>2. /\ n.pc = "fill" /\ n.waited = client[c].waited /\ n.stale = client[c].stale
          /\ n.todo = client[c].todo /\ n.value = v
      BY <1>0 DEF ClientsOK, ClientState
    <3>3. client'[c] = n /\ \A d \in Clients : d # c => client'[d] = client[d]
      BY <1>0, <3>1 DEF ClientsOK
    <3>4. v = Answer(Head(client[c].todo))
      BY DEF v
    <3> HIDE DEF n
    <3> QED BY <3>1, <3>2, <3>3, <3>4 DEF Moved
  <2> QED BY <2>1, <2>2
<1>4. CASE Upsert(c) \/ Delete(c)
  BY <1>0, <1>4, StartMoves DEF Upsert, Delete
<1>5. CASE ReadExisting(c)
  BY <1>0, <1>5, ReadExistingMoves, ReturnMoves, WriteMoves, Zenon DEF ReadExisting, At
<1>6. CASE FindRow(c)
  BY <1>0, <1>6, FindRowMoves, ReturnMoves, DoneMoves, WriteMoves, Zenon DEF FindRow, At
<1>7. CASE Write(c)
  BY <1>0, <1>7, ReturnMoves, DoneMoves DEF Write, At
<1>8. CASE WriteTimesOut(c)
  <2>1. CASE Return(c)
    BY <1>0, <1>8, <2>1, ReturnMoves DEF WriteTimesOut, At
  <2>2. CASE ~Return(c)
    <3> DEFINE k == client[c].attempt + 1
               n == [client[c] EXCEPT !.attempt = k]
    <3>1. client' = [client EXCEPT ![c] = n] /\ client[c].pc = "write"
      BY <1>8, <2>2 DEF WriteTimesOut, At, TypeOK
    <3> HIDE DEF k
    <3>2. n.pc = client[c].pc /\ n.waited = client[c].waited /\ n.stale = client[c].stale
      BY <1>0 DEF ClientsOK, ClientState
    <3> HIDE DEF n
    <3> QED BY <1>0, <3>1, <3>2, PlainMoves
  <2> QED BY <2>1, <2>2
<1> QED BY <1>1, <1>2, <1>3, <1>4, <1>5, <1>6, <1>7, <1>8 DEF Read, Edit

LEMMA CacheKept ==
    ASSUME NEW c, Read(c) \/ Edit(c), ~Invalidate(c), ~Fill(c)
    PROVE  UNCHANGED cache
BY Zenon DEF Read, Edit, Lookup, Begin, Hit, Miss, Upsert, Delete, Start, ReadExisting, FindRow,
       Write, WriteTimesOut

-----------------------------------------------------------------------------
(* Freshness *)

BoundedClient(n) ==
    IF n.pc = "fill" THEN n.stale <= n.waited /\ n.waited <= FillDelay
    ELSE n.waited = 0 /\ n.stale = 0

\* An answer about to be cached has differed from the table for no longer
\* than it has waited, a cached one for no longer than that and its age.
Bounded ==
    /\ \A c \in Clients : BoundedClient(client[c])
    /\ \A key \in Keys : Cached(key) =>
          cache[key].stale <= cache[key].age + FillDelay /\ cache[key].age < TTL

LEMMA InitBounded == Init => Bounded
BY DEF Init, Bounded, BoundedClient, IdleClient, Cached

LEMMA MovedBounded ==
    ASSUME TypeOK, Bounded, NEW c \in Clients, Moved(c)
    PROVE  \A d \in Clients : BoundedClient(client'[d])
<1>1. ASSUME NEW d \in Clients, d # c PROVE BoundedClient(client'[d])
  BY <1>1 DEF Moved, Bounded
<1>2. BoundedClient(client[c])
  BY DEF Bounded
<1>3. BoundedClient(client'[c])
  BY <1>2, StoreAssumption DEF Moved, BoundedClient, Bare
<1> QED BY <1>1, <1>3

LEMMA FillBounded ==
    ASSUME TypeOK, Bounded, NEW c \in Clients, Fill(c)
    PROVE  Bounded'
<1>0. ClientsOK
  BY TypeParts
<1> DEFINE h == Head(client[c].todo)
           e == [value |-> client[c].value, age |-> 0, stale |-> client[c].stale,
                 raced |-> client[c].raced]
<1>1. cache' = [cache EXCEPT ![h] = e] /\ client[c].pc = "fill"
  BY DEF Fill, At
<1>2. e.age = 0 /\ e.stale = client[c].stale
  OBVIOUS
<1>3. client[c].stale <= client[c].waited /\ client[c].waited <= FillDelay
      /\ client[c].stale \in Nat /\ client[c].waited \in Nat
  BY <1>0, <1>1 DEF Bounded, BoundedClient, ClientsOK, ClientState
<1>4. e.stale <= e.age + FillDelay /\ e.age < TTL
  BY <1>2, <1>3, StoreAssumption
<1> HIDE DEF e, h
<1>5. ASSUME NEW key \in Keys, cache'[key] # None
      PROVE  cache'[key].stale <= cache'[key].age + FillDelay /\ cache'[key].age < TTL
  BY <1>1, <1>4, <1>5 DEF Bounded, Cached, TypeOK
<1>6. Moved(c)
  BY StepMoves DEF Read, Fill, At, Invalidate
<1> QED BY <1>5, <1>6, MovedBounded DEF Bounded, BoundedClient, Cached

LEMMA TickBounded ==
    ASSUME TypeOK, Bounded, Tick
    PROVE  Bounded'
<1>1. ASSUME NEW c \in Clients PROVE BoundedClient(client'[c])
  <2>1. BoundedClient(client[c]) /\ client[c].waited \in Nat /\ client[c].stale \in Nat
    BY DEF Bounded, TypeOK, ClientState
  <2>2. ClientOK(client'[c]) /\ client'[c].pc = client[c].pc
    BY TickedClient
  <2>3. client'[c].waited \in Nat /\ client'[c].stale \in Nat
    BY <2>2 DEF ClientOK, ClientState
  <2>4. CASE At(c, "fill")
    <3>1. client'[c].waited = client[c].waited + 1 /\ client'[c].stale <= client[c].stale + 1
      BY <2>4, TickedClient
    <3>2. client[c].waited < FillDelay
      BY <2>4, Zenon DEF Tick
    <3> QED BY <2>1, <2>2, <2>3, <2>4, <3>1, <3>2, StoreAssumption DEF BoundedClient, At
  <2>5. CASE ~At(c, "fill")
    BY <2>1, <2>5, TickedClient
  <2> QED BY <2>4, <2>5
<1>2. ASSUME NEW key \in Keys, cache'[key] # None
      PROVE  cache'[key].stale <= cache'[key].age + FillDelay /\ cache'[key].age < TTL
  <2> DEFINE e == cache[key]
             f == Aged(e, key)
  <2>1. e # None /\ cache'[key] = f /\ f # None
    BY <1>2, Zenon DEF Tick, Cached
  <2>2. e \in CacheEntry /\ e.stale <= e.age + FillDelay
    BY <2>1 DEF Bounded, Cached, TypeOK
  <2>3. f \in CacheEntry /\ f.age = e.age + 1 /\ f.age < TTL /\ f.stale <= e.stale + 1
    BY <2>1, <2>2, AgedType
  <2>4. e.stale \in Nat /\ e.age \in Nat /\ f.stale \in Nat /\ f.age \in Nat
    BY <2>2, <2>3 DEF CacheEntry
  <2> HIDE DEF e, f
  <2> QED BY <2>1, <2>2, <2>3, <2>4, StoreAssumption
<1> QED BY <1>1, <1>2 DEF Bounded, BoundedClient, Cached

LEMMA NextBounded == TypeOK /\ Bounded /\ [Next]_vars => Bounded'
<1> SUFFICES ASSUME TypeOK, Bounded, [Next]_vars PROVE Bounded'
  OBVIOUS
<1>1. ASSUME NEW c \in Clients, Read(c) \/ Edit(c) PROVE Bounded'
  <2>1. CASE Invalidate(c)
    <3>1. ASSUME NEW d \in Clients PROVE BoundedClient(client'[d])
      <4>1. BoundedClient(client[d]) /\ client[d] \in ClientState
        BY DEF Bounded, TypeOK
      <4>2. BoundedClient([client[d] EXCEPT !.raced = TRUE])
        BY <4>1 DEF BoundedClient, ClientState
      <4>3. BoundedClient(IdleClient)
        BY DEF BoundedClient, IdleClient
      <4> QED BY <2>1, <4>1, <4>2, <4>3 DEF Invalidate
    <3> QED BY <2>1, <3>1 DEF Invalidate, Bounded, BoundedClient, Cached
  <2>2. CASE Fill(c)
    BY <2>2, FillBounded
  <2>3. CASE ~Invalidate(c) /\ ~Fill(c)
    BY <1>1, <2>3, StepMoves, MovedBounded, CacheKept DEF Bounded, BoundedClient, Cached
  <2> QED BY <2>1, <2>2, <2>3
<1>2. ASSUME NEW op \in late, Lands(op) PROVE Bounded'
  BY <1>2 DEF Lands, Bounded, BoundedClient, Cached
<1>3. CASE Tick
  BY <1>3, TickBounded
<1>4. CASE UNCHANGED vars
  BY <1>4 DEF vars, Bounded, BoundedClient, Cached
<1> QED BY <1>1, <1>2, <1>3, <1>4 DEF Next, Clients

\* Whatever the cache serves was the table's answer less than
\* TTL + FillDelay ticks ago, for any number of processes that edit the table.
THEOREM Fresh == Spec => []FreshWithin
<1>1. TypeOK /\ Bounded => FreshWithin
  <2> SUFFICES ASSUME TypeOK, Bounded, NEW key \in Keys, Cached(key)
               PROVE  cache[key].stale < TTL + FillDelay
    BY DEF FreshWithin
  <2>1. cache[key].stale \in Nat /\ cache[key].age \in Nat
    BY DEF TypeOK, Cached, CacheEntry
  <2> QED BY <2>1, StoreAssumption DEF Bounded
<1> QED BY <1>1, TypeCorrect, InitBounded, NextBounded, PTL DEF Spec

-----------------------------------------------------------------------------
(* Optimistic concurrency *)

\* The write requests that may reach the table.
Pending == {client[c].op : c \in {d \in Clients : At(d, "write")}} \cup late

\* A request that would still replace the stored record is the edit of it.
Informs(op) ==
    op.etag # None =>
       /\ op.etag <= etag
       /\ table[op.row] # None /\ table[op.row].etag = op.etag =>
             op.config_version = table[op.row].config_version + 1

\* No stored ETag is newer than the last one handed out; a deletion has none.
Guarded ==
    /\ \A r \in Rows : table[r] # None => table[r].etag <= etag
    /\ \A op \in Pending : Informs(op)
    /\ \A c \in Clients : At(c, "query") => client[c].op.etag = None

LEMMA InitGuarded == Init => Guarded
BY DEF Init, Guarded, FirstRecord, Pending, At, IdleClient

LEMMA PendingType ==
    ASSUME TypeOK, NEW op \in Pending
    PROVE  op \in Ops /\ op.row \in Rows
BY DEF TypeOK, Pending, At

\* A write that lands: requests that were pending stay guarded.
LEMMA ApplyGuarded ==
    ASSUME TypeOK, Guarded, NEW op \in Pending, Apply(op)
    PROVE  /\ \A r \in Rows : table'[r] # None => table'[r].etag <= etag'
           /\ \A p \in Pending : Informs(p)'
           /\ \A r \in Rows : table[r] # None /\ table'[r] # None /\ table'[r] # table[r] =>
                 table'[r].config_version = table[r].config_version + 1
<1> DEFINE n == [config_version |-> op.config_version, enabled |-> op.enabled, etag |-> etag + 1]
<1>1. op \in Ops /\ op.row \in Rows /\ Informs(op)
  BY PendingType DEF Guarded
<1>2. /\ table' = [table EXCEPT ![op.row] = IF op.kind = "delete" THEN None ELSE n]
      /\ etag' = IF op.kind = "delete" THEN etag ELSE etag + 1
  BY DEF Apply
<1>3. n.etag = etag + 1 /\ n.config_version = op.config_version
  OBVIOUS
<1> HIDE DEF n
<1>4. \A r \in Rows : r # op.row => table'[r] = table[r]
  BY <1>2 DEF TypeOK
<1>5. table'[op.row] = IF op.kind = "delete" THEN None ELSE n
  BY <1>1, <1>2 DEF TypeOK
<1>6. etag \in Nat /\ etag' \in Nat /\ etag <= etag'
  BY <1>2 DEF TypeOK
<1>7. \A r \in Rows : table[r] # None => table[r].etag \in Nat /\ table[r].etag <= etag
  BY DEF TypeOK, Record, Guarded
<1>8. \A r \in Rows : table'[r] # None => table'[r].etag <= etag'
  BY <1>2, <1>3, <1>4, <1>5, <1>6, <1>7
<1>9. ASSUME NEW p \in Pending PROVE Informs(p)'
  <2> SUFFICES ASSUME p.etag # None
               PROVE  /\ p.etag <= etag'
                      /\ table'[p.row] # None /\ table'[p.row].etag = p.etag =>
                            p.config_version = table'[p.row].config_version + 1
    BY DEF Informs
  <2>1. p \in Ops /\ p.row \in Rows /\ p.etag <= etag
    BY PendingType DEF Guarded, Informs
  <2>2. p.etag \in Nat
    BY <2>1 DEF Ops
  <2>3. CASE p.row = op.row
    BY <1>2, <1>3, <1>5, <1>6, <2>1, <2>2, <2>3
  <2>4. CASE p.row # op.row
    <3>1. table'[p.row] = table[p.row]
      BY <1>4, <2>1, <2>4
    <3>2. table[p.row] # None /\ table[p.row].etag = p.etag =>
             p.config_version = table[p.row].config_version + 1
      BY DEF Guarded, Informs
    <3> QED BY <1>6, <2>1, <2>2, <3>1, <3>2
  <2> QED BY <2>3, <2>4
<1>10. ASSUME NEW r \in Rows, table[r] # None, table'[r] # None, table'[r] # table[r]
       PROVE  table'[r].config_version = table[r].config_version + 1
  <2>1. r = op.row /\ op.kind # "delete" /\ table'[r] = n
    BY <1>4, <1>5, <1>10
  <2>2. op.etag # None /\ table[op.row].etag = op.etag
    BY <1>10, <2>1 DEF Apply, Applies
  <2> QED BY <1>1, <1>3, <1>10, <2>1, <2>2 DEF Informs
<1> QED BY <1>8, <1>9, <1>10

\* After a step of c its request is the one it had, or one that informs.
Issued(c) ==
    /\ client'[c].pc = "write" =>
          \/ client[c].pc = "write" /\ client'[c].op = client[c].op
          \/ Informs(client'[c].op)
    /\ client'[c].pc = "query" => client'[c].op.etag = None

LEMMA ReturnIssues ==
    ASSUME ClientsOK, NEW c \in Clients, Return(c)
    PROVE  Issued(c)
BY DEF Return, IdleClient, Issued, ClientsOK

LEMMA AnsweredIssues ==
    ASSUME ClientsOK, NEW c \in Clients, NEW value, Answered(c, value)
    PROVE  Issued(c)
<1>1. CASE Return(c)
  BY <1>1, ReturnIssues
<1>2. CASE ~Return(c)
  <2>1. client' = [client EXCEPT ![c] =
           [IdleClient EXCEPT !.pc = "lookup", !.todo = Tail(client[c].todo)]]
    BY <1>2 DEF Answered
  <2>2. client'[c].pc = "lookup"
    BY <2>1 DEF ClientsOK, IdleClient
  <2> QED BY <2>2 DEF Issued
<1> QED BY <1>1, <1>2

LEMMA DoneIssues ==
    ASSUME ClientsOK, NEW c \in Clients, Done(c)
    PROVE  Issued(c)
<1>1. CASE Return(c)
  BY <1>1, ReturnIssues
<1>2. CASE ~Return(c)
  <2>1. client' = [client EXCEPT ![c].pc = "invalidate"]
    BY <1>2 DEF Done
  <2>2. client'[c].pc = "invalidate"
    BY <2>1 DEF ClientsOK, ClientState
  <2> QED BY <2>2 DEF Issued
<1> QED BY <1>1, <1>2

LEMMA StartIssues ==
    ASSUME ClientsOK, NEW c \in Clients, NEW pc \in {"existing", "query"}, NEW op,
           op.etag = None, Start(c, pc, op)
    PROVE  Issued(c)
<1>1. PICK here \in BOOLEAN :
         client' = [client EXCEPT ![c].pc = pc, ![c].op = op, ![c].here = here]
  BY DEF Start
<1>2. client'[c].pc = pc /\ client'[c].op = op
  BY <1>1 DEF ClientsOK, ClientState
<1> QED BY <1>2 DEF Issued

LEMMA WriteIssues ==
    ASSUME ClientsOK, NEW c \in Clients, NEW op, Informs(op),
           client' = [client EXCEPT ![c] = [client[c] EXCEPT !.pc = "write", !.op = op]]
    PROVE  Issued(c)
<1>1. client'[c].pc = "write" /\ client'[c].op = op
  BY DEF ClientsOK, ClientState
<1> QED BY <1>1 DEF Issued

LEMMA InformedInforms ==
    ASSUME TypeOK, Guarded, NEW c \in Clients, At(c, "existing")
    PROVE  Informs(Informed(c))
<1> DEFINE existing == table[client[c].op.row]
           e == IF existing = None THEN None ELSE existing.etag
           v == _bump_config_version(existing)
<1>1. client[c].op \in Ops /\ client[c].op.row \in Rows
  BY DEF TypeOK, At
<1>2. Informed(c) = [client[c].op EXCEPT !.etag = e, !.config_version = v]
  BY DEF Informed
<1>3. existing # None => existing.etag <= etag /\ v = existing.config_version + 1
  BY <1>1 DEF Guarded, _bump_config_version
<1>4. e # None => existing # None /\ e = existing.etag
  OBVIOUS
<1> HIDE DEF e, v
<1>5. Informed(c).etag = e /\ Informed(c).config_version = v /\ Informed(c).row = client[c].op.row
  BY <1>1, <1>2 DEF Ops
<1> QED BY <1>3, <1>4, <1>5 DEF Informs

LEMMA StepIssues ==
    ASSUME TypeOK, Guarded, NEW c \in Clients, Read(c) \/ Edit(c), ~Invalidate(c)
    PROVE  Issued(c)
<1>0. ClientsOK
  BY TypeParts
<1>1. CASE Lookup(c)
  <2>1. PICK todo \in Lookups : Begin(c, todo)
    BY <1>1 DEF Lookup
  <2>2. client'[c].pc = "lookup"
    BY <1>0, <2>1 DEF Begin, ClientsOK, ClientState
  <2> QED BY <2>2 DEF Issued
<1>2. CASE Hit(c) \/ Fill(c)
  BY <1>0, <1>2, AnsweredIssues DEF Hit, Fill
<1>3. CASE Miss(c)
  <2>1. CASE Return(c)
    BY <1>0, <2>1, ReturnIssues
  <2>2. CASE ~Return(c)
    <3> DEFINE v == Answer(Head(client[c].todo))
    <3>1. client' = [client EXCEPT ![c].pc = "fill", ![c].value = v]
      BY <1>3, <2>2 DEF Miss
    <3> HIDE DEF v
    <3>2. client'[c].pc = "fill"
      BY <1>0, <3>1 DEF ClientsOK, ClientState
    <3> QED BY <3>2 DEF Issued
  <2> QED BY <2>1, <2>2
<1>4. CASE Upsert(c)
  <2>1. PICK r \in Rows, enabled \in BOOLEAN : Start(c, "existing", Op("upsert", r, enabled))
    BY <1>4 DEF Upsert
  <2>2. Op("upsert", r, enabled).etag = None
    BY DEF Op
  <2> QED BY <1>0, <2>1, <2>2, StartIssues
<1>5. CASE Delete(c)
  <2>1. PICK id \in ScenarioIds : Start(c, "query", Op("delete", <<None, id>>, FALSE))
    BY <1>5 DEF Delete
  <2>2. Op("delete", <<None, id>>, FALSE).etag = None
    BY DEF Op
  <2> QED BY <1>0, <2>1, <2>2, StartIssues
<1>6. CASE ReadExisting(c)
  BY <1>0, <1>6, ReadExistingMoves, ReturnIssues, WriteIssues, InformedInforms, Zenon
     DEF ReadExisting
<1>7. CASE FindRow(c)
  <2>1. CASE Return(c) \/ Done(c)
    BY <1>0, <2>1, ReturnIssues, DoneIssues
  <2>2. ASSUME NEW r \in Rows,
               client' = [client EXCEPT ![c] =
                  [client[c] EXCEPT !.pc = "write", !.op = [client[c].op EXCEPT !.row = r]]]
        PROVE  Issued(c)
    <3> DEFINE op == [client[c].op EXCEPT !.row = r]
    <3>1. client[c].op \in Ops /\ client[c].op.etag = None
      BY <1>7 DEF FindRow, At, TypeOK, Guarded
    <3>2. op.etag = None
      BY <3>1 DEF Ops
    <3> HIDE DEF op
    <3>3. Informs(op)
      BY <3>2 DEF Informs
    <3>4. client' = [client EXCEPT ![c] = [client[c] EXCEPT !.pc = "write", !.op = op]]
      BY <2>2 DEF op
    <3> QED BY <1>0, <3>3, <3>4, WriteIssues, Zenon
  <2> QED BY <1>7, <2>1, <2>2, FindRowMoves, Zenon
<1>8. CASE Write(c)
  BY <1>0, <1>8, ReturnIssues, DoneIssues DEF Write
<1>9. CASE WriteTimesOut(c)
  <2>1. CASE Return(c)
    BY <1>0, <2>1, ReturnIssues
  <2>2. CASE ~Return(c)
    <3> DEFINE k == client[c].attempt + 1
    <3>1. client' = [client EXCEPT ![c].attempt = k] /\ client[c].pc = "write"
      BY <1>9, <2>2 DEF WriteTimesOut, At
    <3> HIDE DEF k
    <3>2. client'[c].pc = "write" /\ client'[c].op = client[c].op
      BY <1>0, <3>1 DEF ClientsOK, ClientState
    <3> QED BY <3>1, <3>2 DEF Issued
  <2> QED BY <2>1, <2>2
<1> QED BY <1>1, <1>2, <1>3, <1>4, <1>5, <1>6, <1>7, <1>8, <1>9 DEF Read, Edit

\* While the table stands still, no request comes up that does not inform.
LEMMA StillGuarded ==
    ASSUME Guarded, UNCHANGED <<table, etag>>,
           \A p \in Pending' : p \in Pending \/ Informs(p),
           \A d \in Clients : client'[d].pc = "query" => client'[d].op.etag = None
    PROVE  Guarded'
<1>1. \A p : Informs(p)' <=> Informs(p)
  BY DEF Informs
<1> QED BY <1>1 DEF Guarded, At

LEMMA TableKept ==
    ASSUME NEW c, Read(c) \/ Edit(c), ~Write(c)
    PROVE  UNCHANGED <<table, etag, foreign>>
BY Zenon DEF Read, Edit, Lookup, Begin, Hit, Miss, Fill, Upsert, Delete, Start, ReadExisting, FindRow,
       WriteTimesOut, Invalidate, tableVars

LEMMA LateKept ==
    ASSUME NEW c, Read(c) \/ Edit(c), ~WriteTimesOut(c)
    PROVE  UNCHANGED late
BY Zenon DEF Read, Edit, Lookup, Begin, Hit, Miss, Fill, Upsert, Delete, Start, ReadExisting, FindRow,
       Write, Invalidate

LEMMA LatePending ==
    ASSUME NEW c \in Clients, Read(c) \/ Edit(c)
    PROVE  late' \subseteq Pending
BY LateKept DEF Pending, WriteTimesOut

LEMMA WriteEnds ==
    ASSUME ClientsOK, NEW c \in Clients, Write(c)
    PROVE  client'[c].pc = IF Return(c) THEN "idle" ELSE "invalidate"
<1>1. CASE Return(c)
  BY <1>1 DEF Return, IdleClient, ClientsOK
<1>2. CASE ~Return(c)
  <2>1. client' = [client EXCEPT ![c].pc = "invalidate"]
    BY <1>2 DEF Write, Done
  <2> QED BY <1>2, <2>1 DEF ClientsOK, ClientState
<1> QED BY <1>1, <1>2

LEMMA StepGuarded ==
    ASSUME TypeOK, Guarded, NEW c \in Clients, Read(c) \/ Edit(c), ~Invalidate(c), ~Write(c)
    PROVE  Guarded'
<1>1. Issued(c) /\ Moved(c) /\ UNCHANGED <<table, etag>> /\ late' \subseteq Pending
  BY StepIssues, StepMoves, TableKept, LatePending
<1>2. ASSUME NEW d \in Clients, client'[d].pc = "write"
      PROVE  client'[d].op \in Pending \/ Informs(client'[d].op)
  <2>1. CASE d = c
    BY <1>1, <1>2, <2>1 DEF Issued, Pending, At
  <2>2. CASE d # c
    BY <1>1, <1>2, <2>2 DEF Moved, Pending, At
  <2> QED BY <2>1, <2>2
<1>3. \A p \in Pending' : p \in Pending \/ Informs(p)
  BY <1>1, <1>2 DEF Pending, At
<1>4. \A d \in Clients : client'[d].pc = "query" => client'[d].op.etag = None
  BY <1>1 DEF Issued, Moved, Guarded, At
<1> QED BY <1>1, <1>3, <1>4, StillGuarded

LEMMA WriteGuarded ==
    ASSUME TypeOK, Guarded, NEW c \in Clients, Write(c)
    PROVE  Guarded' /\ \A r \in Rows : table[r] # None /\ table'[r] # None /\ table'[r] # table[r] =>
                          table'[r].config_version = table[r].config_version + 1
<1>1. Moved(c) /\ late' = late /\ client'[c].pc \in {"idle", "invalidate"}
  BY StepMoves, LateKept, WriteEnds, TypeParts DEF Edit, Write, WriteTimesOut, Invalidate, At
<1>2. \A d \in Clients : client'[d].pc \in {"write", "query"} => client'[d] = client[d]
  BY <1>1 DEF Moved
<1>3. \A p \in Pending' : p \in Pending
  BY <1>1, <1>2 DEF Pending, At
<1>4. \A d \in Clients : client'[d].pc = "query" => client'[d].op.etag = None
  BY <1>2 DEF Guarded, At
<1>5. CASE Apply(client[c].op)
  <2>1. client[c].op \in Pending
    BY DEF Pending, Write
  <2> QED BY <1>3, <1>4, <1>5, <2>1, ApplyGuarded DEF Guarded, At
<1>6. CASE UNCHANGED tableVars
  BY <1>3, <1>4, <1>6, StillGuarded DEF tableVars
<1> QED BY <1>5, <1>6 DEF Write

LEMMA LandsGuarded ==
    ASSUME TypeOK, Guarded, NEW op \in late, Lands(op)
    PROVE  Guarded' /\ \A r \in Rows : table[r] # None /\ table'[r] # None /\ table'[r] # table[r] =>
                          table'[r].config_version = table[r].config_version + 1
<1>1. client' = client /\ late' \subseteq late
  BY DEF Lands
<1>2. \A p \in Pending' : p \in Pending
  BY <1>1 DEF Pending, At
<1>3. \A d \in Clients : client'[d].pc = "query" => client'[d].op.etag = None
  BY <1>1 DEF Guarded, At
<1>4. CASE Apply(op)
  <2>1. op \in Pending
    BY DEF Pending
  <2> QED BY <1>2, <1>3, <1>4, <2>1, ApplyGuarded DEF Guarded, At
<1>5. CASE UNCHANGED tableVars
  BY <1>2, <1>3, <1>5, StillGuarded DEF tableVars
<1> QED BY <1>4, <1>5 DEF Lands

LEMMA NextGuarded ==
    ASSUME TypeOK, Guarded, [Next]_vars
    PROVE  Guarded' /\ \A r \in Rows : table[r] # None /\ table'[r] # None /\ table'[r] # table[r] =>
                          table'[r].config_version = table[r].config_version + 1
<1>1. ASSUME NEW c \in Clients, Read(c) \/ Edit(c), ~Write(c), ~Invalidate(c)
      PROVE  Guarded' /\ table' = table
  BY <1>1, StepGuarded, TableKept
<1>2. ASSUME NEW c \in Clients, Invalidate(c)
      PROVE  Guarded' /\ table' = table
  <2>1. UNCHANGED <<table, etag>> /\ late' = late
    BY <1>2 DEF Invalidate, tableVars
  <2>2. ASSUME NEW d \in Clients, client'[d].pc \in {"write", "query"}
        PROVE  client'[d] = client[d]
    <3>1. client'[d] \in {IdleClient, [client[d] EXCEPT !.raced = TRUE], client[d]}
          /\ (client'[d] = [client[d] EXCEPT !.raced = TRUE] => At(d, "fill") \/ client'[d] = client[d]
                 \/ client'[d] = IdleClient)
      BY <1>2 DEF Invalidate
    <3>2. IdleClient.pc = "idle"
      BY DEF IdleClient
    <3>3. [client[d] EXCEPT !.raced = TRUE].pc = client[d].pc
      BY DEF TypeOK, ClientState
    <3> QED BY <2>2, <3>1, <3>2, <3>3 DEF At
  <2>3. \A p \in Pending' : p \in Pending
    BY <2>1, <2>2 DEF Pending, At
  <2>4. \A d \in Clients : client'[d].pc = "query" => client'[d].op.etag = None
    BY <2>2 DEF Guarded, At
  <2> QED BY <2>1, <2>3, <2>4, StillGuarded
<1>3. CASE Tick
  <2>1. UNCHANGED <<table, etag>> /\ late' = late
    BY <1>3, Zenon DEF Tick, tableVars
  <2>2. \A d \in Clients : client'[d].pc = client[d].pc /\ client'[d].op = client[d].op
    BY <1>3, TickedClient
  <2>3. \A p \in Pending' : p \in Pending
    BY <2>1, <2>2 DEF Pending, At
  <2>4. \A d \in Clients : client'[d].pc = "query" => client'[d].op.etag = None
    BY <2>2 DEF Guarded, At
  <2> QED BY <2>1, <2>3, <2>4, StillGuarded
<1>4. CASE UNCHANGED vars
  <2>1. Pending' = Pending
    BY <1>4 DEF vars, Pending, At
  <2> QED BY <1>4, <2>1, StillGuarded DEF vars, Guarded, At
<1> QED BY <1>1, <1>2, <1>3, <1>4, WriteGuarded, LandsGuarded DEF Next, Clients

\* A stored scenario is only ever replaced by the edit of the record that is
\* there, for any number of editors and any timed-out requests.
THEOREM UpdatesKept == Spec => NoLostUpdate
<1> DEFINE NextVersion == \A r \in Rows :
             table[r] # None /\ table'[r] # None /\ table'[r] # table[r] =>
                table'[r].config_version = table[r].config_version + 1
<1>1. TypeOK /\ Guarded /\ [Next]_vars => Guarded' /\ [NextVersion]_vars
  BY NextGuarded
<1> HIDE DEF NextVersion
<1>2. Spec => [][NextVersion]_vars
  BY <1>1, TypeCorrect, InitGuarded, PTL DEF Spec
<1>3. NoLostUpdate <=> [][NextVersion]_vars
  BY DEF NoLostUpdate, NextVersion
<1> QED BY <1>2, <1>3

-----------------------------------------------------------------------------
(* Coherence *)

\* CoherentUnlessOvertaken together with the answers that are about to be cached.
Coherent ==
    \/ foreign
    \/ InvalidationPending
    \/ /\ \A key \in Keys : Cached(key) => cache[key].raced \/ cache[key].value = Answer(key)
       /\ \A c \in Clients : At(c, "fill") =>
             client[c].raced \/ client[c].value = Answer(Head(client[c].todo))

LEMMA InitCoherent == Init => Coherent
BY DEF Init, Coherent, Cached, At, IdleClient

LEMMA PendingStays ==
    ASSUME NEW c \in Clients, Moved(c), InvalidationPending
    PROVE  InvalidationPending'
BY DEF Moved, InvalidationPending, At

\* A step that leaves the table alone: what is held stays as coherent as it
\* was, what is newly held is the answer.
LEMMA MovedCoherent ==
    ASSUME TypeOK, Coherent, NEW c \in Clients, Moved(c), UNCHANGED <<table, foreign>>,
           cache' = cache \/ Fill(c)
    PROVE  Coherent'
<1> SUFFICES ASSUME ~foreign, ~InvalidationPending PROVE Coherent'
  BY PendingStays DEF Coherent
<1>0. ClientsOK
  BY TypeParts
<1>1. /\ \A key \in Keys : Cached(key) => cache[key].raced \/ cache[key].value = Answer(key)
      /\ \A d \in Clients : At(d, "fill") =>
            client[d].raced \/ client[d].value = Answer(Head(client[d].todo))
  BY DEF Coherent
<1>2. \A key : Answer(key)' = Answer(key)
  BY AnswerStays
<1>3. ASSUME NEW d \in Clients, client'[d].pc = "fill"
      PROVE  client'[d].raced \/ client'[d].value = Answer(Head(client'[d].todo))
  <2>1. CASE d = c
    BY <1>3, <2>1 DEF Moved, Bare
  <2>2. CASE d # c
    BY <1>1, <1>3, <2>2 DEF Moved, At
  <2> QED BY <2>1, <2>2
<1>4. ASSUME NEW key \in Keys, cache'[key] # None
      PROVE  cache'[key].raced \/ cache'[key].value = Answer(key)
  <2>1. CASE cache' = cache
    BY <1>1, <1>4, <2>1 DEF Cached
  <2>2. CASE Fill(c)
    <3> DEFINE e == [value |-> client[c].value, age |-> 0, stale |-> client[c].stale,
                     raced |-> client[c].raced]
    <3>1. cache' = [cache EXCEPT ![Head(client[c].todo)] = e] /\ At(c, "fill")
      BY <2>2 DEF Fill
    <3>2. e.raced = client[c].raced /\ e.value = client[c].value
      OBVIOUS
    <3> HIDE DEF e
    <3>3. CASE key = Head(client[c].todo)
      <4>1. cache'[key] = e
        BY <3>1, <3>3 DEF TypeOK
      <4> QED BY <1>1, <3>1, <3>2, <3>3, <4>1
    <3>4. CASE key # Head(client[c].todo)
      <4>1. cache'[key] = cache[key]
        BY <3>1, <3>4 DEF TypeOK
      <4> QED BY <1>1, <1>4, <4>1 DEF Cached
    <3> QED BY <3>3, <3>4
  <2> QED BY <2>1, <2>2
<1> QED BY <1>2, <1>3, <1>4 DEF Coherent, Cached, At

LEMMA WriteCoherent ==
    ASSUME TypeOK, Coherent, NEW c \in Clients, Write(c)
    PROVE  Coherent'
<1>1. Moved(c) /\ cache' = cache
  BY StepMoves, CacheKept DEF Edit, Write, Fill, Invalidate, At
<1>2. CASE foreign' = (foreign \/ ~client[c].here) /\ Done(c)
  <2>1. CASE client[c].here
    <3>1. client' = [client EXCEPT ![c].pc = "invalidate"]
      BY <1>2, <2>1 DEF Done
    <3>2. client'[c].pc = "invalidate"
      BY <3>1 DEF TypeOK, ClientState
    <3> QED BY <3>2 DEF Coherent, InvalidationPending, At
  <2>2. CASE ~client[c].here
    BY <1>2, <2>2 DEF Coherent
  <2> QED BY <2>1, <2>2
<1>3. CASE UNCHANGED tableVars
  BY <1>1, <1>3, MovedCoherent DEF tableVars
<1> QED BY <1>2, <1>3 DEF Write

LEMMA InvalidateCoherent ==
    ASSUME TypeOK, NEW c \in Clients, Invalidate(c)
    PROVE  Coherent'
<1>1. ASSUME NEW d \in Clients, client'[d].pc = "fill" PROVE client'[d].raced
  <2>1. \/ client'[d] = IdleClient
        \/ client'[d] = [client[d] EXCEPT !.raced = TRUE]
        \/ client'[d] = client[d] /\ ~At(d, "fill")
    BY DEF Invalidate
  <2>2. [client[d] EXCEPT !.raced = TRUE].raced
    BY DEF TypeOK, ClientState
  <2>3. IdleClient.pc = "idle"
    BY DEF IdleClient
  <2> QED BY <1>1, <2>1, <2>2, <2>3 DEF At
<1>2. \A key \in Keys : cache'[key] = None
  BY DEF Invalidate
<1> QED BY <1>1, <1>2 DEF Coherent, Cached, At

LEMMA TickCoherent ==
    ASSUME TypeOK, Coherent, Tick
    PROVE  Coherent'
<1>0. UNCHANGED <<table, foreign>>
  BY Zenon DEF Tick, tableVars
<1>1. ASSUME NEW d \in Clients
      PROVE  /\ client'[d].pc = client[d].pc /\ client'[d].todo = client[d].todo
             /\ client'[d].value = client[d].value /\ client'[d].raced = client[d].raced
  BY TickedClient
<1> SUFFICES ASSUME ~foreign, ~InvalidationPending PROVE Coherent'
  BY <1>0, <1>1 DEF Coherent, InvalidationPending, At
<1>2. \A key : Answer(key)' = Answer(key)
  BY <1>0, AnswerStays
<1>3. ASSUME NEW d \in Clients, client'[d].pc = "fill"
      PROVE  client'[d].raced \/ client'[d].value = Answer(Head(client'[d].todo))
  BY <1>1, <1>3 DEF Coherent, At
<1>4. ASSUME NEW key \in Keys, cache'[key] # None
      PROVE  cache'[key].raced \/ cache'[key].value = Answer(key)
  <2>1. Cached(key) /\ cache'[key] = Aged(cache[key], key) /\ cache[key] \in CacheEntry
    BY <1>4, Zenon DEF Tick, Cached, TypeOK
  <2>2. cache'[key].value = cache[key].value /\ cache'[key].raced = cache[key].raced
    BY <1>4, <2>1, AgedType
  <2>3. cache[key].raced \/ cache[key].value = Answer(key)
    BY <2>1 DEF Coherent
  <2> QED BY <2>2, <2>3
<1> QED BY <1>2, <1>3, <1>4 DEF Coherent, Cached, At

LEMMA NextCoherent == TypeOK /\ Coherent /\ [Next]_vars => Coherent'
<1> SUFFICES ASSUME TypeOK, Coherent, [Next]_vars PROVE Coherent'
  OBVIOUS
<1>1. ASSUME NEW c \in Clients, Read(c) \/ Edit(c), ~Write(c), ~Invalidate(c) PROVE Coherent'
  BY <1>1, StepMoves, TableKept, CacheKept, MovedCoherent
<1>2. ASSUME NEW op \in late, Lands(op) PROVE Coherent'
  <2>1. CASE foreign'
    BY <2>1 DEF Coherent
  <2>2. CASE ~foreign'
    <3>1. UNCHANGED <<table, foreign, cache, client>>
      BY <1>2, <2>2 DEF Lands, tableVars
    <3>2. \A key : Answer(key)' = Answer(key)
      BY <3>1, AnswerStays
    <3> QED BY <3>1, <3>2 DEF Coherent, InvalidationPending, Cached, At
  <2> QED BY <2>1, <2>2
<1>3. CASE UNCHANGED vars
  <2>1. \A key : Answer(key)' = Answer(key)
    BY <1>3, AnswerStays DEF vars
  <2> QED BY <1>3, <2>1 DEF vars, Coherent, InvalidationPending, Cached, At
<1> QED BY <1>1, <1>2, <1>3, WriteCoherent, InvalidateCoherent, TickCoherent
    DEF Next, Clients

\* In a process that alone edits the table, and whose writes were answered,
\* only a write still to be invalidated, or a read overtaken by an
\* invalidation, leaves an overwritten answer in the cache.
THEOREM CoherentHome == Spec => []CoherentUnlessOvertaken
<1>1. Coherent => CoherentUnlessOvertaken
  BY DEF Coherent, CoherentUnlessOvertaken
<1> QED BY <1>1, TypeCorrect, InitCoherent, NextCoherent, PTL DEF Spec

=============================================================================
