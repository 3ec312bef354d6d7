---------------------------- MODULE ScenarioStore ----------------------------
(***************************************************************************)
(* The scenario lookup as deployed for runtime editing: callers in one     *)
(* process share a CachedScenarioStore over a TableStorageScenarioStore,   *)
(* whose table other processes edit as well (scenario/stores).             *)
(*                                                                         *)
(* The table is keyed by (vertical, scenario_id) and updated under an      *)
(* ETag.  A backend call that times out is retried while the timed-out     *)
(* request stays in flight and may still land.  Of a scenario's settings   *)
(* only `enabled' is kept.  Time is counted in ticks; an age is the number *)
(* of ticks since a value was stored.                                      *)
(***************************************************************************)
EXTENDS Integers, Sequences

CONSTANTS Readers, Editors,       \* Threads that look up, threads that write.
          ScenarioIds, Verticals, \* Integers: the order of the keys matters.
          DefaultId,              \* default_scenario_id of the configuration.
          Lookups,                \* The lookups callers make, as lists of queries.
          TTL,                    \* ttl_seconds of the cache, in ticks.
          FillDelay,              \* Ticks between a backend answer and its caching.
          MaxWrites,              \* Bound on the edits and deletions started.
          MaxTimeouts,            \* Bound on the write attempts that time out.
          MaxAttempts,            \* Attempts of one backend call.
          None

ASSUME StoreAssumption ==
    /\ ScenarioIds \subseteq Nat /\ Verticals \subseteq Nat
    /\ DefaultId \in ScenarioIds
    /\ TTL \in Nat \ {0} /\ FillDelay \in Nat /\ MaxAttempts \in Nat \ {0}
    /\ MaxWrites \in Nat /\ MaxTimeouts \in Nat
    /\ None \notin Nat /\ None \notin Verticals \X ScenarioIds

VARIABLES table,     \* (vertical, scenario_id) -> record or None.
          etag,      \* The last ETag the table handed out.
          cache,     \* The cached answer of each query, or None.
          client,
          late,      \* Timed-out write requests that may still land.
          writes, timeouts,
          foreign    \* History: a write has landed that no caller here awaited.

Clients == Readers \cup Editors

vars == <<table, etag, cache, client, late, writes, timeouts, foreign>>

Rows == Verticals \X ScenarioIds

\* The cached queries: get(scenario_id), get_by_vertical(vertical) and
\* list_all(include_disabled).
Keys == ({"id"} \X ScenarioIds) \cup ({"vertical"} \X Verticals) \cup ({"list"} \X BOOLEAN)

Stored == {r \in Rows : table[r] # None}

\* matches[0] of a query by row key: the first partition that has the row.
FirstMatch(id) ==
    LET first == {r \in Stored : /\ r[2] = id
                                 /\ \A q \in Stored : q[2] = id => r[1] <= q[1]}
    IN  IF first = {} THEN None ELSE CHOOSE r \in first : TRUE

Enabled(v) == {r \in Stored : r[1] = v /\ table[r].enabled}

\* Of several enabled scenarios of a vertical the smallest scenario_id.
select_enabled_for_vertical(v) ==
    LET first == {r \in Enabled(v) : \A q \in Enabled(v) : r[2] <= q[2]}
    IN  IF first = {} THEN None ELSE CHOOSE r \in first : TRUE

Found(r) == IF r = None THEN None ELSE [row |-> r, record |-> table[r]]

\* What the table answers to a query.
Answer(key) ==
    IF key[1] = "id" THEN Found(FirstMatch(key[2]))
    ELSE IF key[1] = "vertical" THEN Found(select_enabled_for_vertical(key[2]))
    ELSE [listed |-> {Found(r) : r \in {q \in Stored : key[2] \/ table[q].enabled}}]

\* resolve(scenario_id, vertical, default) tries up to three queries in turn.
resolve(id, v) ==
    (IF id = None THEN <<>> ELSE <<<<"id", id>>>>)
    \o (IF v = None THEN <<>> ELSE <<<<"vertical", v>>>>)
    \o <<<<"id", DefaultId>>>>

list_all(include_disabled) == <<<<"list", include_disabled>>>>

ASSUME LookupsAssumption ==
    Lookups \subseteq {resolve(id, v) : id \in ScenarioIds \cup {None}, v \in Verticals \cup {None}}
                      \cup {list_all(b) : b \in BOOLEAN}

_bump_config_version(record) == IF record = None THEN 1 ELSE record.config_version + 1

-----------------------------------------------------------------------------
(* Backend writes *)

\* Mutant: the ETag is not sent.
EtagIgnored(op) == TRUE

\* upsert_entity creates without an ETag and otherwise replaces only the
\* record the ETag names; delete_entity is unconditional.
Applies(op) ==
    \/ op.kind = "delete"
    \/ op.kind = "upsert" /\ op.etag = None /\ table[op.row] = None
    \/ op.kind = "upsert" /\ op.etag # None /\ table[op.row] # None /\ table[op.row].etag = op.etag

Apply(op) ==
    /\ Applies(op)
    /\ table' = [table EXCEPT ![op.row] =
          IF op.kind = "delete" THEN None
          ELSE [config_version |-> op.config_version, enabled |-> op.enabled,
                etag |-> etag + 1]]
    /\ etag' = IF op.kind = "delete" THEN etag ELSE etag + 1

\* `stale' counts the ticks for which the value has differed from the table's
\* answer; `raced' notes an invalidation since the answer was read.
IdleClient == [pc |-> "idle", todo |-> <<>>, value |-> None, waited |-> 0, stale |-> 0,
               raced |-> FALSE, op |-> None, here |-> TRUE, attempt |-> 0]

At(c, pc) == client[c].pc = pc

Return(c) == client' = [client EXCEPT ![c] = IdleClient]

tableVars == <<table, etag, foreign>>
boundVars == <<writes, timeouts>>

-----------------------------------------------------------------------------
(* Reads through the cache *)

Begin(c, todo) ==
    /\ At(c, "idle")
    /\ client' = [client EXCEPT ![c].pc = "lookup", ![c].todo = todo]
    /\ UNCHANGED <<tableVars, cache, late, boundVars>>

Lookup(c) == \E todo \in Lookups : Begin(c, todo)

\* After an answer: resolve goes on while nothing was found.
Answered(c, value) ==
    IF value = None /\ Len(client[c].todo) > 1
    THEN client' = [client EXCEPT ![c] =
            [IdleClient EXCEPT !.pc = "lookup", !.todo = Tail(client[c].todo)]]
    ELSE Return(c)

\* An entry that has expired is as good as absent; Tick forgets it.
Cached(key) == cache[key] # None

\* The first locked section: a fresh entry answers.
Hit(c) ==
    /\ At(c, "lookup")
    /\ Cached(Head(client[c].todo))
    /\ Answered(c, cache[Head(client[c].todo)].value)
    /\ UNCHANGED <<tableVars, cache, late, boundVars>>

\* A miss queries the wrapped store outside the lock; when every attempt
\* fails the call raises SCENARIO_STORE_UNAVAILABLE.
Miss(c) ==
    /\ At(c, "lookup")
    /\ ~Cached(Head(client[c].todo))
    /\ \/ client' = [client EXCEPT ![c].pc = "fill",
                                   ![c].value = Answer(Head(client[c].todo))]
       \/ Return(c)
    /\ UNCHANGED <<tableVars, cache, late, boundVars>>

\* The second locked section stores the answer, stamped now.
Fill(c) ==
    /\ At(c, "fill")
    /\ cache' = [cache EXCEPT ![Head(client[c].todo)] =
          [value |-> client[c].value, age |-> 0, stale |-> client[c].stale,
           raced |-> client[c].raced]]
    /\ Answered(c, client[c].value)
    /\ UNCHANGED <<tableVars, late, boundVars>>

-----------------------------------------------------------------------------
(* Writes: through this process's cached store, or through another's *)

Start(c, pc, op) ==
    /\ At(c, "idle")
    /\ writes < MaxWrites
    /\ writes' = writes + 1
    /\ \E here \in BOOLEAN :
          client' = [client EXCEPT ![c].pc = pc, ![c].op = op, ![c].here = here]
    /\ UNCHANGED <<tableVars, cache, late, timeouts>>

Op(kind, row, enabled) ==
    [kind |-> kind, row |-> row, enabled |-> enabled, etag |-> None, config_version |-> 1]

Upsert(c) == \E r \in Rows, enabled \in BOOLEAN : Start(c, "existing", Op("upsert", r, enabled))

Delete(c) == \E id \in ScenarioIds : Start(c, "query", Op("delete", <<None, id>>, FALSE))

\* upsert reads the record it is about to replace, its version and its ETag;
\* a read whose attempts all fail raises.
ReadExisting(c) ==
    /\ At(c, "existing")
    /\ \/ LET existing == table[client[c].op.row]
          IN  client' = [client EXCEPT ![c].pc = "write",
                 ![c].op.etag = IF existing = None THEN None ELSE existing.etag,
                 ![c].op.config_version = _bump_config_version(existing)]
       \/ Return(c)
    /\ UNCHANGED <<tableVars, cache, late, boundVars>>

\* The wrapped call is done: the cached store of this process invalidates.
Done(c) == IF client[c].here THEN client' = [client EXCEPT ![c].pc = "invalidate"]
           ELSE Return(c)

\* Mutant: the first match is taken without asking whether there is one.
EmptyMatchTaken(c) ==
    /\ At(c, "query")
    /\ client' = [client EXCEPT ![c].pc = "write", ![c].op.row = FirstMatch(client[c].op.row[2])]
    /\ UNCHANGED <<tableVars, cache, late, boundVars>>

\* delete looks for the row by its key; without one it returns False,
\* and a query whose attempts all fail raises.
FindRow(c) ==
    /\ At(c, "query")
    /\ \/ LET r == FirstMatch(client[c].op.row[2])
          IN  IF r = None THEN Done(c)
              ELSE client' = [client EXCEPT ![c].pc = "write", ![c].op.row = r]
       \/ Return(c)
    /\ UNCHANGED <<tableVars, cache, late, boundVars>>

\* An attempt that is answered: the write, or an error that is raised, of a
\* conflict (409, 412) or of attempts that were all refused (429, 5xx).
Write(c) ==
    /\ At(c, "write")
    /\ \/ /\ Apply(client[c].op)
          /\ foreign' = (foreign \/ ~client[c].here)
          /\ Done(c)
       \/ /\ Return(c)
          /\ UNCHANGED tableVars
    /\ UNCHANGED <<cache, late, boundVars>>

\* An attempt that times out: tried again, or SCENARIO_STORE_UNAVAILABLE.
WriteTimesOut(c) ==
    /\ At(c, "write")
    /\ timeouts < MaxTimeouts
    /\ timeouts' = timeouts + 1
    /\ late' = late \cup {client[c].op}
    /\ IF client[c].attempt + 1 < MaxAttempts
       THEN client' = [client EXCEPT ![c].attempt = @ + 1]
       ELSE Return(c)
    /\ UNCHANGED <<tableVars, cache, writes>>

\* A timed-out request reaches the table after all, or is refused there.
Lands(op) ==
    /\ late' = late \ {op}
    /\ \/ Apply(op) /\ foreign' = TRUE
       \/ ~Applies(op) /\ UNCHANGED tableVars
    /\ UNCHANGED <<cache, client, boundVars>>

\* Mutant: only the entries of the written scenario_id are cleared.
ClearsOneId(c) ==
    /\ At(c, "invalidate")
    /\ cache' = [key \in Keys |-> IF key[1] = "id" THEN None ELSE cache[key]]
    /\ client' = [d \in Clients |->
          IF d = c THEN IdleClient
          ELSE IF At(d, "fill") THEN [client[d] EXCEPT !.raced = TRUE] ELSE client[d]]
    /\ UNCHANGED <<tableVars, late, boundVars>>

\* A successful write clears the whole cache of its own process.
Invalidate(c) ==
    /\ At(c, "invalidate")
    /\ cache' = [key \in Keys |-> None]
    /\ client' = [d \in Clients |->
          IF d = c THEN IdleClient
          ELSE IF At(d, "fill") THEN [client[d] EXCEPT !.raced = TRUE] ELSE client[d]]
    /\ UNCHANGED <<tableVars, late, boundVars>>

-----------------------------------------------------------------------------
StaleFor(held, key) == IF held.value = Answer(key) THEN 0 ELSE held.stale + 1

\* Mutant: an entry is served in the tick its lifetime ends.
ExpiresLate(entry) == entry.age > TTL

_is_expired(entry) == entry.age >= TTL

Aged(entry, key) ==
    LET older == [entry EXCEPT !.age = @ + 1, !.stale = StaleFor(entry, key)]
    IN  IF _is_expired(older) THEN None ELSE older

\* Time passes; an answer is cached at most FillDelay ticks after it was read.
Tick ==
    /\ \A c \in Clients : At(c, "fill") => client[c].waited < FillDelay
    /\ client' = [c \in Clients |->
          IF At(c, "fill")
          THEN [client[c] EXCEPT !.waited = @ + 1,
                                 !.stale = StaleFor(client[c], Head(client[c].todo))]
          ELSE client[c]]
    /\ cache' = [key \in Keys |-> IF Cached(key) THEN Aged(cache[key], key) ELSE None]
    /\ UNCHANGED <<tableVars, late, boundVars>>

\* A scenario created before the behaviour starts.
FirstRecord == [config_version |-> 1, enabled |-> TRUE, etag |-> 1]

Init ==
    /\ \E S \in SUBSET Rows :
          /\ \A q, r \in S : q[2] = r[2] => q = r
          /\ table = [r \in Rows |-> IF r \in S THEN FirstRecord ELSE None]
    /\ etag = 1
    /\ cache = [key \in Keys |-> None]
    /\ client = [c \in Clients |-> IdleClient]
    /\ late = {}
    /\ writes = 0
    /\ timeouts = 0
    /\ foreign = FALSE

Read(c) == Lookup(c) \/ Hit(c) \/ Miss(c) \/ Fill(c)

Edit(c) == \/ Upsert(c) \/ Delete(c) \/ ReadExisting(c) \/ FindRow(c) \/ Write(c)
           \/ WriteTimesOut(c) \/ Invalidate(c)

Next == \/ \E c \in Readers : Read(c)
        \/ \E c \in Editors : Edit(c)
        \/ \E op \in late : Lands(op)
        \/ Tick

Spec == Init /\ [][Next]_vars

-----------------------------------------------------------------------------
(* Properties *)

Record == [config_version : Nat \ {0}, enabled : BOOLEAN, etag : Nat]

Entries == [row : Rows, record : Record]

Values == Entries \cup {None} \cup [listed : SUBSET Entries]

CacheEntry == [value : Values, age : Nat, stale : Nat, raced : BOOLEAN]

Ops == [kind : {"upsert", "delete"}, row : (Verticals \cup {None}) \X ScenarioIds,
        enabled : BOOLEAN, etag : Nat \cup {None}, config_version : Nat \ {0}]

PCs == {"idle", "lookup", "fill", "existing", "query", "write", "invalidate"}

ClientState == [pc : PCs, todo : Seq(Keys), value : Values, waited : Nat, stale : Nat,
                raced : BOOLEAN, op : Ops \cup {None}, here : BOOLEAN,
                attempt : 0 .. MaxAttempts - 1]

\* The variables have the types the code gives them, a call in progress knows
\* what it is about, and no backend call outlives its attempts.
TypeOK ==
    /\ table \in [Rows -> Record \cup {None}]
    /\ etag \in Nat
    /\ cache \in [Keys -> CacheEntry \cup {None}]
    /\ client \in [Clients -> ClientState]
    /\ \A c \in Clients :
          /\ client[c].pc \in {"lookup", "fill"} => client[c].todo # <<>>
          /\ client[c].pc \in {"existing", "query", "write"} => client[c].op \in Ops
          /\ client[c].pc \in {"existing", "write"} => client[c].op.row \in Rows
    /\ late \subseteq {op \in Ops : op.row \in Rows}
    /\ writes \in 0 .. MaxWrites /\ timeouts \in 0 .. MaxTimeouts
    /\ foreign \in BOOLEAN

\* Whatever the cache serves was the table's answer less than
\* TTL + FillDelay ticks ago: a read that was overtaken by edits, here or in
\* another process, is served for one lifetime of an entry and no longer.
FreshWithin ==
    \A key \in Keys : Cached(key) => cache[key].stale < TTL + FillDelay

InvalidationPending == \E c \in Clients : At(c, "invalidate")

\* In a process that alone edits the table, and whose writes were answered,
\* the cache serves an overwritten answer only between the write and its
\* invalidation, or when a read was overtaken by the invalidation and cached
\* its answer afterwards.
CoherentUnlessOvertaken ==
    foreign \/ InvalidationPending \/
    \A key \in Keys : Cached(key) => cache[key].raced \/ cache[key].value = Answer(key)

\* Optimistic concurrency: a stored scenario is only ever replaced by the
\* edit of the record that is there, which carries the next version, however
\* edits, deletions, timed-out requests and their retries interleave.
NoLostUpdate ==
    [][\A r \in Rows : table[r] # None /\ table'[r] # None /\ table'[r] # table[r] =>
          table'[r].config_version = table[r].config_version + 1]_vars

-----------------------------------------------------------------------------
(* What the documentation says of the cache and the code does not keep: a    *)
(* run finds the counterexample.                                             *)

\* cached_store.py:5: the lock is "held for the full duration of each public
\* method", and :111: invalidate() "forces the next read of anything to
\* re-query the wrapped backend".  So once the invalidation of every edit of
\* this process is done, no overwritten answer is served.
CoherentAtHome ==
    foreign \/ InvalidationPending \/
    \A key \in Keys : Cached(key) => cache[key].value = Answer(key)

=============================================================================
