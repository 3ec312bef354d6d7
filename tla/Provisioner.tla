------------------------------ MODULE Provisioner ------------------------------
(***************************************************************************)
(* IndexProvisioner.ensure called concurrently for one index_name, over    *)
(* the Table Storage registry and the search service.                      *)
(*                                                                         *)
(* A registry write there reads the record, checks it, and writes it back  *)
(* on condition that its ETag is unchanged; the in-memory registry does    *)
(* both under one lock, which is the same with nothing in between.  A      *)
(* caller's `current' says that the ETag it read is still the record's.    *)
(* A write whose answer is lost is retried and then refused, because the   *)
(* first attempt changed the ETag.                                         *)
(*                                                                         *)
(* Every caller is a process of its own and reads the registry through its *)
(* CachedIndexRegistry; CacheTTL = 0 is the bare registry.  Only get() is  *)
(* served from the cache: what a write reads comes from the table.         *)
(***************************************************************************)
EXTENDS IndexRegistry

CONSTANTS
    Callers,          \* threads or processes calling ensure()
    Scenarios,        \* scenarios sharing the index_name
    SchemaOf,         \* resolved (dimensions, metric) of each scenario, or
                      \* None when its template does not resolve
    VersionOf,        \* template_version of each scenario's template
    AutoCreate,       \* ProvisioningConfig.auto_create
    CacheTTL,         \* ttl_seconds of the cached registry, in ticks
    WaitTimeout,      \* wait_for_provisioning_timeout_seconds, in ticks
    MaxFaults,        \* bound: crashes and failed dependency calls
    MaxSlow,          \* bound: claims that go stale under a live owner
    MaxRetires        \* bound: retirements by an administrator

ASSUME ProvisionerAssumption ==
    /\ SchemaOf \in [Scenarios -> Schemas \cup {None}]
    /\ VersionOf \in [Scenarios -> Nat]
    /\ AutoCreate \in BOOLEAN
    /\ CacheTTL \in Nat
    /\ WaitTimeout \in Nat
    /\ MaxFaults \in Nat
    /\ MaxSlow \in Nat
    /\ MaxRetires \in Nat
    /\ None \notin Scenarios

VARIABLES
    entry,     \* the stored registry entry, or None
    live,      \* the schema of the index in the search service, or None
    cache,     \* the answer to get() each caller has cached, or None
    caller,    \* what each caller is doing
    claims,    \* claim tokens handed out so far
    faults, slow, retires

vars == <<entry, live, cache, caller, claims, faults, slow, retires>>
boundVars == <<faults, slow, retires>>

\* The caller holds the claim in `seen' and is making it real.
ClaimPC == {"exists", "create", "describe", "ready_read", "ready_write",
            "failed_read", "failed_write"}

CallerPC == ClaimPC \cup
            {"idle", "get", "register", "register_read", "reget", "verify",
             "touch_read", "touch_write", "wait", "deadline", "poll",
             "reclaim_read", "reclaim_write"}

\* How the last call ended: it raised, it raised INDEX_PROVISION_CONFLICT, or
\* it returned an entry of that status.
Outcomes == {"none", "error", "conflict",
             "provisioning", "ready", "failed", "retired"}

\* seen is the snapshot the caller acts on; waited is the time spent in the
\* current _wait_for_ready.
CallerState == [pc : CallerPC, scenario : Scenarios \cup {None},
                seen : Entry \cup {None}, current : BOOLEAN,
                waited : 0 .. WaitTimeout, out : Outcomes]

Idle(out) == [pc |-> "idle", scenario |-> None, seen |-> None,
              current |-> FALSE, waited |-> 0, out |-> out]

At(c, pc) == caller[c].pc = pc

Goto(c, pc) == caller' = [caller EXCEPT ![c].pc = pc]

Raise(c, out) == caller' = [caller EXCEPT ![c] = Idle(out)]

Return(c, e) == caller' = [caller EXCEPT ![c] = Idle(e.status)]

\* The caller moves to pc acting on the snapshot e; only verification reads
\* the scenario again.
Take(c, pc, e) ==
    caller' = [caller EXCEPT ![c].pc = pc, ![c].seen = e, ![c].waited = 0,
                             ![c].scenario = IF pc = "verify" THEN @ ELSE None]

Fault == faults < MaxFaults /\ faults' = faults + 1

SchemaFor(c) == SchemaOf[caller[c].scenario]

-----------------------------------------------------------------------------
(* The cached registry *)

Answers == [value : Entry \cup {None}, age : 0 .. CacheTTL]

\* What get() answers: a cached answer that has not expired, or the table's.
Got(c) == IF cache[c] = None THEN entry ELSE cache[c].value

\* A miss caches what it read.
Fill(c) ==
    cache' = IF cache[c] # None \/ CacheTTL = 0 THEN cache
             ELSE [cache EXCEPT ![c] = [value |-> entry, age |-> 0]]

\* A write that succeeds clears the cache of its process.
invalidate(c) == cache' = [cache EXCEPT ![c] = None]

-----------------------------------------------------------------------------
(* Dispatch on an entry just read *)

\* A write of the record makes every ETag read before it out of date.
Moved(x, c, state) == IF x = c THEN state ELSE [caller[x] EXCEPT !.current = FALSE]

\* The conditional write of e lands, and its caller c continues in `state'.
Write(c, e, state) ==
    /\ entry' = e
    /\ caller' = [x \in Callers |-> Moved(x, c, state)]

\* _claim_new: auto-create, then the template.
ClaimNew(c) ==
    IF AutoCreate /\ SchemaFor(c) # None THEN Goto(c, "register") ELSE Raise(c, "error")

\* Mutant: the caller waits without the entry it waits for.
WaitForNothing(c, e) ==
    \/ e.status = "ready" /\ Return(c, e)
    \/ e.status = "provisioning" /\ Take(c, "wait", None)
    \/ e.status \in {"failed", "retired"} /\ Raise(c, "error")

\* _after_losing_claim
AfterLosingClaim(c, e) ==
    \/ e.status = "ready" /\ Return(c, e)
    \/ e.status = "provisioning" /\ Take(c, "wait", e)
    \/ e.status \in {"failed", "retired"} /\ Raise(c, "error")

\* _handle_ready: trust a recent verification, else verify.
HandleReady(c, e) ==
    \/ e.last_verified_at \notin {None, VerifyInterval} /\ Return(c, e)
    \/ /\ e.last_verified_at \in {None, VerifyInterval}
       /\ IF SchemaFor(c) = None THEN Raise(c, "error") ELSE Take(c, "verify", e)

-----------------------------------------------------------------------------
(* ensure() *)

Start(c) ==
    /\ At(c, "idle")
    /\ \E s \in Scenarios :
          caller' = [caller EXCEPT ![c] = [Idle("none") EXCEPT !.pc = "get", !.scenario = s]]
    /\ UNCHANGED <<entry, live, cache, claims, boundVars>>

Get(c) ==
    /\ At(c, "get")
    /\ \/ Got(c) = None /\ ClaimNew(c)
       \/ /\ Got(c) # None
          /\ Got(c).status = "ready"
          /\ HandleReady(c, Got(c))
       \/ /\ Got(c) # None
          /\ Got(c).status # "ready"
          /\ AfterLosingClaim(c, Got(c))
    /\ Fill(c)
    /\ UNCHANGED <<entry, live, claims, boundVars>>

\* register(): insert if absent.  The answer to an insert that landed may be
\* lost; its retry is refused like the insert of a loser.
Register(c) ==
    /\ At(c, "register")
    /\ LET candidate == NewClaim(claims + 1, SchemaFor(c), VersionOf[caller[c].scenario])
           Won(pc) == [caller[c] EXCEPT !.pc = pc, !.seen = candidate, !.scenario = None]
       IN \/ /\ entry = None
             /\ claims' = claims + 1
             /\ \/ Write(c, candidate, Won("exists")) /\ invalidate(c) /\ UNCHANGED faults
                \/ Fault /\ Write(c, candidate, Won("register_read")) /\ UNCHANGED cache
          \/ /\ entry # None
             /\ Take(c, "register_read", None)
             /\ UNCHANGED <<entry, cache, claims, faults>>
    /\ UNCHANGED <<live, slow, retires>>

\* The loser (or the winner that does not know it) reads the stored entry.
RegisterRead(c) ==
    /\ At(c, "register_read")
    /\ IF caller[c].seen # None /\ entry.claim_token = caller[c].seen.claim_token
       THEN Take(c, "exists", entry)
       ELSE AfterLosingClaim(c, entry)
    /\ invalidate(c)
    /\ UNCHANGED <<entry, live, claims, boundVars>>

-----------------------------------------------------------------------------
(* A conditional write of e.  An answer can be lost after the write landed:  *)
(* the retry is refused (state `refused'), or every retry times out too.     *)

ConditionalWrite(c, e, done, refused) ==
    \/ caller[c].current /\ Write(c, e, done) /\ invalidate(c) /\ UNCHANGED faults
    \/ /\ caller[c].current
       /\ Fault
       /\ \E state \in {refused, Idle("error")} : Write(c, e, state)
       /\ UNCHANGED cache
    \/ /\ ~caller[c].current
       /\ caller' = [caller EXCEPT ![c] = refused]
       /\ UNCHANGED <<entry, cache, faults>>

\* The read before a conditional write.
ReadRecord(c, pc) ==
    caller' = [caller EXCEPT ![c].pc = pc, ![c].current = TRUE]

-----------------------------------------------------------------------------
(* The provisioning adapter *)

index_exists == live # None

describe_index == live

\* create_or_update creates the index or accepts an identical one; the service
\* refuses to change the schema of an index.
create_index(schema) == live \in {None, schema} /\ live' = schema

-----------------------------------------------------------------------------
(* _claim_and_create *)

Exists(c) ==
    /\ At(c, "exists")
    /\ Goto(c, IF index_exists THEN "describe" ELSE "create")
    /\ UNCHANGED <<entry, live, cache, claims, boundVars>>

\* A call that raises may have created the index all the same.  Whatever it
\* raises, the entry is marked failed.
Create(c) ==
    /\ At(c, "create")
    /\ LET schema == caller[c].seen.schema
       IN \/ /\ create_index(schema)
             /\ Goto(c, "describe")
             /\ UNCHANGED faults
          \/ /\ live \notin {None, schema}
             /\ Goto(c, "failed_read")
             /\ UNCHANGED <<live, faults>>
          \/ /\ Fault
             /\ live' \in {live, IF live = None THEN schema ELSE live}
             /\ Goto(c, "failed_read")
    /\ UNCHANGED <<entry, cache, claims, slow, retires>>

\* Mutant: an index that exists is taken as it is.
DescribeUnchecked(c) ==
    /\ At(c, "describe")
    /\ Goto(c, "ready_read")
    /\ UNCHANGED <<entry, live, cache, claims, boundVars>>

Describe(c) ==
    /\ At(c, "describe")
    /\ Goto(c, IF describe_index = caller[c].seen.schema THEN "ready_read" ELSE "failed_read")
    /\ UNCHANGED <<entry, live, cache, claims, boundVars>>

\* mark_ready; on a conflict _finalize_ready reads what became of the entry.
ReadyRead(c) ==
    /\ At(c, "ready_read")
    /\ IF check_claim_token(entry, caller[c].seen.claim_token)
       THEN ReadRecord(c, "ready_write") ELSE Goto(c, "reget")
    /\ UNCHANGED <<entry, live, cache, claims, boundVars>>

ReadyWrite(c) ==
    /\ At(c, "ready_write")
    /\ ConditionalWrite(c, mark_ready(entry), Idle("ready"), [caller[c] EXCEPT !.pc = "reget"])
    /\ UNCHANGED <<live, claims, slow, retires>>

Reget(c) ==
    /\ At(c, "reget")
    /\ AfterLosingClaim(c, Got(c))
    /\ Fill(c)
    /\ UNCHANGED <<entry, live, claims, boundVars>>

\* mark_failed; a conflict is absorbed and the original error raised.
FailedRead(c) ==
    /\ At(c, "failed_read")
    /\ IF check_claim_token(entry, caller[c].seen.claim_token)
       THEN ReadRecord(c, "failed_write") ELSE Raise(c, "error")
    /\ UNCHANGED <<entry, live, cache, claims, boundVars>>

FailedWrite(c) ==
    /\ At(c, "failed_write")
    /\ ConditionalWrite(c, mark_failed(entry), Idle("error"), Idle("error"))
    /\ UNCHANGED <<live, claims, slow, retires>>

-----------------------------------------------------------------------------
(* _handle_ready, verification elapsed *)

Verify(c) ==
    /\ At(c, "verify")
    /\ IF /\ describe_index = SchemaFor(c)
          /\ caller[c].seen.template_version >= VersionOf[caller[c].scenario]
       THEN Goto(c, "touch_read") ELSE Raise(c, "error")
    /\ UNCHANGED <<entry, live, cache, claims, boundVars>>

TouchRead(c) ==
    /\ At(c, "touch_read")
    /\ ReadRecord(c, "touch_write")
    /\ UNCHANGED <<entry, live, cache, claims, boundVars>>

TouchWrite(c) ==
    /\ At(c, "touch_write")
    /\ ConditionalWrite(c, touch_verified(entry), Idle(entry.status), Idle("conflict"))
    /\ UNCHANGED <<live, claims, slow, retires>>

-----------------------------------------------------------------------------
(* _wait_for_ready *)

\* Mutant: a claim never counts as stale.
NeverStale(c) ==
    /\ At(c, "wait")
    /\ Goto(c, "deadline")
    /\ UNCHANGED <<entry, live, cache, claims, boundVars>>

Wait(c) ==
    /\ At(c, "wait")
    /\ Goto(c, IF caller[c].seen.claimed_at = StaleAfter THEN "reclaim_read" ELSE "deadline")
    /\ UNCHANGED <<entry, live, cache, claims, boundVars>>

\* Mutant: reclaim does not compare the record with the snapshot.
ReclaimUncompared(c) ==
    /\ At(c, "reclaim_read")
    /\ ReadRecord(c, "reclaim_write")
    /\ UNCHANGED <<entry, live, cache, claims, boundVars>>

\* Mutant: a lost reclaim is tried again at once, with the same snapshot.
ReclaimSpins(c) ==
    /\ At(c, "reclaim_read")
    /\ IF entry = caller[c].seen THEN ReadRecord(c, "reclaim_write") ELSE Goto(c, "wait")
    /\ UNCHANGED <<entry, live, cache, claims, boundVars>>

ReclaimRead(c) ==
    /\ At(c, "reclaim_read")
    /\ IF entry = caller[c].seen THEN ReadRecord(c, "reclaim_write") ELSE Goto(c, "deadline")
    /\ UNCHANGED <<entry, live, cache, claims, boundVars>>

\* The reclaimer writes the snapshot it observed, under a new claim.
ReclaimWrite(c) ==
    /\ At(c, "reclaim_write")
    /\ LET new == Reclaimed(caller[c].seen, claims + 1)
       IN ConditionalWrite(c, new, [caller[c] EXCEPT !.pc = "exists", !.seen = new],
                           [caller[c] EXCEPT !.pc = "deadline"])
    /\ claims' = IF caller[c].current THEN claims + 1 ELSE claims
    /\ UNCHANGED <<live, slow, retires>>

Deadline(c) ==
    /\ At(c, "deadline")
    /\ IF caller[c].waited = WaitTimeout THEN Raise(c, "error") ELSE Goto(c, "poll")
    /\ UNCHANGED <<entry, live, cache, claims, boundVars>>

\* Poll again: a claim still in progress keeps the deadline.
Poll(c) ==
    /\ At(c, "poll")
    /\ IF Got(c).status = "provisioning"
       THEN caller' = [caller EXCEPT ![c].pc = "wait", ![c].seen = Got(c)]
       ELSE AfterLosingClaim(c, Got(c))
    /\ Fill(c)
    /\ UNCHANGED <<entry, live, claims, boundVars>>

-----------------------------------------------------------------------------
(* The environment *)

\* A registry or adapter call raises UNAVAILABLE, out of ensure(); a failing
\* create_index is part of Create.
Unavailable(c) ==
    /\ caller[c].pc \notin {"idle", "create", "wait", "deadline"}
    /\ Fault
    /\ Raise(c, "error")
    /\ UNCHANGED <<entry, live, cache, claims, slow, retires>>

\* The process dies between two accesses, and its cache with it.
Crash(c) ==
    /\ ~At(c, "idle")
    /\ Fault
    /\ Raise(c, "none")
    /\ invalidate(c)
    /\ UNCHANGED <<entry, live, claims, slow, retires>>

\* An administrator calls mark_retired.
Retire ==
    /\ entry # None
    /\ retires < MaxRetires
    /\ retires' = retires + 1
    /\ entry' = mark_retired(entry)
    /\ caller' = [c \in Callers |-> [caller[c] EXCEPT !.current = FALSE]]
    /\ UNCHANGED <<live, cache, claims, faults, slow>>

\* c runs and holds the claim that is stored.
Owns(c) ==
    /\ caller[c].pc \in ClaimPC \cup {"register_read"}
    /\ caller[c].seen # None
    /\ caller[c].seen.claim_token = entry.claim_token

\* With the next tick the stored claim goes stale under its live owner.
OwnerLate == /\ entry # None
             /\ entry.claimed_at = StaleAfter - 1
             /\ \E c \in Callers : Owns(c)

Later(e) == IF e = None THEN None ELSE Aged(e)

\* _is_expired: an answer is dropped when it reaches the TTL.
Kept(answer) ==
    IF answer.age + 1 >= CacheTTL THEN None
    ELSE [value |-> Later(answer.value), age |-> answer.age + 1]

Elapsed(c) ==
    [caller[c] EXCEPT !.seen = Later(@),
                      !.waited = IF @ = WaitTimeout THEN @ ELSE @ + 1]

Tick ==
    /\ OwnerLate => slow < MaxSlow
    /\ slow' = IF OwnerLate THEN slow + 1 ELSE slow
    /\ entry' = Later(entry)
    /\ cache' = [c \in Callers |-> IF cache[c] = None THEN None ELSE Kept(cache[c])]
    /\ caller' = [c \in Callers |-> IF At(c, "idle") THEN caller[c] ELSE Elapsed(c)]
    /\ UNCHANGED <<live, claims, faults, retires>>

-----------------------------------------------------------------------------
\* The index may exist already, made by hand or by an earlier deployment.
Init ==
    /\ entry = None
    /\ live \in Schemas \cup {None}
    /\ cache = [c \in Callers |-> None]
    /\ caller = [c \in Callers |-> Idle("none")]
    /\ claims = 0
    /\ faults = 0
    /\ slow = 0
    /\ retires = 0

Step(c) ==
    \/ Get(c) \/ Register(c) \/ RegisterRead(c)
    \/ Exists(c) \/ Create(c) \/ Describe(c)
    \/ ReadyRead(c) \/ ReadyWrite(c) \/ Reget(c) \/ FailedRead(c) \/ FailedWrite(c)
    \/ Verify(c) \/ TouchRead(c) \/ TouchWrite(c)
    \/ Wait(c) \/ ReclaimRead(c) \/ ReclaimWrite(c) \/ Deadline(c) \/ Poll(c)

Next ==
    \/ \E c \in Callers : Start(c) \/ Step(c) \/ Unavailable(c) \/ Crash(c)
    \/ Retire
    \/ Tick

Spec == Init /\ [][Next]_vars

\* Threads run, dependency calls return or time out, time passes, and the
\* composition root keeps asking for the index.
Fairness == /\ \A c \in Callers : WF_vars(Step(c)) /\ WF_vars(Start(c))
            /\ WF_vars(Tick)

FairSpec == Spec /\ Fairness

-----------------------------------------------------------------------------
(* Properties *)

\* Every variable has the type the code gives it, a call that resolves a
\* template knows its scenario, and a call past its first read has an entry
\* to act on.
TypeOK ==
    /\ entry \in Entry \cup {None}
    /\ live \in Schemas \cup {None}
    /\ cache \in [Callers -> Answers \cup {None}]
    /\ caller \in [Callers -> CallerState]
    /\ claims \in Nat
    /\ faults \in 0 .. MaxFaults
    /\ slow \in 0 .. MaxSlow
    /\ retires \in 0 .. MaxRetires
    /\ \A c \in Callers :
          /\ caller[c].pc \in {"get", "register", "verify"} => caller[c].scenario \in Scenarios
          /\ caller[c].pc \notin {"idle", "get", "register"} => entry # None
          /\ caller[c].pc \notin {"idle", "get", "register", "register_read"} =>
                caller[c].seen # None

\* Whatever claims, reclaims, late owners and lost answers happened, an entry
\* that says `ready' stands for an index that exists with the entry's own
\* dimensions and metric: every reader of the registry trusts it.
ReadyIsBacked == entry # None /\ entry.status = "ready" => live = entry.schema

\* "Terminal: nothing in this module ever transitions a `failed' entry onward
\* automatically" (registry.py:139): not a late owner finishing, not a
\* reclaimer acting on an old snapshot.  Only an administrator retires it.
FailedIsTerminal ==
    [][entry # None /\ entry.status = "failed" =>
          entry'.status = "failed" \/ retires' # retires]_vars

\* A ready index is never taken back to `provisioning' or `failed' by a
\* caller: once announced it stays usable until it is retired.
ReadyIsKept ==
    [][entry # None /\ entry.status = "ready" =>
          entry'.status = "ready" \/ retires' # retires]_vars

\* Every ensure() ends, by returning or by raising: losing a reclaim or a
\* finalization never sends a caller in circles.
EnsureEnds == \A c \in Callers : ~At(c, "idle") ~> At(c, "idle")

\* A claim does not stay pending for ever: if its owner died, or lost the
\* answer to its own reclaim, somebody reclaims it and decides the entry.
ClaimIsDecided ==
    (entry # None /\ entry.status = "provisioning")
        ~> (entry # None /\ entry.status # "provisioning")

\* The in-memory registry is there "to correctly simulate the same
\* claim/conflict/reclaim state machine TableStorageIndexRegistry enforces"
\* (registry.py:162): conversely, reads followed by conditional writes, lost
\* answers and refused retries change an entry only as one of its atomic
\* methods would, with a claim that was handed out and is still the stored one.
Registry == INSTANCE InMemoryRegistry WITH Versions <- {VersionOf[s] : s \in Scenarios}

ImplementsRegistry == Registry!RegistrySpec

-----------------------------------------------------------------------------
(* A statement of the repository's documentation that the code does not keep *)

\* registry.py:105: "two concurrent touches are both harmless", and so
\* INDEX_PROVISION_CONFLICT is "never re-raised to ensure()'s own caller"
\* (REQ-011-lld.md:1585).
ConflictIsAbsorbed == \A c \in Callers : caller[c].out # "conflict"

=============================================================================
