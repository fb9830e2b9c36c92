------------------------------ MODULE Settings ------------------------------
(***************************************************************************)
(* One setting and the caches of it (services/settings.service.ts and      *)
(* updateSetting of services/admin.service.ts).                            *)
(*                                                                         *)
(* Every API process keeps its own cache, whose entries are good for a     *)
(* time.  A reader that misses it asks the database and stores the answer  *)
(* when it arrives; an administrator writes the row and only then drops    *)
(* the entry of the process that served the change.  A value is the number *)
(* of the change that wrote it, which tells equal values apart.            *)
(***************************************************************************)
EXTENDS Integers, FiniteSets, FiniteSetsExt

CONSTANTS
    Process,
    Lookup,      \* calls of getSetting
    Setter,      \* calls of updateSetting
    CacheTicks,  \* TTL_MS in ticks
    MaxTicks     \* bounds the ticks

VARIABLES
    stored,   \* "settings": the value
    cached,   \* the entry of each process
    lookup,
    setter,
    elapsed,  \* ticks that passed
    since,    \* when each value was written: no action reads it
    sure      \* the newest change whose entry no reader could bring back: likewise

settingVars == <<stored, cached, lookup, setter, elapsed, since, sure>>

Value == 0..Cardinality(Setter)

NotCached == [value |-> 0, at |-> -1]

CacheRow == [value : Value, at : -1..MaxTicks]

\* due is what the caller may count on: no action reads it.
LookupRow == [stage : {"new", "asked", "found", "done", "failed"}, process : Process, value : Value,
              due : Value]

SetterRow == [stage : {"new", "written", "done"}, process : Process, value : Value]

ASSUME SettingAssumption ==
    /\ IsFiniteSet(Setter)
    /\ CacheTicks \in Nat \ {0} /\ MaxTicks \in Nat

-----------------------------------------------------------------------------
Fresh(p) == cached[p] # NotCached /\ elapsed - cached[p].at < CacheTicks

\* The newest value that is at least as old as an entry may be.
Outdated == Max({v \in 0..stored : since[v] <= elapsed - CacheTicks} \union {0})

\* What a call may count on from now on.
Due(p) == Max({Outdated, sure[p]})

\* Mutant of AfterHit: an entry in use stays good.
AfterHitRenewed(p) == [cached EXCEPT ![p].at = elapsed]

\* The cache after a hit.
AfterHit(p) == cached

\* getSetting: a hit is answered at once, a miss asks the database.
Ask(l) ==
    LET p == lookup[l].process
    IN  /\ lookup[l].stage = "new"
        /\ IF Fresh(p)
           THEN /\ lookup' = [lookup EXCEPT ![l].stage = "done", ![l].value = cached[p].value,
                                            ![l].due = Due(p)]
                /\ cached' = AfterHit(p)
           ELSE /\ lookup' = [lookup EXCEPT ![l].stage = "asked", ![l].due = Due(p)]
                /\ UNCHANGED cached
        /\ UNCHANGED <<stored, setter, elapsed, since, sure>>

FindRow(l) ==
    /\ lookup[l].stage = "asked"
    /\ lookup' = [lookup EXCEPT ![l].stage = "found", ![l].value = stored]
    /\ UNCHANGED <<stored, cached, setter, elapsed, since, sure>>

\* The entry is stored with the time of the answer, whatever changed meanwhile.
StoreEntry(l) ==
    /\ lookup[l].stage = "found"
    /\ cached' = [cached EXCEPT ![lookup[l].process] = [value |-> lookup[l].value, at |-> elapsed]]
    /\ lookup' = [lookup EXCEPT ![l].stage = "done"]
    /\ UNCHANGED <<stored, setter, elapsed, since, sure>>

Asking == {l \in Lookup : lookup[l].stage \in {"asked", "found"}}

\* The query fails, and with it the call.
LookupFails(l) ==
    /\ lookup[l].stage = "asked"
    /\ lookup' = [lookup EXCEPT ![l].stage = "failed"]
    /\ UNCHANGED <<stored, cached, setter, elapsed, since, sure>>

-----------------------------------------------------------------------------
WriteSetting(s) ==
    /\ setter[s].stage = "new"
    /\ stored' = stored + 1
    /\ since' = [since EXCEPT ![stored + 1] = elapsed]
    /\ setter' = [setter EXCEPT ![s].stage = "written", ![s].value = stored + 1]
    /\ UNCHANGED <<cached, lookup, elapsed, sure>>

\* A reader of the process that found an older value will store it after the entry is gone.
Overtaken(s) ==
    \E l \in Asking : /\ lookup[l].process = setter[s].process /\ lookup[l].stage = "found"
                      /\ lookup[l].value < setter[s].value

invalidateSetting(s) ==
    LET p == setter[s].process
    IN  /\ setter[s].stage = "written"
        /\ cached' = [cached EXCEPT ![p] = NotCached]
        /\ setter' = [setter EXCEPT ![s].stage = "done"]
        /\ sure' = IF Overtaken(s) THEN sure ELSE [sure EXCEPT ![p] = Max({@, setter[s].value})]
        /\ UNCHANGED <<stored, lookup, elapsed, since>>

Served(q, p) == q.process = p /\ q.stage \in {"asked", "found", "written"}

\* A process stops; its cache and the calls under way go with it.
ProcessRestarts(p) ==
    /\ cached' = [cached EXCEPT ![p] = NotCached]
    /\ lookup' = [l \in Lookup |-> IF Served(lookup[l], p) THEN [lookup[l] EXCEPT !.stage = "failed"]
                                   ELSE lookup[l]]
    /\ setter' = [s \in Setter |-> IF Served(setter[s], p) THEN [setter[s] EXCEPT !.stage = "done"]
                                   ELSE setter[s]]
    /\ UNCHANGED <<stored, elapsed, since, sure>>

\* A tick passes while no query is under way.
PassTick ==
    /\ elapsed < MaxTicks
    /\ Asking = {}
    /\ \A s \in Setter : setter[s].stage # "written"
    /\ elapsed' = elapsed + 1
    /\ UNCHANGED <<stored, cached, lookup, setter, since, sure>>

-----------------------------------------------------------------------------
SettingInit ==
    /\ stored = 0 /\ elapsed = 0
    /\ cached = [p \in Process |-> NotCached]
    /\ lookup \in [Lookup -> [stage : {"new"}, process : Process, value : {0}, due : {0}]]
    /\ setter \in [Setter -> [stage : {"new"}, process : Process, value : {0}]]
    /\ since = [v \in Value |-> 0]
    /\ sure = [p \in Process |-> 0]

SettingNext ==
    \/ \E l \in Lookup : Ask(l) \/ FindRow(l) \/ StoreEntry(l) \/ LookupFails(l)
    \/ \E s \in Setter : WriteSetting(s) \/ invalidateSetting(s)
    \/ \E p \in Process : ProcessRestarts(p)
    \/ PassTick

SettingSpec == SettingInit /\ [][SettingNext]_settingVars

-----------------------------------------------------------------------------
(* Types; an entry is a value that was stored.                             *)
SettingTypeOK ==
    /\ stored \in Value /\ elapsed \in 0..MaxTicks
    /\ cached \in [Process -> [value : 0..stored, at : -1..elapsed]]
    /\ lookup \in [Lookup -> LookupRow] /\ setter \in [Setter -> SetterRow]
    /\ since \in [Value -> Nat] /\ sure \in [Process -> 0..stored]

(* settings.service.ts:6 and admin.service.ts:1584: no call is answered    *)
(* with a value that was replaced a whole TTL before, whichever process    *)
(* serves it; and in the process that served a change every later call     *)
(* sees it, unless a query that had found the old row was under way when   *)
(* the entry was dropped.                                                  *)
ChangesTakeEffect == \A l \in Lookup : lookup[l].stage = "done" => lookup[l].value >= lookup[l].due

=============================================================================
