----------------------------- MODULE HotReload -----------------------------
(***************************************************************************)
(* Schema reload without downtime: the NOTIFY listener of the              *)
(* introspection cache, its broadcast channel, the watcher task that       *)
(* re-introspects and rebuilds, and the registry the request handlers read *)
(* (crates/magna-introspect/src/cache.rs, crates/magna/src/main.rs,        *)
(* crates/magna-serv/src/schema_registry.rs).                              *)
(*                                                                         *)
(* The database is a counter of committed migrations.  What introspection  *)
(* finds, a cache entry and the served schema are the number each catalog  *)
(* query saw: the queries run on different connections and may see         *)
(* different migrations.                                                   *)
(***************************************************************************)
EXTENDS Naturals, Sequences

CONSTANTS
    Schemas,            \* Preset.pg_schemas, as configured
    DefaultSchemas,     \* Preset::default().pg_schemas
    Catalogs,           \* the queries of introspect()
    Capacity,           \* of the broadcast channel (16 in the code)
    SpawnsListener,     \* whether anyone calls spawn_listener
    MaxMigrations,      \* bound: migrations that commit
    MaxFaults           \* bound: connections and reloads that fail

ASSUME CatalogsAssumption == Catalogs # {}
ASSUME CapacityAssumption == Capacity \in Nat \ {0}
ASSUME SpawnsAssumption == SpawnsListener \in BOOLEAN
ASSUME BoundsAssumption == MaxMigrations \in Nat /\ MaxFaults \in Nat

VARIABLES
    db,         \* migrations committed
    notify,     \* notifications on their way to the listener's connection
    listener,   \* listen_loop: where it is
    entry,      \* IntrospectionCache.inner under the configured key, or Absent
    backlog,    \* broadcast channel: messages the watcher has not received
    lagged,     \* broadcast channel: the watcher was overtaken
    watcher,    \* watch_for_reload: where it is
    read,       \* introspect(): what the finished queries have seen
    served,     \* SchemaRegistry.current
    missed,     \* history: a signal was lost or a reload failed, and no
                \*   reload has begun since
    faults      \* bound: failures so far

reloadVars == <<db, notify, listener, entry, backlog, lagged,
                watcher, read, served, missed, faults>>

Versions == 0..MaxMigrations
All == "*"                      \* the target of an empty payload
Targets == Schemas \cup {All}
Found == [Catalogs -> Versions] \* an IntrospectionResult
Absent == [c \in {} |-> 0]
UpToDate(found) == found = [c \in Catalogs |-> db]

ReloadTypeOK ==
    /\ db \in Versions
    /\ notify \in Seq(Targets)
    /\ listener \in {"absent", "connecting", "listening", "send", "dead"}
    /\ entry \in Found \cup {Absent}
    /\ backlog \in 0..Capacity
    /\ lagged \in BOOLEAN
    /\ watcher \in {"start", "recv", "invalidate", "lookup", "introspect", "build"}
    /\ DOMAIN read \subseteq Catalogs /\ read \in [DOMAIN read -> Versions]
    /\ served.generation \in Nat \ {0}
    /\ served.found \in Found
    /\ served.exposed \subseteq Schemas
    /\ missed \in BOOLEAN
    /\ faults \in 0..MaxFaults

(* main() up to AppState::new: the schema has been introspected, which     *)
(* filled the cache, gathered with the configured preset and built.        *)
ReloadInit ==
    /\ db = 0
    /\ notify = <<>>
    /\ listener = IF SpawnsListener THEN "connecting" ELSE "absent"
    /\ entry = [c \in Catalogs |-> 0]
    /\ backlog = 0
    /\ lagged = FALSE
    /\ watcher = "start"
    /\ read = Absent
    /\ served = [generation |-> 1, found |-> [c \in Catalogs |-> 0], exposed |-> Schemas]
    /\ missed = FALSE
    /\ faults = 0

Fault == faults < MaxFaults /\ faults' = faults + 1

-----------------------------------------------------------------------------
(* Postgres *)

Connected == listener \in {"listening", "send"}

(* A migration commits, and with it the NOTIFY that names its schema or    *)
(* all of them.  Only a session that listens is told.                      *)
Migrate(target) ==
    /\ db < MaxMigrations
    /\ db' = db + 1
    /\ notify' = IF Connected THEN Append(notify, target)
                              ELSE notify
    /\ missed' = (missed \/ ~Connected)
    /\ UNCHANGED <<listener, entry, backlog, lagged, watcher, read, served, faults>>

(* The listener's connection breaks.  PgListener reconnects by itself, but *)
(* what was on its way is lost; when it cannot, recv() fails and the       *)
(* listen_loop ends.                                                       *)
LoseConnection ==
    /\ listener = "listening"
    /\ Fault
    /\ listener' \in {"listening", "dead"}
    /\ notify' = <<>>
    /\ missed' = (missed \/ notify # <<>>)
    /\ UNCHANGED <<db, entry, backlog, lagged, watcher, read, served>>

-----------------------------------------------------------------------------
(* listen_loop *)

(* connect_with and LISTEN; an error ends the task. *)
Connect ==
    /\ listener = "connecting"
    /\ \/ listener' = "listening" /\ UNCHANGED faults
       \/ listener' = "dead" /\ Fault
    /\ UNCHANGED <<db, notify, entry, backlog, lagged, watcher, read, served, missed>>

(* cache_key(): the sorted list of names, joined, which tells apart        *)
(* exactly what the sets of names do.                                      *)
CacheKey(schemas) == {s : s \in schemas}

(* invalidate_all(), or invalidate(target), which takes the target for a   *)
(* key.                                                                    *)
Evicts(target) == target = All \/ CacheKey(Schemas) = CacheKey({target})

(* recv(), then the eviction. *)
ReceiveNotification ==
    /\ listener = "listening"
    /\ notify # <<>>
    /\ notify' = Tail(notify)
    /\ entry' = IF Evicts(Head(notify)) THEN Absent ELSE entry
    /\ listener' = "send"
    /\ UNCHANGED <<db, backlog, lagged, watcher, read, served, missed, faults>>

(* reload_channel.send(): lost if nobody has subscribed; in a full channel *)
(* it takes the place of the oldest message.                               *)
Broadcast ==
    /\ listener = "send"
    /\ listener' = "listening"
    /\ backlog' = IF watcher # "start" /\ backlog < Capacity THEN backlog + 1 ELSE backlog
    /\ lagged' = (lagged \/ backlog = Capacity)
    /\ missed' = (missed \/ watcher = "start")
    /\ UNCHANGED <<db, notify, entry, watcher, read, served, faults>>

(* time_to_live. *)
Expire ==
    /\ entry # Absent
    /\ entry' = Absent
    /\ UNCHANGED <<db, notify, listener, backlog, lagged, watcher, read, served,
                   missed, faults>>

-----------------------------------------------------------------------------
(* watch_for_reload *)

Subscribe ==
    /\ watcher = "start"
    /\ watcher' = "recv"
    /\ UNCHANGED <<db, notify, listener, entry, backlog, lagged, read, served,
                   missed, faults>>

(* A bug: what is left in the channel is skipped. *)
RecvLaggedResubscribes ==
    /\ watcher = "recv" /\ lagged
    /\ lagged' = FALSE
    /\ backlog' = 0
    /\ UNCHANGED <<db, notify, listener, entry, watcher, read, served, missed, faults>>

(* RecvError::Lagged is only logged; the next recv() returns the oldest    *)
(* message that is left.                                                   *)
RecvLagged ==
    /\ watcher = "recv" /\ lagged
    /\ lagged' = FALSE
    /\ UNCHANGED <<db, notify, listener, entry, backlog, watcher, read, served,
                   missed, faults>>

Recv ==
    /\ watcher = "recv" /\ ~lagged
    /\ backlog > 0
    /\ backlog' = backlog - 1
    /\ watcher' = "invalidate"
    /\ missed' = FALSE
    /\ UNCHANGED <<db, notify, listener, entry, lagged, read, served, faults>>

(* A bug: the watcher trusts the listener's eviction. *)
InvalidateNothing ==
    /\ watcher = "invalidate"
    /\ watcher' = "lookup"
    /\ UNCHANGED <<db, notify, listener, entry, backlog, lagged, read, served,
                   missed, faults>>

InvalidateAll ==
    /\ watcher = "invalidate"
    /\ watcher' = "lookup"
    /\ entry' = Absent
    /\ UNCHANGED <<db, notify, listener, backlog, lagged, read, served, missed, faults>>

(* get_or_introspect(): a hit is the result. *)
Lookup ==
    /\ watcher = "lookup"
    /\ watcher' = IF entry = Absent THEN "introspect" ELSE "build"
    /\ read' = entry
    /\ UNCHANGED <<db, notify, listener, entry, backlog, lagged, served, missed, faults>>

(* One of the queries that introspect() joins. *)
Query(c) ==
    /\ watcher = "introspect"
    /\ c \notin DOMAIN read
    /\ read' = [k \in DOMAIN read \cup {c} |-> IF k = c THEN db ELSE read[k]]
    /\ UNCHANGED <<db, notify, listener, entry, backlog, lagged, watcher, served,
                   missed, faults>>

(* All queries have answered: the result goes into the cache. *)
InsertEntry ==
    /\ watcher = "introspect"
    /\ DOMAIN read = Catalogs
    /\ entry' = read
    /\ watcher' = "build"
    /\ UNCHANGED <<db, notify, listener, backlog, lagged, read, served, missed, faults>>

(* "keeping current schema": introspect(), gather() or build_schema()      *)
(* failed.  Nothing retries; the next notification starts over.            *)
ReloadFails ==
    /\ watcher \in {"introspect", "build"}
    /\ Fault
    /\ watcher' = "recv"
    /\ missed' = TRUE
    /\ UNCHANGED <<db, notify, listener, entry, backlog, lagged, read, served>>

(* gather() with Preset::default(), build_schema(), reload(). *)
Swap ==
    /\ watcher = "build"
    /\ watcher' = "recv"
    /\ served' = [generation |-> served.generation + 1, found |-> read,
                  exposed |-> Schemas \cap DefaultSchemas]
    /\ UNCHANGED <<db, notify, listener, entry, backlog, lagged, read, missed, faults>>

-----------------------------------------------------------------------------
ListenLoop == Connect \/ ReceiveNotification \/ Broadcast

WatchForReload ==
    \/ Subscribe \/ RecvLagged \/ Recv \/ InvalidateAll \/ Lookup
    \/ (\E c \in Catalogs : Query(c)) \/ InsertEntry \/ Swap

ReloadNext ==
    \/ \E target \in Targets : Migrate(target)
    \/ LoseConnection
    \/ Expire
    \/ ReloadFails
    \/ ListenLoop
    \/ WatchForReload

(* Both loops are tokio tasks that are polled as long as they can move.    *)
(* Nothing obliges anyone to migrate, to fail or an entry to expire.       *)
ReloadSpec ==
    /\ ReloadInit /\ [][ReloadNext]_reloadVars
    /\ WF_reloadVars(ListenLoop)
    /\ WF_reloadVars(WatchForReload)

-----------------------------------------------------------------------------
(* Properties *)

(* A reload is under way or due. *)
SignalDue == notify # <<>> \/ listener = "send" \/ backlog > 0

(* When no reload is due and none is running, the served schema is the     *)
(* database's, in all its parts: neither the race of the listener's        *)
(* eviction with the watcher's insert, nor a channel overrun, nor queries  *)
(* that saw different migrations leave anything stale behind.  The         *)
(* exceptions are what nobody repeats: a lost notification and a failed    *)
(* reload.                                                                 *)
QuiescentFresh ==
    ~missed /\ ~SignalDue /\ watcher \in {"start", "recv"} => UpToDate(served.found)

(* What the watcher holds at each of its steps, unless another reload is   *)
(* due: the inductive invariant behind QuiescentFresh.                     *)
ReadSoFar == watcher = "introspect" => \A c \in DOMAIN read : read[c] = db
ReadAll == watcher = "build" => UpToDate(read)
MissAfterInvalidate == watcher = "lookup" => entry = Absent
ReadComplete == watcher = "build" => DOMAIN read = Catalogs

FreshInv ==
    /\ ReloadTypeOK
    /\ MissAfterInvalidate
    /\ ReadComplete
    /\ ~missed /\ ~SignalDue => ReadSoFar /\ ReadAll
    /\ QuiescentFresh

(* And things do get quiet: after the last migration, the served schema    *)
(* becomes and stays the database's, with the same exceptions.             *)
Freshness == <>[](missed \/ UpToDate(served.found))
=============================================================================
