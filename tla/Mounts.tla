------------------------------- MODULE Mounts -------------------------------
(***************************************************************************)
(* The mount table of the vault and the router that follows it:            *)
(* Core::mount, unmount, remount, setup_mounts (src/src/mount.rs) and the  *)
(* trie of src/src/router.rs.                                              *)
(*                                                                         *)
(* Requests run on many threads, each with a read lock on the core, so     *)
(* the calls of several clients interleave; a call is cut wherever it      *)
(* gives up the lock of the table, of an entry or of the trie, and between *)
(* serialising the table and writing it.  Seal and unseal take the write   *)
(* lock: they run when no call is in progress.  A crash may come anywhere. *)
(*                                                                         *)
(* A mount is named by its uuid, here a number.  A MountEntry is shared    *)
(* between the table and the trie.  The HMAC of an entry is left out: the  *)
(* level that checks it is off by default.                                 *)
(***************************************************************************)
EXTENDS Naturals, SequencesExt

CONSTANTS
    Client,         \* threads that serve requests
    Path,           \* paths, as sequences of names
    ProtectedPath,  \* PROTECTED_MOUNTS
    DefaultMounts,  \* the paths of DEFAULT_CORE_MOUNTS
    MaxMounts,      \* bound: how many uuids are ever generated
    None,           \* no mount
    NoTable,        \* no entry at core/mounts
    StorageFaults,  \* may an operation of the storage fail?
    Crashes         \* may the process crash?

ASSUME PathAssumption == \A p \in Path : p \in Seq(STRING) /\ p # <<>>
ASSUME ProtectedAssumption == ProtectedPath \subseteq Seq(STRING)
ASSUME DefaultAssumption ==
    /\ DefaultMounts \in Seq(Path)
    /\ \A i, j \in DOMAIN DefaultMounts :
          IsPrefix(DefaultMounts[i], DefaultMounts[j]) => i = j
ASSUME BoundAssumption == MaxMounts \in Nat /\ MaxMounts >= Len(DefaultMounts)

VARIABLES
    \* storage
    stored,         \* core/mounts: the table as it was last written
    data,           \* the mounts whose view holds data
    \* memory
    up,             \* unsealed, the table is loaded and routed
    table,          \* MountTable::entries: key -> mount
    entryPath,      \* MountEntry::path of every mount
    entryTaint,     \* the mounts whose MountEntry is tainted
    router,         \* the trie: path -> mount
    routerTaint,    \* the paths whose RouterEntry is tainted
    call,           \* the call each client is in
    \* history, never read by the code
    issued,         \* how many uuids were generated
    acked,          \* mounts whose mount call returned Ok, until unmounted
    gone,           \* mounts whose unmount call returned Ok
    remounted,      \* mounts a remount, successful or not, touched
    alone           \* no two calls ever overlapped

storageVars == <<stored, data>>
tableVars   == <<table, entryPath, entryTaint>>
routerVars  == <<router, routerTaint>>
historyVars == <<issued, acked, gone, remounted, alone>>
vars == <<storageVars, up, tableVars, routerVars, call, historyVars>>

-----------------------------------------------------------------------------
Mount == 1 .. MaxMounts
MountOrNone == Mount \cup {None}
StoredEntry == [mount : Mount, path : Path, tainted : BOOLEAN]
StoredTable == [Path -> StoredEntry \cup {None}]

ASSUME NoneAssumption == None \notin Mount /\ None \notin Path /\ None \notin StoredEntry
ASSUME NoTableAssumption == NoTable \notin StoredTable

Steps == {"idle", "persist", "put", "view", "taint_entry", "taint", "unroute",
          "clear", "remove", "move", "reroute", "untaint", "write"}

NoCall == [step |-> "idle", op |-> "none", path |-> None, dst |-> None,
           mount |-> None, old |-> None, then |-> "idle", snap |-> NoTable]

Protected(p) == \E q \in ProtectedPath : IsPrefix(q, p)

\* get_ancestor of the trie: the longest mounted prefix of p.
Ancestors(p) == {q \in Path : router[q] # None /\ IsPrefix(q, p)}
Matching(p) == CHOOSE q \in Ancestors(p) : \A r \in Ancestors(p) : Len(r) <= Len(q)
MatchingMount(p) == IF Ancestors(p) = {} THEN None ELSE router[Matching(p)]

\* Slip: the path of an entry is not serialised.
SerializedPathless ==
    [p \in Path |->
        IF table[p] = None THEN None
        ELSE [mount |-> table[p], path |-> None, tainted |-> table[p] \in entryTaint]]

\* serde's view of the table: every entry under its key.
Serialized ==
    [p \in Path |->
        IF table[p] = None THEN None
        ELSE [mount |-> table[p], path |-> entryPath[table[p]],
              tainted |-> table[p] \in entryTaint]]

\* set_default: the default mounts, under their own paths.
DefaultTable ==
    [p \in Path |->
        IF \E i \in DOMAIN DefaultMounts : DefaultMounts[i] = p
        THEN [mount |-> CHOOSE i \in DOMAIN DefaultMounts : DefaultMounts[i] = p,
              path |-> p, tainted |-> FALSE]
        ELSE None]

-----------------------------------------------------------------------------
EmptyMemory ==
    /\ up' = FALSE
    /\ table' = [p \in Path |-> None]
    /\ entryPath' = [m \in Mount |-> None]
    /\ entryTaint' = {}
    /\ router' = [p \in Path |-> None]
    /\ routerTaint' = {}

Init ==
    /\ stored = NoTable
    /\ data = {}
    /\ up = FALSE
    /\ table = [p \in Path |-> None]
    /\ entryPath = [m \in Mount |-> None]
    /\ entryTaint = {}
    /\ router = [p \in Path |-> None]
    /\ routerTaint = {}
    /\ call = [c \in Client |-> NoCall]
    /\ issued = Len(DefaultMounts)
    /\ acked = {}
    /\ gone = {}
    /\ remounted = {}
    /\ alone = TRUE

AllIdle == \A c \in Client : call[c].step = "idle"

\* A call that is refused before its first effect is a stuttering step.
Begin(c, new) ==
    /\ up
    /\ call[c].step = "idle"
    /\ call' = [call EXCEPT ![c] = new]
    /\ alone' = (alone /\ \A d \in Client \ {c} : call[d].step = "idle")

Goto(c, step) == call' = [call EXCEPT ![c].step = step]
Return(c) == call' = [call EXCEPT ![c] = NoCall]

-----------------------------------------------------------------------------
(* MountTable::persist *)

\* The table is read under its lock, written after the lock is released.
Persist(c) ==
    /\ call[c].step = "persist"
    /\ call' = [call EXCEPT ![c].step = "put", ![c].snap = Serialized]
    /\ UNCHANGED <<storageVars, up, tableVars, routerVars, historyVars>>

Put(c) ==
    /\ call[c].step = "put"
    /\ stored' = call[c].snap
    /\ IF call[c].then = "idle"
       THEN Return(c) ELSE call' = [call EXCEPT ![c].step = call[c].then, ![c].snap = NoTable]
    /\ acked' = IF call[c].op = "mount" THEN acked \cup {call[c].mount} ELSE acked
    /\ gone' = IF call[c].op = "unmount" /\ call[c].then = "idle"
               THEN gone \cup ({call[c].mount} \ {None}) ELSE gone
    /\ UNCHANGED <<data, up, tableVars, routerVars, issued, remounted, alone>>

\* The error ends the call.  remount puts the old path back, under a taint.
PutFails(c) ==
    /\ StorageFaults
    /\ call[c].step = "put"
    /\ Return(c)
    /\ IF call[c].op = "remount"
       THEN /\ entryPath' = [entryPath EXCEPT ![call[c].mount] = call[c].old]
            /\ entryTaint' = entryTaint \cup {call[c].mount}
       ELSE UNCHANGED <<entryPath, entryTaint>>
    /\ UNCHANGED <<storageVars, up, table, routerVars, historyVars>>

-----------------------------------------------------------------------------
(* Core::mount *)

\* Slip: nothing is checked against the routes.
MountCallOverwrites(c, p) ==
    /\ ~Protected(p)
    /\ issued < MaxMounts
    /\ LET m == issued + 1 IN
          /\ Begin(c, [NoCall EXCEPT !.op = "mount", !.step = "persist",
                                     !.path = p, !.mount = m])
          /\ router' = [router EXCEPT ![p] = m]
          /\ routerTaint' = routerTaint \ {p}
          /\ table' = [table EXCEPT ![p] = m]
          /\ entryPath' = [entryPath EXCEPT ![m] = p]
    /\ issued' = issued + 1
    /\ UNCHANGED <<storageVars, up, entryTaint, acked, gone, remounted>>

\* Checks, new uuid, router.mount and insert, all under the table's lock.
\* Only prefixes of p are in its way, not paths below it.
MountCall(c, p) ==
    /\ ~Protected(p)
    /\ Ancestors(p) = {}
    /\ issued < MaxMounts
    /\ LET m == issued + 1 IN
          /\ Begin(c, [NoCall EXCEPT !.op = "mount", !.step = "persist",
                                     !.path = p, !.mount = m])
          /\ router' = [router EXCEPT ![p] = m]
          /\ routerTaint' = routerTaint \ {p}
          /\ table' = [table EXCEPT ![p] = m]
          /\ entryPath' = [entryPath EXCEPT ![m] = p]
    /\ issued' = issued + 1
    /\ UNCHANGED <<storageVars, up, entryTaint, acked, gone, remounted>>

-----------------------------------------------------------------------------
(* Core::unmount *)

\* Slip: the protected paths are not looked at.
UnmountCallUnprotected(c, p) ==
    /\ router[p] # None
    /\ Begin(c, [NoCall EXCEPT !.op = "unmount", !.step = "view", !.path = p])
    /\ acked' = acked \ {router[p]}
    /\ UNCHANGED <<storageVars, up, tableVars, routerVars, issued, gone, remounted>>

UnmountCall(c, p) ==
    /\ ~Protected(p)
    /\ router[p] # None
    /\ Begin(c, [NoCall EXCEPT !.op = "unmount", !.step = "view", !.path = p])
    /\ acked' = acked \ {router[p]}
    /\ UNCHANGED <<storageVars, up, tableVars, routerVars, issued, gone, remounted>>

\* matching_view: the view to clear later.
UnmountView(c) ==
    /\ call[c].step = "view"
    /\ call' = [call EXCEPT ![c].step = "taint_entry",
                            ![c].mount = MatchingMount(call[c].path)]
    /\ UNCHANGED <<storageVars, up, tableVars, routerVars, historyVars>>

\* taint_mount_entry: persists only if the table has the key.
UnmountTaintEntry(c) ==
    /\ call[c].step = "taint_entry"
    /\ LET m == table[call[c].path] IN
          IF m = None
          THEN Goto(c, "taint") /\ UNCHANGED entryTaint
          ELSE /\ entryTaint' = entryTaint \cup {m}
               /\ call' = [call EXCEPT ![c].step = "persist", ![c].then = "taint"]
    /\ UNCHANGED <<storageVars, up, table, entryPath, routerVars, historyVars>>

\* router.taint fails if somebody else removed the path meanwhile.
UnmountTaint(c) ==
    /\ call[c].step = "taint"
    /\ IF router[call[c].path] = None
       THEN Return(c) /\ UNCHANGED routerTaint
       ELSE Goto(c, "unroute") /\ routerTaint' = routerTaint \cup {call[c].path}
    /\ UNCHANGED <<storageVars, up, tableVars, router, historyVars>>

UnmountRoute(c) ==
    /\ call[c].step = "unroute"
    /\ router' = [router EXCEPT ![call[c].path] = None]
    /\ routerTaint' = routerTaint \ {call[c].path}
    /\ Goto(c, "clear")
    /\ UNCHANGED <<storageVars, up, tableVars, historyVars>>

\* view.clear deletes key by key: an error may leave some of the data.
UnmountClear(c) ==
    /\ call[c].step = "clear"
    /\ \/ data' = data \ {call[c].mount} /\ Goto(c, "remove")
       \/ StorageFaults /\ Return(c) /\ UNCHANGED data
    /\ UNCHANGED <<stored, up, tableVars, routerVars, historyVars>>

\* Slip: the entry leaves the table, but the table is not written.
UnmountRemoveUnsaved(c) ==
    /\ call[c].step = "remove"
    /\ table' = [table EXCEPT ![call[c].path] = None]
    /\ Return(c)
    /\ gone' = gone \cup ({call[c].mount} \ {None})
    /\ UNCHANGED <<storageVars, up, entryPath, entryTaint, routerVars, issued, acked,
                   remounted, alone>>

\* remove_mount_entry: persists only if the table had the key.
UnmountRemove(c) ==
    /\ call[c].step = "remove"
    /\ table' = [table EXCEPT ![call[c].path] = None]
    /\ IF table[call[c].path] = None
       THEN Return(c) /\ gone' = gone \cup ({call[c].mount} \ {None})
       ELSE /\ call' = [call EXCEPT ![c].step = "persist", ![c].then = "idle"]
            /\ UNCHANGED gone
    /\ UNCHANGED <<storageVars, up, entryPath, entryTaint, routerVars, issued, acked,
                   remounted, alone>>

-----------------------------------------------------------------------------
(* Core::remount, and the checks of handle_remount before it *)

RemountCall(c, src, dst) ==
    /\ ~Protected(src) /\ ~Protected(dst)
    /\ Ancestors(dst) = {}
    /\ Ancestors(src) # {}
    /\ Begin(c, [NoCall EXCEPT !.op = "remount", !.step = "move", !.path = src,
                               !.dst = dst, !.mount = MatchingMount(src)])
    /\ UNCHANGED <<storageVars, up, tableVars, routerVars, issued, acked, gone, remounted>>

\* Under the lock of the entry: taint it, taint the route, look at dst again,
\* change the path.  The entry stays tainted when src is only below the mount
\* or somebody took dst.  The key of the entry in the table does not change.
RemountMove(c) ==
    /\ call[c].step = "move"
    /\ LET src == call[c].path
           dst == call[c].dst
           m   == call[c].mount
       IN  /\ remounted' = remounted \cup {m}
           /\ routerTaint' = IF router[src] = None THEN routerTaint
                             ELSE routerTaint \cup {src}
           /\ IF router[src] = None \/ Ancestors(dst) # {}
              THEN /\ entryTaint' = entryTaint \cup {m}
                   /\ Return(c)
                   /\ UNCHANGED entryPath
              ELSE /\ entryTaint' = entryTaint \ {m}
                   /\ entryPath' = [entryPath EXCEPT ![m] = dst]
                   /\ call' = [call EXCEPT ![c].step = "persist",
                                           ![c].then = "reroute",
                                           ![c].old = entryPath[m]]
    /\ UNCHANGED <<storageVars, up, table, router, issued, acked, gone, alone>>

\* Slip: the entry is copied to the new path and stays at the old one.
RemountRouteCopies(c) ==
    /\ call[c].step = "reroute"
    /\ router' = [router EXCEPT ![call[c].dst] = router[call[c].path]]
    /\ routerTaint' = routerTaint \cup {call[c].dst}
    /\ Goto(c, "untaint")
    /\ UNCHANGED <<storageVars, up, tableVars, historyVars>>

\* router.remount moves whatever is at src now over whatever is at dst now.
RemountRoute(c) ==
    /\ call[c].step = "reroute"
    /\ LET src == call[c].path
           dst == call[c].dst
       IN  IF router[src] = None
           THEN Return(c) /\ UNCHANGED routerVars
           ELSE /\ router' = [router EXCEPT ![src] = None, ![dst] = router[src]]
                /\ routerTaint' = IF src \in routerTaint
                                  THEN (routerTaint \ {src}) \cup {dst}
                                  ELSE routerTaint \ {dst}
                /\ Goto(c, "untaint")
    /\ UNCHANGED <<storageVars, up, tableVars, historyVars>>

RemountUntaint(c) ==
    /\ call[c].step = "untaint"
    /\ routerTaint' = routerTaint \ {call[c].dst}
    /\ Return(c)
    /\ UNCHANGED <<storageVars, up, tableVars, router, historyVars>>

-----------------------------------------------------------------------------
(* Router::handle_request, for a request that writes below path p *)

\* The view is taken under the lock of the trie, used after it.
WriteCall(c, p) ==
    /\ Ancestors(p) # {} /\ Matching(p) \notin routerTaint
    /\ Begin(c, [NoCall EXCEPT !.op = "write", !.step = "write",
                               !.mount = MatchingMount(p)])
    /\ UNCHANGED <<storageVars, up, tableVars, routerVars, issued, acked, gone, remounted>>

WriteData(c) ==
    /\ call[c].step = "write"
    /\ data' = data \cup {call[c].mount}
    /\ Return(c)
    /\ UNCHANGED <<stored, up, tableVars, routerVars, historyVars>>

-----------------------------------------------------------------------------
(* Seal, unseal, crash *)

\* unload_mounts.
Seal ==
    /\ up
    /\ AllIdle
    /\ EmptyMemory
    /\ UNCHANGED <<storageVars, call, historyVars>>

\* load: the table is what was stored, the entries are new objects.
Load(t) ==
    /\ table' = [p \in Path |-> IF t[p] = None THEN None ELSE t[p].mount]
    /\ entryPath' = [m \in Mount |->
          IF \E p \in Path : t[p] # None /\ t[p].mount = m
          THEN t[CHOOSE p \in Path : t[p] # None /\ t[p].mount = m].path
          ELSE None]
    /\ entryTaint' = {m \in Mount :
          \E p \in Path : t[p] # None /\ t[p].mount = m /\ t[p].tainted}

Keys(t) == {p \in Path : t[p] # None}

\* setup_mounts walks a HashMap, in any order, and router.mount refuses a path
\* below one that is already mounted: two nested paths fit in one order only,
\* two equal ones in none.
MayFit(t) == \A p, q \in Keys(t) : t[p].path = t[q].path => p = q
MayClash(t) == \E p, q \in Keys(t) : p # q /\ IsPrefix(t[p].path, t[q].path)

\* Routes of a table that fits.
RoutesOf(t) ==
    [r \in Path |->
        IF \E p \in Keys(t) : t[p].path = r
        THEN t[CHOOSE p \in Keys(t) : t[p].path = r].mount
        ELSE None]

\* load_or_default and setup_mounts, as post_unseal calls them.
Unseal ==
    /\ ~up
    /\ LET t == IF stored = NoTable THEN DefaultTable ELSE stored IN
          /\ stored' = t
          /\ MayFit(t)
          /\ Load(t)
          /\ router' = RoutesOf(t)
          /\ routerTaint' = {t[p].path : p \in {q \in Keys(t) : t[q].tainted}}
    /\ up' = TRUE
    /\ UNCHANGED <<data, call, historyVars>>

\* The unseal fails: what it loaded goes with the seal that must come next,
\* the default table stays written if the error came after persist.
UnsealFails ==
    /\ ~up
    /\ \/ StorageFaults /\ UNCHANGED stored
       \/ LET t == IF stored = NoTable THEN DefaultTable ELSE stored IN
             /\ StorageFaults \/ MayClash(t)
             /\ stored' = t
    /\ UNCHANGED <<data, up, tableVars, routerVars, call, historyVars>>

Crash ==
    /\ Crashes
    /\ EmptyMemory
    /\ call' = [c \in Client |-> NoCall]
    /\ UNCHANGED <<storageVars, historyVars>>

-----------------------------------------------------------------------------
ClientStep(c) ==
    \/ Persist(c) \/ Put(c) \/ PutFails(c)
    \/ UnmountView(c) \/ UnmountTaintEntry(c) \/ UnmountTaint(c) \/ UnmountRoute(c)
    \/ UnmountClear(c) \/ UnmountRemove(c)
    \/ RemountMove(c) \/ RemountRoute(c) \/ RemountUntaint(c)
    \/ WriteData(c)

ClientCall(c) ==
    \/ \E p \in Path : MountCall(c, p) \/ UnmountCall(c, p) \/ WriteCall(c, p)
    \/ \E src, dst \in Path : RemountCall(c, src, dst)

Next ==
    \/ \E c \in Client : ClientCall(c) \/ ClientStep(c)
    \/ Seal \/ Unseal \/ UnsealFails \/ Crash

Spec == Init /\ [][Next]_vars

-----------------------------------------------------------------------------
(* Properties *)

Call == [step : Steps, op : {"none", "mount", "unmount", "remount", "write"},
         path : Path \cup {None}, dst : Path \cup {None}, mount : MountOrNone,
         old : Path \cup {None}, then : {"idle", "taint", "reroute"},
         snap : StoredTable \cup {NoTable}]

\* The types of the variables.
TypeOK ==
    /\ stored \in StoredTable \cup {NoTable}
    /\ data \in SUBSET Mount
    /\ up \in BOOLEAN
    /\ table \in [Path -> MountOrNone]
    /\ entryPath \in [Mount -> Path \cup {None}]
    /\ entryTaint \in SUBSET Mount
    /\ router \in [Path -> MountOrNone]
    /\ routerTaint \in SUBSET Path
    /\ call \in [Client -> Call]
    /\ issued \in 0 .. MaxMounts
    /\ acked \in SUBSET Mount
    /\ gone \in SUBSET Mount
    /\ remounted \in SUBSET Mount
    /\ alone \in BOOLEAN

\* The system help text promises that sys/ "cannot be remounted or unmounted":
\* whatever the clients do at once, and whatever crashes, an unsealed vault
\* routes every protected default mount, untainted.
ProtectedRouted ==
    up => \A i \in DOMAIN DefaultMounts :
              Protected(DefaultMounts[i]) => /\ router[DefaultMounts[i]] = i
                                            /\ DefaultMounts[i] \notin routerTaint

\* No two paths lead to the data of one mount, even while mounts, unmounts
\* and remounts overlap, and no stored table says so either.
NoSharedView ==
    /\ \A p, q \in Path : router[p] # None /\ router[p] = router[q] => p = q
    /\ stored # NoTable =>
          \A p, q \in Keys(stored) : stored[p].mount = stored[q].mount => p = q

\* The routes are sound: the protected ones stand, and each mount has one path.
RoutesSound == ProtectedRouted /\ NoSharedView

\* With calls one at a time, a mount that was acknowledged is in storage, at
\* its path and untainted, until it is unmounted or touched by a remount:
\* no crash, seal, or failed call on another mount loses it.
AckedStored ==
    alone => \A m \in acked \ remounted :
                 \E p \in Path : stored[p] = [mount |-> m, path |-> p, tainted |-> FALSE]

\* With calls one at a time, a mount whose unmount was acknowledged never
\* comes back: it is not stored, not routed and its data is deleted.  (A
\* remount breaks this: the entry stays under its old key, where unmount does
\* not find it.)
GoneStaysGone ==
    alone => \A m \in gone \ remounted :
                 /\ m \notin data
                 /\ \A p \in Path : router[p] # m /\ table[p] # m
                 /\ \A p \in Keys(stored) : stored[p].mount # m
=============================================================================
