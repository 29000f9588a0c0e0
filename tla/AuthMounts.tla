----------------------------- MODULE AuthMounts -----------------------------
(***************************************************************************)
(* The auth methods: the second table of the same kind, at core/auth, and  *)
(* its routes below auth/ (src/src/modules/auth/mod.rs).  enable_auth,     *)
(* disable_auth and remount_auth take the steps of mount, unmount and      *)
(* remount on their own table; this module holds what differs.  A path of  *)
(* Mounts is here the path below auth/, DefaultMounts is token/ alone.     *)
(*                                                                         *)
(* The trie is the one the core mounts are in.  Twice the code looks up a  *)
(* method there without auth/ in front of its path, and meets the core     *)
(* mount of that name: when it enables a method, and when it taints one at *)
(* unseal.                                                                 *)
(***************************************************************************)
EXTENDS Mounts

CONSTANT CorePath  \* where core mounts may be, of the paths of Path

\* A method at auth/auth/ would be looked up at the path of another method;
\* such paths are left out.
ASSUME CoreAssumption == CorePath \subseteq Path /\ \A p \in Path : Head(p) # "auth"

VARIABLES
    core,           \* the paths of the core mounts in the trie
    coreTaint,      \* the core mounts that setup_auth tainted
    taken           \* history: every path a method ever had

authVars == <<vars, core, coreTaint, taken>>

\* Disabling looks for the path itself, not for the paths above it; token/,
\* the only default method, is the one of PROTECTED_AUTHS.
ASSUME TokenAssumption ==
    \A i \in DOMAIN DefaultMounts :
        Protected(DefaultMounts[i]) => DefaultMounts[i] \in ProtectedPath

\* The new path may be neither above nor below the path of any entry, the
\* entries that are no longer routed included, nor below a core mount: the
\* path without auth/ is looked up.
EnableRefused(p) ==
    \/ \E k \in Path : /\ table[k] # None
                       /\ \/ IsPrefix(entryPath[table[k]], p)
                          \/ IsPrefix(p, entryPath[table[k]])
    \/ \E q \in core : IsPrefix(q, p)

Enable(c, p) == ~EnableRefused(p) /\ MountCall(c, p)

\* No look at the router first: the view is the one of the longest prefix,
\* and a path that is not routed fails at router.taint.
Disable(c, p) ==
    /\ p \notin ProtectedPath
    /\ Begin(c, [NoCall EXCEPT !.op = "unmount", !.step = "view", !.path = p])
    /\ acked' = acked \ {router[p]}
    /\ UNCHANGED <<storageVars, up, tableVars, routerVars, issued, gone, remounted>>

\* load_auth takes any error of load for a missing table, and writes the
\* default one over whatever is there.
LoadOutcomes ==
    (IF stored = NoTable THEN {} ELSE {stored})
        \cup (IF stored = NoTable \/ StorageFaults THEN {DefaultTable} ELSE {})

\* setup_auth: router.taint gets the path without auth/, so that a tainted
\* entry taints the core mount of its name, and fails the unseal if there is
\* none; its own route is not tainted.
TaintedPaths(t) == {t[p].path : p \in {q \in Keys(t) : t[q].tainted}}
SetupFits(t) == MayFit(t) /\ TaintedPaths(t) \subseteq core

AuthUnseal ==
    /\ ~up
    /\ \E t \in LoadOutcomes :
          /\ stored' = t
          /\ SetupFits(t)
          /\ Load(t)
          /\ router' = RoutesOf(t)
          /\ coreTaint' = TaintedPaths(t)
    /\ routerTaint' = {}
    /\ up' = TRUE
    /\ UNCHANGED <<data, call, historyVars, core>>

AuthUnsealFails ==
    /\ ~up
    /\ \E t \in LoadOutcomes :
          /\ stored' = t
          /\ MayClash(t) \/ ~SetupFits(t)
    /\ UNCHANGED <<data, up, tableVars, routerVars, call, historyVars, core, coreTaint>>

\* A seal or a crash drops the trie; the core's table loads again as it was.
AuthSeal == (Seal \/ Crash) /\ coreTaint' = {} /\ UNCHANGED core

\* Core::mount and Core::unmount at p, which have nothing to do with the
\* methods' table (Mounts models them).
CoreCall(p) ==
    /\ up
    /\ core' = IF p \in core THEN core \ {p} ELSE core \cup {p}
    /\ coreTaint' = coreTaint \ {p}
    /\ UNCHANGED vars

AuthCall(c) ==
    \/ \E p \in Path : Enable(c, p) \/ Disable(c, p) \/ WriteCall(c, p)
    \/ \E src, dst \in Path : RemountCall(c, src, dst)

AuthInit == Init /\ core \in SUBSET CorePath /\ coreTaint = {} /\ taken = {}

AuthNext ==
    /\ \/ \E c \in Client : (AuthCall(c) \/ ClientStep(c)) /\ UNCHANGED <<core, coreTaint>>
       \/ AuthSeal \/ AuthUnseal \/ AuthUnsealFails
       \/ \E p \in CorePath : CoreCall(p)
    /\ taken' = taken \cup ({entryPath'[m] : m \in Mount} \ {None})

AuthSpec == AuthInit /\ [][AuthNext]_authVars

-----------------------------------------------------------------------------
\* A core mount loses its requests to the table of auth methods (its route is
\* tainted at an unseal) only if a method once had its path: not by methods at
\* other paths, however calls on them overlap, fail and are cut by crashes.
\* (A method moved to auth/sys and left tainted does taint sys/.)
CoreSpared == coreTaint \subseteq taken

\* The routes of the methods are sound: token/ stays routed and untainted, no
\* two paths lead to one method's data, and the core mounts are spared.
MethodRoutesSound == RoutesSound /\ CoreSpared
=============================================================================
