-------------------------- MODULE MountsAloneProofs --------------------------
(* Proofs about the mount table when its calls come one at a time: what was *)
(* acknowledged stays, what was unmounted stays away.                       *)
EXTENDS MountsProofs

-----------------------------------------------------------------------------
(* The inductive invariant *)

\* What the history may name, and where the table of an unsealed vault is.
HistoryInv ==
    /\ up => stored # NoTable
    /\ acked \cup gone # {} => stored # NoTable
    /\ \A m \in acked \cup gone \cup entryTaint : m <= issued
    /\ \A c \in Client : call[c].mount # None => call[c].mount <= issued

\* Mount m is at path p: the table, its entry and the trie agree.
AtHome(m, p) == table[p] = m /\ router[p] = m /\ entryPath[m] = p /\ m \notin entryTaint

\* Table t has mount m at path p.
Keeps(t, m, p) == t[p] # None /\ t[p].mount = m /\ t[p].path = p /\ ~t[p].tainted

\* Table t has mount m nowhere.
Lacks(t, m) == \A p \in Path : t[p] # None => t[p].mount # m

\* A mount that no remount touched has its key for its path.
PathIsKey(t, moved) == \A p \in Path : t[p] # None /\ t[p].mount \notin moved => t[p].path = p

HomeInv ==
    /\ \A p \in Path : table[p] # None /\ table[p] \notin remounted => entryPath[table[p]] = p
    /\ \A p \in Path : router[p] # None /\ router[p] \notin remounted => table[p] = router[p]
    /\ stored # NoTable => PathIsKey(stored, remounted)
    /\ \A c \in Client : call[c].step = "put" => PathIsKey(call[c].snap, remounted)

AckedInv ==
    \A m \in acked \ remounted : \E p \in Path :
        /\ Keeps(stored, m, p)
        /\ up => AtHome(m, p)
        /\ \A c \in Client : call[c].step = "put" => Keeps(call[c].snap, m, p)

\* Nothing in memory or in storage leads to m or holds its data.
Away(m) ==
    /\ m \notin data
    /\ \A p \in Path : router[p] # m /\ table[p] # m
    /\ \A c \in Client : call[c].step = "put" => Lacks(call[c].snap, m)

GoneInv == \A m \in gone \ remounted : Away(m) /\ Lacks(stored, m)

Unrouted(m) == \A p \in Path : router[p] # m

\* Where the one call is.
MountAlone(c) ==
    /\ AtHome(call[c].mount, call[c].path)
    /\ call[c].step = "put" => Keeps(call[c].snap, call[c].mount, call[c].path)

UnmountAlone(c) ==
    LET p == call[c].path
        m == call[c].mount
        persisting == call[c].step \in {"persist", "put"}
    IN  /\ table[p] \notin acked \ remounted
        /\ router[p] \notin acked \ remounted
        /\ call[c].step = "view" => router[p] # None
        /\ call[c].step \in {"taint_entry", "taint", "unroute"} => m # None /\ router[p] = m
        /\ persisting /\ call[c].then = "taint" => m # None /\ router[p] = m
        /\ call[c].step \in {"clear", "remove"} =>
              m # None /\ Unrouted(m) /\ router[p] = None /\ (m \notin remounted => table[p] = m)
        /\ call[c].step = "remove" => m \notin data
        /\ persisting /\ call[c].then = "idle" => m # None /\ (m \notin remounted => Away(m))

RemountAlone(c) ==
    /\ call[c].step = "move" => router[call[c].path] \in {call[c].mount, None}
    /\ call[c].step \in {"persist", "put", "reroute"} =>
          /\ call[c].mount \in remounted
          /\ router[call[c].path] = call[c].mount
          /\ router[call[c].dst] = None

CallAlone(c) ==
    /\ call[c].op = "mount" => MountAlone(c)
    /\ call[c].op = "unmount" => UnmountAlone(c)
    /\ call[c].op = "remount" => RemountAlone(c)
    /\ call[c].op = "write" => \E p \in Path : router[p] = call[c].mount

OneCall == \A c, d \in Client : call[c].step # "idle" /\ call[d].step # "idle" => c = d

AloneInv == alone => OneCall /\ HomeInv /\ AckedInv /\ GoneInv /\ \A c \in Client : CallAlone(c)

JInv == IInv /\ HistoryInv /\ AloneInv

-----------------------------------------------------------------------------
(* What is serialised and what is loaded *)

LEMMA SerializedFacts ==
  ASSUME IInv, NEW p \in Path
  PROVE  /\ table[p] = None => Serialized[p] = None
         /\ table[p] # None => /\ Serialized[p] # None
                               /\ Serialized[p].mount = table[p]
                               /\ Serialized[p].path = entryPath[table[p]]
                               /\ table[p] \notin entryTaint => ~Serialized[p].tainted
<1>1. CASE table[p] = None
  BY <1>1 DEF Serialized
<1>2. CASE table[p] # None
  <2>1. table[p] \in Mount /\ entryPath[table[p]] \in Path
    BY <1>2 DEF IInv, TypeOK, MemoryInv, Known, MountOrNone
  <2>2. Serialized[p] = [mount |-> table[p], path |-> entryPath[table[p]],
                         tainted |-> table[p] \in entryTaint]
    BY <1>2 DEF Serialized
  <2>3. Serialized[p] \in StoredEntry
    BY <2>1, <2>2 DEF StoredEntry
  <2>4. ASSUME table[p] \notin entryTaint PROVE ~Serialized[p].tainted
    <3>1. (table[p] \in entryTaint) = FALSE
      BY <2>4
    <3>2. Serialized[p] = [mount |-> table[p], path |-> entryPath[table[p]], tainted |-> FALSE]
      BY <2>2, <3>1
    <3> QED BY <3>2
  <2> QED BY <1>2, <2>2, <2>3, <2>4, NoneAssumption
<1> QED BY <1>1, <1>2

LEMMA SerializedKeeps ==
  ASSUME IInv, NEW m \in Mount, NEW p \in Path, AtHome(m, p)
  PROVE  Keeps(Serialized, m, p)
<1>1. table[p] = m /\ entryPath[m] = p /\ m \notin entryTaint /\ m # None
  BY ConstantFacts DEF AtHome
<1> QED BY <1>1, SerializedFacts DEF Keeps

LEMMA SerializedLacks ==
  ASSUME IInv, NEW m, \A p \in Path : table[p] # m
  PROVE  Lacks(Serialized, m)
  BY SerializedFacts DEF Lacks

LEMMA SerializedPathIsKey ==
  ASSUME IInv, HomeInv
  PROVE  PathIsKey(Serialized, remounted)
  BY SerializedFacts DEF PathIsKey, HomeInv

LEMMA LoadFacts ==
  ASSUME NEW t \in StoredTable, Loadable(t, issued), MayFit(t), Load(t), router' = RoutesOf(t)
  PROVE  /\ \A p \in Path : t[p] = None => table'[p] = None
         /\ \A p \in Path : t[p] # None =>
               /\ t[p].mount \in Mount /\ t[p].path \in Path
               /\ table'[p] = t[p].mount
               /\ entryPath'[t[p].mount] = t[p].path
               /\ router'[t[p].path] = t[p].mount
               /\ ~t[p].tainted => t[p].mount \notin entryTaint'
         /\ \A r \in Path : router'[r] # None =>
               \E p \in Path : t[p] # None /\ t[p].path = r /\ router'[r] = t[p].mount
<1> DEFINE At(m) == CHOOSE p \in Path : t[p] # None /\ t[p].mount = m
           Key(r) == CHOOSE p \in Keys(t) : t[p].path = r
<1>1. \A p \in Path : t[p] # None => t[p].mount \in Mount /\ t[p].path \in Path
  BY DEF StoredTable, StoredEntry
<1>2. \A p \in Path : t[p] # None => At(t[p].mount) = p
  BY DEF Loadable, OneKey
<1>3. \A p \in Path : t[p] # None => entryPath'[t[p].mount] = t[p].path
  BY <1>1, <1>2 DEF Load
<1>4. \A p \in Keys(t) : Key(t[p].path) = p
  BY DEF MayFit
<1>5. \A p \in Keys(t) : router'[t[p].path] = t[p].mount
  BY <1>1, <1>4 DEF RoutesOf, Keys
<1>6. \A r \in Path : router'[r] # None =>
         \E p \in Path : t[p] # None /\ t[p].path = r /\ router'[r] = t[p].mount
  BY <1>5 DEF RoutesOf, Keys
<1>7. \A p \in Path : t[p] # None /\ ~t[p].tainted => t[p].mount \notin entryTaint'
  BY DEF Load, Loadable, OneKey
<1>8. \A p \in Path : table'[p] = IF t[p] = None THEN None ELSE t[p].mount
  BY DEF Load
<1> QED BY <1>1, <1>3, <1>5, <1>6, <1>7, <1>8 DEF Keys

-----------------------------------------------------------------------------
(* The calls of the others *)

LEMMA OthersIdle ==
  ASSUME JInv, alone, NEW c \in Client,
         call[c].step # "idle", \A d \in Client \ {c} : call'[d] = call[d]
  PROVE  \A d \in Client \ {c} : call'[d].step = "idle" /\ call'[d].op = "none"
<1> SUFFICES ASSUME NEW d \in Client \ {c} PROVE call[d].step = "idle" /\ call[d].op = "none"
  OBVIOUS
<1>1. call[d].step = "idle"
  BY DEF JInv, AloneInv, OneCall
<1> QED BY <1>1 DEF JInv, IInv, CallInv, CallOK

\* With the others idle, the invariant is about the memory and one call.
LEMMA AloneIntro ==
  ASSUME NEW c \in Client,
         \A d \in Client \ {c} : call'[d].step = "idle" /\ call'[d].op = "none",
         HomeInv', AckedInv', GoneInv', CallAlone(c)'
  PROVE  AloneInv'
<1>1. OneCall'
  BY DEF OneCall
<1>2. \A d \in Client : CallAlone(d)'
  BY DEF CallAlone
<1> QED BY <1>1, <1>2 DEF AloneInv

LEMMA AloneFacts ==
  ASSUME JInv, alone
  PROVE  /\ IInv /\ TypeOK /\ MemoryInv /\ HomeInv /\ AckedInv /\ GoneInv /\ OneCall
         /\ \A c \in Client : call[c] \in Call /\ CallOK(c) /\ CallAlone(c)
  BY DEF JInv, IInv, TypeOK, CallInv, AloneInv

\* A step that moves the call alone, and not to a put.
LEMMA OnlyTheCall ==
  ASSUME JInv, alone, NEW c \in Client,
         UNCHANGED <<stored, data, up, table, entryPath, entryTaint, router, acked, gone, remounted>>,
         \A d \in Client \ {c} : call'[d].step = "idle" /\ call'[d].op = "none",
         call'[c].step # "put"
  PROVE  HomeInv' /\ AckedInv' /\ GoneInv'
<1>1. \A d \in Client : call'[d].step # "put"
  OBVIOUS
<1>2. HomeInv'
  BY <1>1, AloneFacts DEF HomeInv
<1>3. AckedInv'
  BY <1>1, AloneFacts DEF AckedInv, AtHome
<1>4. GoneInv'
  BY <1>1, AloneFacts DEF GoneInv, Away
<1> QED BY <1>2, <1>3, <1>4

LEMMA ReturnAlone ==
  ASSUME JInv, NEW c \in Client, Return(c)
  PROVE  /\ call'[c] = NoCall /\ call'[c].step = "idle" /\ CallAlone(c)'
         /\ \A d \in Client \ {c} : call'[d] = call[d]
<1>1. call'[c] = NoCall /\ \A d \in Client \ {c} : call'[d] = call[d]
  BY DEF Return, JInv, IInv, TypeOK
<1>2. call'[c].op = "none" /\ call'[c].step = "idle"
  BY <1>1 DEF NoCall
<1> QED BY <1>1, <1>2 DEF CallAlone

-----------------------------------------------------------------------------
(* Each step of a call *)

LEMMA PersistAlone ==
  ASSUME JInv, alone, NEW c \in Client, Persist(c)
  PROVE  AloneInv'
<1> USE DEF storageVars, tableVars, routerVars, historyVars
<1>0. /\ UNCHANGED <<storageVars, up, tableVars, routerVars, historyVars>>
      /\ call[c].step = "persist" /\ call[c] \in Call /\ up
  BY AloneFacts DEF Persist, CallOK
<1>1. /\ call'[c].step = "put" /\ call'[c].snap = Serialized
      /\ call'[c].op = call[c].op /\ call'[c].then = call[c].then
      /\ call'[c].path = call[c].path /\ call'[c].dst = call[c].dst
      /\ call'[c].mount = call[c].mount
      /\ \A d \in Client \ {c} : call'[d] = call[d]
  BY <1>0 DEF Persist, JInv, IInv, TypeOK, Call
<1>2. \A d \in Client \ {c} : call'[d].step = "idle" /\ call'[d].op = "none"
  BY <1>0, <1>1, OthersIdle
<1>3. HomeInv'
  <2>1. PathIsKey(Serialized, remounted)
    BY AloneFacts, SerializedPathIsKey
  <2> QED BY <1>0, <1>1, <1>2, <2>1, AloneFacts DEF HomeInv
<1>4. AckedInv'
  <2> SUFFICES ASSUME NEW m \in acked \ remounted
               PROVE  \E p \in Path :
                         /\ Keeps(stored, m, p) /\ AtHome(m, p)'
                         /\ \A d \in Client : call'[d].step = "put" => Keeps(call'[d].snap, m, p)
    BY <1>0 DEF AckedInv
  <2>1. PICK p \in Path : Keeps(stored, m, p) /\ AtHome(m, p)
    BY <1>0, AloneFacts DEF AckedInv
  <2>2. Keeps(Serialized, m, p)
    BY <2>1, AloneFacts, SerializedKeeps DEF TypeOK
  <2>3. AtHome(m, p)'
    BY <1>0, <2>1 DEF AtHome
  <2> QED BY <1>1, <1>2, <2>1, <2>2, <2>3
<1>5. GoneInv'
  <2> SUFFICES ASSUME NEW m \in gone \ remounted PROVE Away(m)' /\ Lacks(stored, m)
    BY <1>0 DEF GoneInv
  <2>1. Away(m) /\ Lacks(stored, m)
    BY AloneFacts DEF GoneInv
  <2>2. Lacks(Serialized, m)
    BY <2>1, AloneFacts, SerializedLacks DEF Away
  <2> QED BY <1>0, <1>1, <1>2, <2>1, <2>2 DEF Away
<1>6. CallAlone(c)'
  <2>1. CASE call[c].op = "mount"
    <3>1. AtHome(call[c].mount, call[c].path) /\ call[c].mount \in Mount /\ call[c].path \in Path
      BY <1>0, <2>1, AloneFacts DEF CallAlone, MountAlone, CallOK, Call, MountOrNone
    <3>2. Keeps(Serialized, call[c].mount, call[c].path)
      BY <3>1, AloneFacts, SerializedKeeps
    <3> QED BY <1>0, <1>1, <2>1, <3>1, <3>2 DEF CallAlone, MountAlone, AtHome
  <2>2. CASE call[c].op = "unmount"
    <3>1. UnmountAlone(c)
      BY <2>2, AloneFacts DEF CallAlone
    <3>2. ASSUME NEW m, Away(m) PROVE Away(m)'
      <4>1. Lacks(Serialized, m)
        BY <3>2, AloneFacts, SerializedLacks DEF Away
      <4> QED BY <1>0, <1>1, <1>2, <3>2, <4>1 DEF Away
    <3>3. UnmountAlone(c)'
      BY <1>0, <1>1, <3>1, <3>2 DEF UnmountAlone
    <3> QED BY <1>1, <2>2, <3>3 DEF CallAlone
  <2>3. CASE call[c].op = "remount"
    BY <1>0, <1>1, <2>3, AloneFacts DEF CallAlone, RemountAlone
  <2>4. CASE call[c].op \in {"none", "write"}
    BY <1>0, <1>1, <2>4, AloneFacts DEF CallAlone
  <2> QED BY <1>0, <2>1, <2>2, <2>3, <2>4 DEF Call
<1> QED BY <1>2, <1>3, <1>4, <1>5, <1>6, AloneIntro

LEMMA PutAlone ==
  ASSUME JInv, alone, NEW c \in Client, Put(c)
  PROVE  AloneInv'
<1> USE DEF storageVars, tableVars, routerVars, historyVars
<1>0. /\ UNCHANGED <<data, up, tableVars, routerVars, issued, remounted, alone>>
      /\ call[c].step = "put" /\ call[c] \in Call /\ up /\ stored' = call[c].snap
  BY AloneFacts DEF Put, CallOK
<1>1. /\ \A d \in Client \ {c} : call'[d] = call[d]
      /\ call'[c].step # "put"
      /\ CallAlone(c)'
  <2>1. CASE call[c].then = "idle"
    BY <2>1, ReturnAlone DEF Put
  <2>2. CASE call[c].then # "idle"
    <3>1. call' = [call EXCEPT ![c].step = call[c].then, ![c].snap = NoTable]
      BY <2>2 DEF Put
    <3>2. /\ call'[c].step = call[c].then /\ call[c].then \in {"taint", "reroute"}
          /\ call'[c].op = call[c].op /\ call'[c].then = call[c].then
          /\ call'[c].path = call[c].path /\ call'[c].dst = call[c].dst
          /\ call'[c].mount = call[c].mount
      BY <1>0, <2>2, <3>1 DEF JInv, IInv, TypeOK, Call
    <3>3. /\ call[c].op \in {"unmount", "remount"} /\ CallAlone(c)
          /\ call[c].op = "unmount" => call[c].then = "taint"
          /\ call[c].op = "remount" => call[c].then = "reroute"
          /\ acked' = acked
      BY <1>0, <3>2, AloneFacts DEF CallOK, Put
    <3>4. CallAlone(c)'
      BY <1>0, <3>2, <3>3 DEF CallAlone, UnmountAlone, RemountAlone
    <3>5. \A d \in Client \ {c} : call'[d] = call[d]
      BY <3>1 DEF JInv, IInv, TypeOK
    <3> QED BY <3>2, <3>4, <3>5
  <2> QED BY <2>1, <2>2
<1>2. \A d \in Client \ {c} : call'[d].step = "idle" /\ call'[d].op = "none"
  BY <1>0, <1>1, OthersIdle
<1>3. \A d \in Client : call'[d].step # "put"
  BY <1>1, <1>2
<1>4. HomeInv'
  BY <1>0, <1>3, AloneFacts DEF HomeInv
<1>5. AckedInv'
  <2> SUFFICES ASSUME NEW m \in acked' \ remounted
               PROVE  \E p \in Path : Keeps(call[c].snap, m, p) /\ AtHome(m, p)
    BY <1>0, <1>3 DEF AckedInv, AtHome
  <2>1. CASE m \in acked
    BY <1>0, <2>1, AloneFacts DEF AckedInv
  <2>2. CASE m \notin acked
    <3>1. call[c].op = "mount" /\ m = call[c].mount
      BY <2>2 DEF Put
    <3> QED BY <1>0, <3>1, AloneFacts DEF CallAlone, MountAlone, CallOK, Call
  <2> QED BY <2>1, <2>2
<1>6. GoneInv'
  <2> SUFFICES ASSUME NEW m \in gone' \ remounted PROVE Away(m)' /\ Lacks(call[c].snap, m)
    BY <1>0 DEF GoneInv
  <2>1. Away(m)
    <3>1. CASE m \in gone
      BY <3>1, AloneFacts DEF GoneInv
    <3>2. CASE m \notin gone
      <4>1. call[c].op = "unmount" /\ call[c].then = "idle" /\ m = call[c].mount
        BY <3>2 DEF Put
      <4> QED BY <1>0, <4>1, AloneFacts DEF CallAlone, UnmountAlone
    <3> QED BY <3>1, <3>2
  <2> QED BY <1>0, <1>3, <2>1 DEF Away
<1> QED BY <1>1, <1>2, <1>4, <1>5, <1>6, AloneIntro

LEMMA PutFailsAlone ==
  ASSUME JInv, alone, NEW c \in Client, PutFails(c)
  PROVE  AloneInv'
<1> USE DEF storageVars, tableVars, routerVars, historyVars
<1>0. /\ UNCHANGED <<storageVars, up, table, routerVars, historyVars>> /\ call[c].step = "put"
      /\ CallAlone(c) /\ CallOK(c) /\ call[c] \in Call
  BY AloneFacts DEF PutFails
<1>1. /\ CallAlone(c)' /\ call'[c].step = "idle" /\ \A d \in Client \ {c} : call'[d] = call[d]
  BY ReturnAlone DEF PutFails
<1>2. \A d \in Client \ {c} : call'[d].step = "idle" /\ call'[d].op = "none"
  BY <1>0, <1>1, OthersIdle
<1>3. \A d \in Client : call'[d].step # "put"
  BY <1>1, <1>2
<1>4. \A m \in Mount \ remounted :
         entryPath'[m] = entryPath[m] /\ (m \in entryTaint' => m \in entryTaint)
  <2>1. CASE call[c].op = "remount"
    <3>1. call[c].mount \in remounted /\ entryPath \in [Mount -> Path \cup {None}]
      BY <1>0, <2>1, AloneFacts DEF CallAlone, RemountAlone, TypeOK
    <3> QED BY <2>1, <3>1 DEF PutFails
  <2>2. CASE call[c].op # "remount"
    BY <2>2 DEF PutFails
  <2> QED BY <2>1, <2>2
<1>5. HomeInv'
  BY <1>0, <1>3, <1>4, AloneFacts DEF HomeInv, TypeOK, MountOrNone
<1>6. AckedInv'
  BY <1>0, <1>3, <1>4, AloneFacts DEF AckedInv, AtHome, TypeOK
<1>7. GoneInv'
  BY <1>0, <1>3, AloneFacts DEF GoneInv, Away
<1> QED BY <1>1, <1>2, <1>5, <1>6, <1>7, AloneIntro

LEMMA UnmountViewAlone ==
  ASSUME JInv, alone, NEW c \in Client, UnmountView(c)
  PROVE  AloneInv'
<1> USE DEF storageVars, tableVars, routerVars, historyVars
<1>0. /\ UNCHANGED <<storageVars, up, tableVars, routerVars, historyVars>>
      /\ call[c].step = "view" /\ call[c].op = "unmount" /\ call[c] \in Call /\ CallAlone(c)
      /\ call[c].path \in Path
  BY AloneFacts DEF UnmountView, CallOK, UnmountSteps, Call
<1>1. /\ call'[c].step = "taint_entry" /\ call'[c].op = call[c].op /\ call'[c].path = call[c].path
      /\ call'[c].mount = MatchingMount(call[c].path)
      /\ \A d \in Client \ {c} : call'[d] = call[d]
  BY <1>0 DEF UnmountView, JInv, IInv, TypeOK, Call
<1>2. \A d \in Client \ {c} : call'[d].step = "idle" /\ call'[d].op = "none"
  BY <1>0, <1>1, OthersIdle
<1>3. router[call[c].path] # None /\ MatchingMount(call[c].path) = router[call[c].path]
  BY <1>0, MatchingSelf DEF CallAlone, UnmountAlone
<1>4. CallAlone(c)'
  BY <1>0, <1>1, <1>3 DEF CallAlone, UnmountAlone
<1>5. HomeInv' /\ AckedInv' /\ GoneInv'
  BY <1>0, <1>1, <1>2, OnlyTheCall
<1> QED BY <1>2, <1>4, <1>5, AloneIntro

LEMMA UnmountTaintEntryAlone ==
  ASSUME JInv, alone, NEW c \in Client, UnmountTaintEntry(c)
  PROVE  AloneInv'
<1> USE DEF storageVars, tableVars, routerVars, historyVars
<1>0. /\ UNCHANGED <<storageVars, up, table, entryPath, routerVars, historyVars>>
      /\ call[c].step = "taint_entry" /\ call[c].op = "unmount" /\ call[c] \in Call /\ CallAlone(c)
      /\ call[c].path \in Path
  BY AloneFacts DEF UnmountTaintEntry, CallOK, UnmountSteps, Call
<1>1. /\ \/ call'[c].step = "taint"
         \/ call'[c].step = "persist" /\ call'[c].then = "taint"
      /\ call'[c].op = call[c].op /\ call'[c].path = call[c].path
      /\ call'[c].mount = call[c].mount
      /\ \A d \in Client \ {c} : call'[d] = call[d]
  <2>0. call \in [Client -> Call]
    BY AloneFacts DEF TypeOK
  <2>1. CASE table[call[c].path] = None
    <3>1. Goto(c, "taint")
      BY <2>1 DEF UnmountTaintEntry
    <3>2. /\ call'[c].step = "taint" /\ call'[c].op = call[c].op
          /\ call'[c].path = call[c].path /\ call'[c].mount = call[c].mount
          /\ \A d \in Client \ {c} : call'[d] = call[d]
      BY <2>0, <3>1 DEF Goto, Call
    <3> QED BY <3>2
  <2>2. CASE table[call[c].path] # None
    <3>1. call' = [call EXCEPT ![c].step = "persist", ![c].then = "taint"]
      BY <2>2 DEF UnmountTaintEntry
    <3> QED BY <1>0, <2>0, <3>1 DEF Call
  <2> QED BY <2>1, <2>2
<1>2. \A d \in Client \ {c} : call'[d].step = "idle" /\ call'[d].op = "none"
  BY <1>0, <1>1, OthersIdle
<1>3. \A d \in Client : call'[d].step # "put"
  BY <1>1, <1>2
<1>4. \A m \in acked \ remounted : m \in entryTaint' => m \in entryTaint
  BY <1>0 DEF UnmountTaintEntry, CallAlone, UnmountAlone
<1>5. HomeInv'
  BY <1>0, <1>3, AloneFacts DEF HomeInv
<1>6. AckedInv'
  BY <1>0, <1>3, <1>4, AloneFacts DEF AckedInv, AtHome
<1>7. GoneInv'
  BY <1>0, <1>3, AloneFacts DEF GoneInv, Away
<1>8. CallAlone(c)'
  BY <1>0, <1>1 DEF CallAlone, UnmountAlone
<1> QED BY <1>2, <1>5, <1>6, <1>7, <1>8, AloneIntro

LEMMA UnmountTaintAlone ==
  ASSUME JInv, alone, NEW c \in Client, UnmountTaint(c)
  PROVE  AloneInv'
<1> USE DEF storageVars, tableVars, routerVars, historyVars
<1>0. /\ UNCHANGED <<storageVars, up, tableVars, router, historyVars>>
      /\ call[c].step = "taint" /\ call[c].op = "unmount" /\ call[c] \in Call /\ CallAlone(c)
  BY AloneFacts DEF UnmountTaint, CallOK, UnmountSteps
<1>1. Goto(c, "unroute")
  BY <1>0 DEF UnmountTaint, CallAlone, UnmountAlone
<1>2. /\ call'[c].step = "unroute" /\ call'[c].op = call[c].op /\ call'[c].path = call[c].path
      /\ call'[c].mount = call[c].mount
      /\ \A d \in Client \ {c} : call'[d] = call[d]
  BY <1>0, <1>1 DEF Goto, JInv, IInv, TypeOK, Call
<1>3. \A d \in Client \ {c} : call'[d].step = "idle" /\ call'[d].op = "none"
  BY <1>0, <1>2, OthersIdle
<1>4. CallAlone(c)'
  BY <1>0, <1>2 DEF CallAlone, UnmountAlone
<1>5. HomeInv' /\ AckedInv' /\ GoneInv'
  BY <1>0, <1>2, <1>3, OnlyTheCall
<1> QED BY <1>3, <1>4, <1>5, AloneIntro

LEMMA UnmountRouteAlone ==
  ASSUME JInv, alone, NEW c \in Client, UnmountRoute(c)
  PROVE  AloneInv'
<1> USE DEF storageVars, tableVars, routerVars, historyVars
<1> DEFINE p == call[c].path
           m == call[c].mount
<1>0. /\ UNCHANGED <<storageVars, up, tableVars, historyVars>>
      /\ call[c].step = "unroute" /\ call[c].op = "unmount" /\ call[c] \in Call /\ CallAlone(c)
      /\ p \in Path /\ m # None /\ router[p] = m /\ m \notin acked \ remounted
  BY AloneFacts DEF UnmountRoute, CallOK, UnmountSteps, Call, CallAlone, UnmountAlone
<1>1. /\ call'[c].step = "clear" /\ call'[c].op = call[c].op /\ call'[c].path = p
      /\ call'[c].mount = m
      /\ \A d \in Client \ {c} : call'[d] = call[d]
  BY <1>0 DEF UnmountRoute, Goto, JInv, IInv, TypeOK, Call
<1>2. \A d \in Client \ {c} : call'[d].step = "idle" /\ call'[d].op = "none"
  BY <1>0, <1>1, OthersIdle
<1>3. \A d \in Client : call'[d].step # "put"
  BY <1>1, <1>2
<1>4. router'[p] = None /\ \A q \in Path : q # p => router'[q] = router[q]
  BY <1>0, AloneFacts DEF UnmountRoute, TypeOK
<1>5. HomeInv'
  BY <1>0, <1>3, <1>4, AloneFacts DEF HomeInv
<1>6. AckedInv'
  <2> SUFFICES ASSUME NEW k \in acked \ remounted
               PROVE  \E q \in Path : Keeps(stored, k, q) /\ (up => AtHome(k, q)')
    BY <1>0, <1>3 DEF AckedInv
  <2>1. PICK q \in Path : Keeps(stored, k, q) /\ (up => AtHome(k, q))
    BY AloneFacts DEF AckedInv
  <2>2. up => q # p
    BY <1>0, <2>1 DEF AtHome
  <2> QED BY <1>0, <1>4, <2>1, <2>2 DEF AtHome
<1>7. GoneInv'
  <2>1. \A k \in gone \ remounted : k # None
    BY AloneFacts, ConstantFacts DEF TypeOK
  <2> QED BY <1>0, <1>3, <1>4, <2>1, AloneFacts DEF GoneInv, Away
<1>8. CallAlone(c)'
  <2>1. \A q \in Path : router'[q] # m
    BY <1>0, <1>4, AloneFacts DEF MemoryInv, OneToOne
  <2>2. m \notin remounted => table[p] = m
    BY <1>0, AloneFacts DEF HomeInv
  <2>3. table[p] \notin acked \ remounted
    BY <1>0 DEF CallAlone, UnmountAlone
  <2>4. None \notin acked
    BY AloneFacts, ConstantFacts DEF TypeOK
  <2> QED BY <1>0, <1>1, <1>4, <2>1, <2>2, <2>3, <2>4 DEF CallAlone, UnmountAlone, Unrouted
<1> QED BY <1>2, <1>5, <1>6, <1>7, <1>8, AloneIntro

LEMMA UnmountClearAlone ==
  ASSUME JInv, alone, NEW c \in Client, UnmountClear(c)
  PROVE  AloneInv'
<1> USE DEF storageVars, tableVars, routerVars, historyVars
<1>0. /\ UNCHANGED <<stored, up, tableVars, routerVars, historyVars>>
      /\ call[c].step = "clear" /\ call[c].op = "unmount" /\ call[c] \in Call /\ CallAlone(c)
      /\ data' \subseteq data
  BY AloneFacts DEF UnmountClear, CallOK, UnmountSteps
<1>1. /\ CallAlone(c)' /\ call'[c].step # "put"
      /\ \A d \in Client \ {c} : call'[d] = call[d]
  <2>1. CASE data' = data \ {call[c].mount} /\ Goto(c, "remove")
    <3>1. /\ call'[c].step = "remove" /\ call'[c].op = call[c].op
          /\ call'[c].path = call[c].path /\ call'[c].mount = call[c].mount
          /\ \A d \in Client \ {c} : call'[d] = call[d]
      BY <1>0, <2>1 DEF Goto, JInv, IInv, TypeOK, Call
    <3> QED BY <1>0, <2>1, <3>1 DEF CallAlone, UnmountAlone, Unrouted
  <2>2. CASE Return(c)
    BY <2>2, ReturnAlone
  <2> QED BY <2>1, <2>2 DEF UnmountClear
<1>2. \A d \in Client \ {c} : call'[d].step = "idle" /\ call'[d].op = "none"
  BY <1>0, <1>1, OthersIdle
<1>3. \A d \in Client : call'[d].step # "put"
  BY <1>1, <1>2
<1>4. HomeInv'
  BY <1>0, <1>3, AloneFacts DEF HomeInv
<1>5. AckedInv'
  BY <1>0, <1>3, AloneFacts DEF AckedInv, AtHome
<1>6. GoneInv'
  BY <1>0, <1>3, AloneFacts DEF GoneInv, Away
<1> QED BY <1>1, <1>2, <1>4, <1>5, <1>6, AloneIntro

LEMMA UnmountRemoveAlone ==
  ASSUME JInv, alone, NEW c \in Client, UnmountRemove(c)
  PROVE  AloneInv'
<1> USE DEF storageVars, tableVars, routerVars, historyVars
<1> DEFINE p == call[c].path
           m == call[c].mount
<1>0. /\ UNCHANGED <<storageVars, up, entryPath, entryTaint, routerVars, issued, acked,
                     remounted, alone>>
      /\ call[c].step = "remove" /\ call[c].op = "unmount" /\ call[c] \in Call /\ p \in Path
      /\ m # None /\ Unrouted(m) /\ router[p] = None /\ m \notin data
      /\ m \notin remounted => table[p] = m
      /\ table[p] \notin acked \ remounted
  BY AloneFacts DEF UnmountRemove, CallOK, UnmountSteps, Call, CallAlone, UnmountAlone
<1>1. table'[p] = None /\ \A q \in Path : q # p => table'[q] = table[q]
  BY <1>0, AloneFacts DEF UnmountRemove, TypeOK
<1>2. m \notin remounted => Unrouted(m) /\ \A q \in Path : table'[q] # m
  BY <1>0, <1>1, AloneFacts DEF MemoryInv, OneToOne
<1>3. /\ call'[c].step # "put" /\ \A d \in Client \ {c} : call'[d] = call[d]
      /\ \/ CallAlone(c)' /\ gone' = gone \cup ({m} \ {None}) /\ m \in remounted
         \/ /\ call'[c].step = "persist" /\ call'[c].then = "idle" /\ call'[c].op = "unmount"
            /\ call'[c].path = p /\ call'[c].mount = m /\ gone' = gone
  <2>1. CASE table[p] = None
    <3>1. m \in remounted
      BY <1>0, <2>1
    <3>2. Return(c) /\ gone' = gone \cup ({m} \ {None})
      BY <2>1 DEF UnmountRemove
    <3> QED BY <3>1, <3>2, ReturnAlone
  <2>2. CASE table[p] # None
    <3>1. call' = [call EXCEPT ![c].step = "persist", ![c].then = "idle"] /\ gone' = gone
      BY <2>2 DEF UnmountRemove
    <3> QED BY <1>0, <3>1 DEF JInv, IInv, TypeOK, Call
  <2> QED BY <2>1, <2>2
<1>4. \A d \in Client \ {c} : call'[d].step = "idle" /\ call'[d].op = "none"
  BY <1>0, <1>3, OthersIdle
<1>5. \A d \in Client : call'[d].step # "put"
  BY <1>3, <1>4
<1>6. HomeInv'
  BY <1>0, <1>1, <1>5, AloneFacts DEF HomeInv
<1>7. AckedInv'
  <2> SUFFICES ASSUME NEW k \in acked \ remounted
               PROVE  \E q \in Path : Keeps(stored, k, q) /\ (up => AtHome(k, q)')
    BY <1>0, <1>5 DEF AckedInv
  <2>1. PICK q \in Path : Keeps(stored, k, q) /\ (up => AtHome(k, q))
    BY AloneFacts DEF AckedInv
  <2>2. up => q # p
    BY <1>0, <2>1 DEF AtHome
  <2> QED BY <1>0, <1>1, <2>1, <2>2 DEF AtHome
<1>8. GoneInv'
  <2>1. \A k \in gone' \ remounted : k \in gone \ remounted /\ k # None
    BY <1>3, AloneFacts, ConstantFacts DEF TypeOK
  <2> QED BY <1>0, <1>1, <1>5, <2>1, AloneFacts DEF GoneInv, Away
<1>9. CallAlone(c)'
  <2>1. CASE CallAlone(c)'
    BY <2>1
  <2>2. CASE /\ call'[c].step = "persist" /\ call'[c].then = "idle" /\ call'[c].op = "unmount"
             /\ call'[c].path = p /\ call'[c].mount = m
    <3>1. None \notin acked
      BY AloneFacts, ConstantFacts DEF TypeOK
    <3>2. (call[c].mount \notin remounted => Away(call[c].mount))'
      BY <1>0, <1>2, <1>5, <2>2 DEF Away, Unrouted
    <3> QED BY <1>0, <1>1, <2>2, <3>1, <3>2 DEF CallAlone, UnmountAlone
  <2> QED BY <1>3, <2>1, <2>2
<1> QED BY <1>4, <1>6, <1>7, <1>8, <1>9, AloneIntro

LEMMA RemountMoveAlone ==
  ASSUME JInv, alone, NEW c \in Client, RemountMove(c)
  PROVE  AloneInv'
<1> USE DEF storageVars, tableVars, routerVars, historyVars
<1> DEFINE src == call[c].path
           dst == call[c].dst
           m   == call[c].mount
           refused == router[src] = None \/ Ancestors(dst) # {}
<1>0. /\ UNCHANGED <<storageVars, up, table, router, issued, acked, gone, alone>>
      /\ remounted' = remounted \cup {m} /\ CallAlone(c)
      /\ call[c].step = "move" /\ call[c].op = "remount" /\ call[c] \in Call
      /\ src \in Path /\ dst \in Path /\ m \in Mount
  BY AloneFacts DEF RemountMove, CallOK, RemountSteps, Call, MountOrNone
<1>1. /\ CallAlone(c)' /\ call'[c].step # "put"
      /\ \A d \in Client \ {c} : call'[d] = call[d]
  <2>1. CASE refused
    BY <2>1, ReturnAlone DEF RemountMove
  <2>2. CASE ~refused
    <3>1. call' = [call EXCEPT ![c].step = "persist", ![c].then = "reroute",
                               ![c].old = entryPath[m]]
      BY <2>2 DEF RemountMove
    <3>2. /\ call'[c].step = "persist" /\ call'[c].op = "remount" /\ call'[c].path = src
          /\ call'[c].dst = dst /\ call'[c].mount = m
          /\ \A d \in Client \ {c} : call'[d] = call[d]
      BY <1>0, <3>1 DEF JInv, IInv, TypeOK, Call
    <3>3. router[dst] = None
      <4>1. IsPrefix(dst, dst)
        BY <1>0, PathAssumption, PrefixReflexive
      <4> QED BY <1>0, <2>2, <4>1 DEF Ancestors
    <3> QED BY <1>0, <2>2, <3>2, <3>3 DEF CallAlone, RemountAlone
  <2> QED BY <2>1, <2>2
<1>2. \A d \in Client \ {c} : call'[d].step = "idle" /\ call'[d].op = "none"
  BY <1>0, <1>1, OthersIdle
<1>3. \A d \in Client : call'[d].step # "put"
  BY <1>1, <1>2
<1>4. \A k \in Mount \ remounted' :
         entryPath'[k] = entryPath[k] /\ (k \in entryTaint' => k \in entryTaint)
  BY <1>0, AloneFacts DEF RemountMove, TypeOK
<1>5. HomeInv'
  <2>1. PathIsKey(stored, remounted) => PathIsKey(stored, remounted')
    BY <1>0 DEF PathIsKey
  <2> QED BY <1>0, <1>3, <1>4, <2>1, AloneFacts DEF HomeInv, TypeOK, MountOrNone
<1>6. AckedInv'
  BY <1>0, <1>3, <1>4, AloneFacts DEF AckedInv, AtHome, TypeOK
<1>7. GoneInv'
  BY <1>0, <1>3, AloneFacts DEF GoneInv, Away
<1> QED BY <1>1, <1>2, <1>5, <1>6, <1>7, AloneIntro

LEMMA RemountRouteAlone ==
  ASSUME JInv, alone, NEW c \in Client, RemountRoute(c)
  PROVE  AloneInv'
<1> USE DEF storageVars, tableVars, routerVars, historyVars
<1> DEFINE src == call[c].path
           dst == call[c].dst
           m   == call[c].mount
<1>0. /\ UNCHANGED <<storageVars, up, tableVars, historyVars>>
      /\ call[c].step = "reroute" /\ call[c].op = "remount" /\ call[c] \in Call
      /\ src \in Path /\ dst \in Path /\ m \in Mount /\ m \in remounted
      /\ router[src] = m /\ router[dst] = None /\ src # dst /\ m # None
  BY AloneFacts, ConstantFacts
  DEF RemountRoute, CallOK, RemountSteps, Call, MountOrNone, CallAlone, RemountAlone
<1>1. router' = [router EXCEPT ![src] = None, ![dst] = router[src]] /\ Goto(c, "untaint")
  BY <1>0 DEF RemountRoute
<1>2. /\ call'[c].step = "untaint" /\ call'[c].op = "remount"
      /\ \A d \in Client \ {c} : call'[d] = call[d]
  BY <1>0, <1>1 DEF Goto, JInv, IInv, TypeOK, Call
<1>3. \A d \in Client \ {c} : call'[d].step = "idle" /\ call'[d].op = "none"
  BY <1>0, <1>2, OthersIdle
<1>4. \A d \in Client : call'[d].step # "put"
  BY <1>2, <1>3
<1>5. /\ router'[src] = None /\ router'[dst] = m
      /\ \A q \in Path \ {src, dst} : router'[q] = router[q]
  BY <1>0, <1>1, AloneFacts DEF TypeOK
<1>6. HomeInv'
  BY <1>0, <1>4, <1>5, AloneFacts DEF HomeInv
<1>7. AckedInv'
  <2> SUFFICES ASSUME NEW k \in acked \ remounted
               PROVE  \E q \in Path : Keeps(stored, k, q) /\ (up => AtHome(k, q)')
    BY <1>0, <1>4 DEF AckedInv
  <2>1. PICK q \in Path : Keeps(stored, k, q) /\ (up => AtHome(k, q))
    BY AloneFacts DEF AckedInv
  <2>2. k # None
    BY AloneFacts, ConstantFacts DEF TypeOK
  <2>3. up => q \notin {src, dst}
    BY <1>0, <2>1, <2>2 DEF AtHome
  <2> QED BY <1>0, <1>5, <2>1, <2>3 DEF AtHome
<1>8. GoneInv'
  <2>1. \A k \in gone \ remounted : k # None /\ k # m
    BY <1>0, AloneFacts, ConstantFacts DEF TypeOK
  <2> QED BY <1>0, <1>4, <1>5, <2>1, AloneFacts DEF GoneInv, Away
<1>9. CallAlone(c)'
  BY <1>2 DEF CallAlone, RemountAlone
<1> QED BY <1>3, <1>6, <1>7, <1>8, <1>9, AloneIntro

LEMMA RemountUntaintAlone ==
  ASSUME JInv, alone, NEW c \in Client, RemountUntaint(c)
  PROVE  AloneInv'
<1> USE DEF storageVars, tableVars, routerVars, historyVars
<1>0. UNCHANGED <<storageVars, up, tableVars, router, historyVars>> /\ call[c].step = "untaint"
  BY DEF RemountUntaint
<1>1. /\ CallAlone(c)' /\ call'[c].step = "idle"
      /\ \A d \in Client \ {c} : call'[d] = call[d]
  BY ReturnAlone DEF RemountUntaint
<1>2. \A d \in Client \ {c} : call'[d].step = "idle" /\ call'[d].op = "none"
  BY <1>0, <1>1, OthersIdle
<1>3. HomeInv' /\ AckedInv' /\ GoneInv'
  BY <1>0, <1>1, <1>2, OnlyTheCall
<1> QED BY <1>1, <1>2, <1>3, AloneIntro

LEMMA WriteDataAlone ==
  ASSUME JInv, alone, NEW c \in Client, WriteData(c)
  PROVE  AloneInv'
<1> USE DEF storageVars, tableVars, routerVars, historyVars
<1>0. /\ UNCHANGED <<stored, up, tableVars, routerVars, historyVars>> /\ call[c].step = "write"
      /\ data' = data \cup {call[c].mount} /\ \E p \in Path : router[p] = call[c].mount
  BY AloneFacts DEF WriteData, CallAlone, CallOK
<1>1. /\ CallAlone(c)' /\ call'[c].step = "idle"
      /\ \A d \in Client \ {c} : call'[d] = call[d]
  BY ReturnAlone DEF WriteData
<1>2. \A d \in Client \ {c} : call'[d].step = "idle" /\ call'[d].op = "none"
  BY <1>0, <1>1, OthersIdle
<1>3. \A d \in Client : call'[d].step # "put"
  BY <1>1, <1>2
<1>4. HomeInv'
  BY <1>0, <1>3, AloneFacts DEF HomeInv
<1>5. AckedInv'
  BY <1>0, <1>3, AloneFacts DEF AckedInv, AtHome
<1>6. GoneInv'
  BY <1>0, <1>3, AloneFacts DEF GoneInv, Away
<1> QED BY <1>1, <1>2, <1>4, <1>5, <1>6, AloneIntro

-----------------------------------------------------------------------------
(* The calls *)

\* After a call begins, no other was in progress if calls still come alone.
LEMMA BeginAlone ==
  ASSUME JInv, NEW c \in Client, NEW new, Begin(c, new), alone'
  PROVE  /\ alone /\ up /\ call'[c] = new
         /\ \A d \in Client \ {c} : call'[d].step = "idle" /\ call'[d].op = "none"
<1>1. /\ alone /\ up /\ call'[c] = new
      /\ \A d \in Client \ {c} : call'[d] = call[d] /\ call[d].step = "idle"
  BY DEF Begin, JInv, IInv, TypeOK
<1>2. \A d \in Client \ {c} : call[d].op = "none"
  BY <1>1 DEF JInv, IInv, CallInv, CallOK
<1> QED BY <1>1, <1>2

LEMMA MountCallAlone ==
  ASSUME JInv, NEW c \in Client, NEW p \in Path, MountCall(c, p), alone'
  PROVE  AloneInv'
<1> USE DEF storageVars, tableVars, routerVars, historyVars
<1> DEFINE m == issued + 1
           new == [NoCall EXCEPT !.op = "mount", !.step = "persist", !.path = p, !.mount = m]
<1>0. /\ Begin(c, new) /\ m \in Mount
      /\ UNCHANGED <<storageVars, up, entryTaint, acked, gone, remounted>>
      /\ router' = [router EXCEPT ![p] = m] /\ table' = [table EXCEPT ![p] = m]
      /\ entryPath' = [entryPath EXCEPT ![m] = p] /\ Ancestors(p) = {}
  BY ConstantFacts DEF MountCall, Mount, JInv, IInv, TypeOK
<1>1. new.op = "mount" /\ new.step = "persist" /\ new.path = p /\ new.mount = m
  BY DEF NoCall
<1>2. issued \in Nat /\ m > issued /\ m # None
  BY <1>0, ConstantFacts DEF JInv, IInv, TypeOK
<1> HIDE DEF new, m
<1>3. /\ alone /\ up /\ call'[c] = new
      /\ \A d \in Client \ {c} : call'[d].step = "idle" /\ call'[d].op = "none"
  BY <1>0, BeginAlone
<1>4. \A d \in Client : call'[d].step # "put"
  BY <1>1, <1>3
<1>5. router[p] = None
  <2>1. IsPrefix(p, p)
    BY PathAssumption, PrefixReflexive
  <2> QED BY <1>0, <2>1 DEF Ancestors
<1>6. /\ router'[p] = m /\ table'[p] = m /\ entryPath'[m] = p
      /\ \A q \in Path : q # p => router'[q] = router[q] /\ table'[q] = table[q]
      /\ \A k \in Mount : k # m => entryPath'[k] = entryPath[k]
  BY <1>0, <1>3, AloneFacts DEF TypeOK
<1>7. /\ \A q \in Path : table[q] # None => table[q] \in Mount /\ table[q] # m
      /\ \A q \in Path : router[q] # None => router[q] \in Mount /\ router[q] # m
      /\ \A k \in acked \cup gone \cup entryTaint : k # m /\ k \in Mount
  <2>1. \A k \in Mount : k <= issued => k # m
    BY <1>2, ConstantFacts
  <2>2. /\ \A q \in Path : table[q] # None => table[q] \in Mount /\ table[q] <= issued
        /\ \A q \in Path : router[q] # None => router[q] \in Mount /\ router[q] <= issued
    BY <1>3, AloneFacts DEF TypeOK, MountOrNone, MemoryInv, Known
  <2>3. \A k \in acked \cup gone \cup entryTaint : k \in Mount /\ k <= issued
    BY <1>3, AloneFacts DEF TypeOK, JInv, HistoryInv
  <2> QED BY <2>1, <2>2, <2>3
<1>8. HomeInv'
  BY <1>0, <1>3, <1>4, <1>5, <1>6, <1>7, AloneFacts DEF HomeInv
<1>9. AckedInv'
  <2> SUFFICES ASSUME NEW k \in acked \ remounted
               PROVE  \E q \in Path : Keeps(stored, k, q) /\ AtHome(k, q)'
    BY <1>0, <1>4 DEF AckedInv
  <2>1. PICK q \in Path : Keeps(stored, k, q) /\ AtHome(k, q)
    BY <1>3, AloneFacts DEF AckedInv
  <2>2. q # p /\ k # m /\ k \in Mount
    BY <1>3, <1>5, <1>7, <2>1, AloneFacts, ConstantFacts DEF AtHome, TypeOK
  <2> QED BY <1>0, <1>6, <2>1, <2>2 DEF AtHome
<1>10. GoneInv'
  BY <1>0, <1>3, <1>4, <1>6, <1>7, AloneFacts DEF GoneInv, Away
<1>11. CallAlone(c)'
  <2>1. m \notin entryTaint'
    BY <1>0, <1>7
  <2> QED BY <1>1, <1>3, <1>6, <2>1 DEF CallAlone, MountAlone, AtHome
<1> QED BY <1>3, <1>8, <1>9, <1>10, <1>11, AloneIntro

LEMMA UnmountCallAlone ==
  ASSUME JInv, NEW c \in Client, NEW p \in Path, UnmountCall(c, p), alone'
  PROVE  AloneInv'
<1> USE DEF storageVars, tableVars, routerVars, historyVars
<1> DEFINE new == [NoCall EXCEPT !.op = "unmount", !.step = "view", !.path = p]
<1>0. /\ Begin(c, new) /\ router[p] # None /\ acked' = acked \ {router[p]}
      /\ UNCHANGED <<storageVars, up, tableVars, routerVars, issued, gone, remounted>>
  BY DEF UnmountCall
<1>1. new.op = "unmount" /\ new.step = "view" /\ new.path = p
  BY DEF NoCall
<1> HIDE DEF new
<1>2. /\ alone /\ up /\ call'[c] = new
      /\ \A d \in Client \ {c} : call'[d].step = "idle" /\ call'[d].op = "none"
  BY <1>0, BeginAlone
<1>3. \A d \in Client : call'[d].step # "put"
  BY <1>1, <1>2
<1>4. HomeInv'
  BY <1>0, <1>2, <1>3, AloneFacts DEF HomeInv
<1>5. AckedInv'
  BY <1>0, <1>2, <1>3, AloneFacts DEF AckedInv, AtHome
<1>6. GoneInv'
  BY <1>0, <1>2, <1>3, AloneFacts DEF GoneInv, Away
<1>7. CallAlone(c)'
  <2>1. ASSUME table[p] \in acked \ remounted PROVE table[p] = router[p]
    <3>1. PICK q \in Path : AtHome(table[p], q)
      BY <1>2, <2>1, AloneFacts DEF AckedInv
    <3>2. table[p] # None
      BY <2>1, <1>2, AloneFacts, ConstantFacts DEF TypeOK
    <3>3. q = p
      BY <1>2, <3>1, <3>2, AloneFacts DEF AtHome, MemoryInv, OneToOne
    <3> QED BY <3>1, <3>3 DEF AtHome
  <2> QED BY <1>0, <1>1, <1>2, <2>1 DEF CallAlone, UnmountAlone
<1> QED BY <1>2, <1>4, <1>5, <1>6, <1>7, AloneIntro

LEMMA RemountCallAlone ==
  ASSUME JInv, NEW c \in Client, NEW src \in Path, NEW dst \in Path,
         RemountCall(c, src, dst), alone'
  PROVE  AloneInv'
<1> USE DEF storageVars, tableVars, routerVars, historyVars
<1> DEFINE new == [NoCall EXCEPT !.op = "remount", !.step = "move", !.path = src, !.dst = dst,
                                 !.mount = MatchingMount(src)]
<1>0. /\ Begin(c, new)
      /\ UNCHANGED <<storageVars, up, tableVars, routerVars, issued, acked, gone, remounted>>
  BY DEF RemountCall
<1>1. /\ new.op = "remount" /\ new.step = "move" /\ new.path = src
      /\ new.mount = MatchingMount(src)
  BY DEF NoCall
<1> HIDE DEF new
<1>2. /\ alone /\ up /\ call'[c] = new
      /\ \A d \in Client \ {c} : call'[d].step = "idle" /\ call'[d].op = "none"
  BY <1>0, BeginAlone
<1>3. HomeInv' /\ AckedInv' /\ GoneInv'
  BY <1>0, <1>1, <1>2, OnlyTheCall
<1>4. CallAlone(c)'
  BY <1>0, <1>1, <1>2, MatchingSelf DEF CallAlone, RemountAlone
<1> QED BY <1>2, <1>3, <1>4, AloneIntro

LEMMA WriteCallAlone ==
  ASSUME JInv, NEW c \in Client, NEW p \in Path, WriteCall(c, p), alone'
  PROVE  AloneInv'
<1> USE DEF storageVars, tableVars, routerVars, historyVars
<1> DEFINE new == [NoCall EXCEPT !.op = "write", !.step = "write", !.mount = MatchingMount(p)]
<1>0. /\ Begin(c, new) /\ Ancestors(p) # {}
      /\ UNCHANGED <<storageVars, up, tableVars, routerVars, issued, acked, gone, remounted>>
  BY DEF WriteCall
<1>1. new.op = "write" /\ new.step = "write" /\ new.mount = MatchingMount(p)
  BY DEF NoCall
<1> HIDE DEF new
<1>2. /\ alone /\ up /\ call'[c] = new
      /\ \A d \in Client \ {c} : call'[d].step = "idle" /\ call'[d].op = "none"
  BY <1>0, BeginAlone
<1>3. HomeInv' /\ AckedInv' /\ GoneInv'
  BY <1>0, <1>1, <1>2, OnlyTheCall
<1>4. Matching(p) \in Path /\ MatchingMount(p) = router[Matching(p)]
  BY <1>0, <1>2, AloneFacts, MatchingFacts DEF TypeOK
<1>5. CallAlone(c)'
  BY <1>0, <1>1, <1>2, <1>4 DEF CallAlone
<1> QED BY <1>2, <1>3, <1>5, AloneIntro

-----------------------------------------------------------------------------
(* Seal, crash and unseal *)

LEMMA AllIdleAlone ==
  ASSUME \A c \in Client : call'[c].step = "idle" /\ call'[c].op = "none",
         HomeInv', AckedInv', GoneInv'
  PROVE  AloneInv'
<1>1. OneCall' /\ \A c \in Client : CallAlone(c)'
  BY DEF OneCall, CallAlone
<1> QED BY <1>1 DEF AloneInv

LEMMA DownAlone ==
  ASSUME JInv, alone, EmptyMemory, UNCHANGED <<storageVars, historyVars>>,
         \A c \in Client : call'[c].step = "idle" /\ call'[c].op = "none"
  PROVE  AloneInv'
<1> USE DEF storageVars, historyVars
<1>1. /\ \A p \in Path : table'[p] = None /\ router'[p] = None
      /\ up' = FALSE /\ \A c \in Client : call'[c].step # "put"
  BY DEF EmptyMemory
<1>2. HomeInv'
  BY <1>1, AloneFacts DEF HomeInv
<1>3. AckedInv'
  BY <1>1, AloneFacts DEF AckedInv
<1>4. GoneInv'
  <2>1. None \notin gone
    BY AloneFacts, ConstantFacts DEF TypeOK
  <2> QED BY <1>1, <2>1, AloneFacts DEF GoneInv, Away
<1> QED BY <1>2, <1>3, <1>4, AllIdleAlone

LEMMA SealAlone ==
  ASSUME JInv, alone, Seal
  PROVE  AloneInv'
<1>1. \A c \in Client : call'[c].step = "idle" /\ call'[c].op = "none"
  BY DEF Seal, AllIdle, JInv, IInv, CallInv, CallOK
<1> QED BY <1>1, DownAlone DEF Seal

LEMMA CrashAlone ==
  ASSUME JInv, alone, Crash
  PROVE  AloneInv'
<1>1. \A c \in Client : call'[c].step = "idle" /\ call'[c].op = "none"
  BY DEF Crash, NoCall
<1> QED BY <1>1, DownAlone DEF Crash

\* The table an unseal loads has all that was acknowledged and nothing that
\* is gone.
LEMMA LoadedAlone ==
  ASSUME JInv, alone, NEW t, t = IF stored = NoTable THEN DefaultTable ELSE stored
  PROVE  /\ t \in StoredTable /\ Loadable(t, issued) /\ t # NoTable
         /\ PathIsKey(t, remounted)
         /\ \A m \in acked \ remounted : \E p \in Path : Keeps(t, m, p)
         /\ \A m \in gone \ remounted : Lacks(t, m)
<1>0. DefaultTable \in StoredTable /\ DefaultTable # NoTable
  BY DefaultTableLoadable, ConstantFacts DEF JInv, IInv, TypeOK
<1>1. t \in StoredTable /\ Loadable(t, issued) /\ t # NoTable
  BY <1>0, AloneFacts, LoadOutcomesLoadable
<1>2. CASE stored = NoTable
  <2>1. acked = {} /\ gone = {}
    BY <1>2 DEF JInv, HistoryInv
  <2>2. PathIsKey(t, remounted)
    <3> SUFFICES ASSUME NEW p \in Path, t[p] # None PROVE t[p].path = p
      BY DEF PathIsKey
    <3>1. t[p] = [mount |-> CHOOSE i \in DOMAIN DefaultMounts : DefaultMounts[i] = p,
                  path |-> p, tainted |-> FALSE]
      BY <1>2 DEF DefaultTable
    <3> QED BY <3>1
  <2> QED BY <1>1, <2>1, <2>2
<1>3. CASE stored # NoTable
  BY <1>1, <1>3, AloneFacts DEF HomeInv, AckedInv, GoneInv
<1> QED BY <1>2, <1>3

LEMMA UnsealAlone ==
  ASSUME JInv, alone, Unseal
  PROVE  AloneInv'
<1> USE DEF storageVars, historyVars
<1> DEFINE t == IF stored = NoTable THEN DefaultTable ELSE stored
<1>0. /\ ~up /\ stored' = t /\ MayFit(t) /\ Load(t) /\ router' = RoutesOf(t)
      /\ UNCHANGED <<data, call, historyVars>>
  BY DEF Unseal
<1>1. /\ t \in StoredTable /\ Loadable(t, issued) /\ t # NoTable
      /\ PathIsKey(t, remounted)
      /\ \A m \in acked \ remounted : \E p \in Path : Keeps(t, m, p)
      /\ \A m \in gone \ remounted : Lacks(t, m)
  BY LoadedAlone
<1> HIDE DEF t
<1>2. /\ \A p \in Path : t[p] = None => table'[p] = None
      /\ \A p \in Path : t[p] # None =>
            /\ t[p].mount \in Mount /\ t[p].path \in Path
            /\ table'[p] = t[p].mount
            /\ entryPath'[t[p].mount] = t[p].path
            /\ router'[t[p].path] = t[p].mount
            /\ ~t[p].tainted => t[p].mount \notin entryTaint'
      /\ \A r \in Path : router'[r] # None =>
            \E p \in Path : t[p] # None /\ t[p].path = r /\ router'[r] = t[p].mount
  BY <1>0, <1>1, LoadFacts
<1>3. \A c \in Client : call'[c].step = "idle" /\ call'[c].op = "none"
  BY <1>0, AloneFacts DEF CallOK
<1>4. HomeInv'
  BY <1>0, <1>1, <1>2, <1>3 DEF HomeInv, PathIsKey
<1>5. AckedInv'
  BY <1>0, <1>1, <1>2, <1>3 DEF AckedInv, Keeps, AtHome
<1>6. GoneInv'
  <2>1. None \notin gone
    BY AloneFacts, ConstantFacts DEF TypeOK
  <2> QED BY <1>0, <1>1, <1>2, <1>3, <2>1, AloneFacts DEF GoneInv, Away, Lacks
<1> QED BY <1>3, <1>4, <1>5, <1>6, AllIdleAlone

LEMMA UnsealFailsAlone ==
  ASSUME JInv, alone, UnsealFails
  PROVE  AloneInv'
<1> USE DEF tableVars, routerVars, historyVars
<1> DEFINE t == IF stored = NoTable THEN DefaultTable ELSE stored
<1>0. /\ ~up /\ stored' \in {stored, t}
      /\ UNCHANGED <<data, up, tableVars, routerVars, call, historyVars>>
  BY DEF UnsealFails
<1>1. /\ t \in StoredTable /\ Loadable(t, issued) /\ t # NoTable
      /\ PathIsKey(t, remounted)
      /\ \A m \in acked \ remounted : \E p \in Path : Keeps(t, m, p)
      /\ \A m \in gone \ remounted : Lacks(t, m)
  BY LoadedAlone
<1>2. \A c \in Client : call'[c].step = "idle" /\ call'[c].op = "none"
  BY <1>0, AloneFacts DEF CallOK
<1>3. CASE stored' = stored
  BY <1>0, <1>3 DEF JInv, AloneInv, OneCall, HomeInv, AckedInv, GoneInv, AtHome, Away,
     CallAlone, MountAlone, UnmountAlone, RemountAlone, Unrouted
<1>4. CASE stored' = t
  <2> HIDE DEF t
  <2>1. HomeInv'
    BY <1>0, <1>1, <1>2, <1>4, AloneFacts DEF HomeInv
  <2>2. AckedInv'
    BY <1>0, <1>1, <1>2, <1>4 DEF AckedInv
  <2>3. GoneInv'
    BY <1>0, <1>1, <1>2, <1>4, AloneFacts DEF GoneInv, Away
  <2> QED BY <1>2, <2>1, <2>2, <2>3, AllIdleAlone
<1> QED BY <1>0, <1>3, <1>4

-----------------------------------------------------------------------------
(* The history *)

\* A step of client c that writes no mount into the history but its own.
LEMMA HistoryStep ==
  ASSUME JInv, NEW c \in Client, call[c].step # "idle", up' = up, issued' = issued,
         stored' = stored \/ stored' # NoTable,
         \A m \in acked' \cup gone' \cup entryTaint' :
             m <= issued \/ m \in acked \cup gone \cup entryTaint,
         \A d \in Client \ {c} : call'[d] = call[d],
         call'[c].mount # None => call'[c].mount <= issued
  PROVE  HistoryInv'
<1>1. up /\ stored # NoTable
  BY DEF JInv, IInv, CallInv, CallOK, HistoryInv
<1> QED BY <1>1 DEF JInv, HistoryInv

LEMMA ClientStepHistory ==
  ASSUME JInv, NEW c \in Client, ClientStep(c)
  PROVE  HistoryInv'
<1> USE DEF storageVars, tableVars, routerVars, historyVars
<1>0. /\ call \in [Client -> Call] /\ call[c] \in Call /\ CallOK(c)
      /\ call[c].mount # None => call[c].mount <= issued
      /\ \A p \in Path : table[p] # None => table[p] <= issued
      /\ \A p \in Path : router[p] # None => router[p] <= issued
  BY DEF JInv, IInv, TypeOK, CallInv, HistoryInv, MemoryInv, Known
<1>1. ASSUME Return(c)
      PROVE  call'[c].mount = None /\ \A d \in Client \ {c} : call'[d] = call[d]
  BY <1>0, <1>1 DEF Return, NoCall
<1>2. ASSUME NEW step, Goto(c, step)
      PROVE  call'[c].mount = call[c].mount /\ \A d \in Client \ {c} : call'[d] = call[d]
  BY <1>0, <1>2 DEF Goto, Call
<1>3. CASE Persist(c)
  <2>1. call'[c].mount = call[c].mount /\ \A d \in Client \ {c} : call'[d] = call[d]
    BY <1>0, <1>3 DEF Persist, Call
  <2> QED BY <1>0, <1>3, <2>1, HistoryStep DEF Persist
<1>4. CASE Put(c)
  <2>1. /\ call'[c].mount = None \/ call'[c].mount = call[c].mount
        /\ \A d \in Client \ {c} : call'[d] = call[d]
    <3>1. CASE call[c].then = "idle"
      BY <1>1, <1>4, <3>1 DEF Put
    <3>2. CASE call[c].then # "idle"
      BY <1>0, <1>4, <3>2 DEF Put, Call
    <3> QED BY <3>1, <3>2
  <2>2. stored' # NoTable
    BY <1>0, <1>4 DEF Put, CallOK
  <2>3. /\ acked' \subseteq acked \cup ({call[c].mount} \ {None})
        /\ gone' \subseteq gone \cup ({call[c].mount} \ {None})
    BY <1>0, <1>4 DEF Put, CallOK
  <2>4. up' = up /\ issued' = issued /\ entryTaint' = entryTaint /\ call[c].step # "idle"
    BY <1>4 DEF Put
  <2> QED BY <1>0, <2>1, <2>2, <2>3, <2>4, HistoryStep
<1>5. CASE PutFails(c)
  <2>1. /\ entryTaint' \subseteq entryTaint \cup ({call[c].mount} \ {None})
    BY <1>0, <1>5 DEF PutFails, CallOK
  <2> QED BY <1>0, <1>1, <1>5, <2>1, HistoryStep DEF PutFails
<1>6. CASE UnmountView(c)
  <2>1. /\ call'[c].mount = MatchingMount(call[c].path)
        /\ \A d \in Client \ {c} : call'[d] = call[d]
    BY <1>0, <1>6 DEF UnmountView, Call
  <2>2. call[c].path \in Path
    BY <1>0, <1>6 DEF UnmountView, CallOK, UnmountSteps, Call
  <2>3. call'[c].mount # None => call'[c].mount <= issued
    <3>1. router \in [Path -> MountOrNone]
      BY DEF JInv, IInv, TypeOK
    <3>2. CASE Ancestors(call[c].path) = {}
      BY <2>1, <3>2 DEF MatchingMount
    <3>3. CASE Ancestors(call[c].path) # {}
      BY <1>0, <2>1, <2>2, <3>1, <3>3, MatchingFacts
    <3> QED BY <3>2, <3>3
  <2> QED BY <1>6, <2>1, <2>3, HistoryStep DEF UnmountView
<1>7. CASE UnmountTaintEntry(c)
  <2>1. call'[c].mount = call[c].mount /\ \A d \in Client \ {c} : call'[d] = call[d]
    <3>1. CASE table[call[c].path] = None
      BY <1>2, <1>7, <3>1 DEF UnmountTaintEntry
    <3>2. CASE table[call[c].path] # None
      BY <1>0, <1>7, <3>2 DEF UnmountTaintEntry, Call
    <3> QED BY <3>1, <3>2
  <2>2. call[c].path \in Path
    BY <1>0, <1>7 DEF UnmountTaintEntry, CallOK, UnmountSteps, Call
  <2>3. \A m \in entryTaint' : m \in entryTaint \/ m <= issued
    BY <1>0, <1>7, <2>2 DEF UnmountTaintEntry
  <2> QED BY <1>0, <1>7, <2>1, <2>3, HistoryStep DEF UnmountTaintEntry
<1>8. CASE UnmountTaint(c)
  BY <1>0, <1>1, <1>2, <1>8, HistoryStep DEF UnmountTaint
<1>9. CASE UnmountRoute(c)
  BY <1>0, <1>2, <1>9, HistoryStep DEF UnmountRoute
<1>10. CASE UnmountClear(c)
  BY <1>0, <1>1, <1>2, <1>10, HistoryStep DEF UnmountClear
<1>11. CASE UnmountRemove(c)
  <2>1. /\ call'[c].mount = None \/ call'[c].mount = call[c].mount
        /\ \A d \in Client \ {c} : call'[d] = call[d]
    <3>1. CASE table[call[c].path] = None
      BY <1>1, <1>11, <3>1 DEF UnmountRemove
    <3>2. CASE table[call[c].path] # None
      BY <1>0, <1>11, <3>2 DEF UnmountRemove, Call
    <3> QED BY <3>1, <3>2
  <2>2. gone' \subseteq gone \cup ({call[c].mount} \ {None})
    BY <1>11 DEF UnmountRemove
  <2> QED BY <1>0, <1>11, <2>1, <2>2, HistoryStep DEF UnmountRemove
<1>12. CASE RemountMove(c)
  <2>1. /\ call'[c].mount = None \/ call'[c].mount = call[c].mount
        /\ \A d \in Client \ {c} : call'[d] = call[d]
    <3>1. CASE router[call[c].path] = None \/ Ancestors(call[c].dst) # {}
      BY <1>1, <1>12, <3>1 DEF RemountMove
    <3>2. CASE ~(router[call[c].path] = None \/ Ancestors(call[c].dst) # {})
      BY <1>0, <1>12, <3>2 DEF RemountMove, Call
    <3> QED BY <3>1, <3>2
  <2>2. entryTaint' \subseteq entryTaint \cup {call[c].mount} /\ call[c].mount # None
    BY <1>0, <1>12 DEF RemountMove, CallOK, RemountSteps
  <2> QED BY <1>0, <1>12, <2>1, <2>2, HistoryStep DEF RemountMove
<1>13. CASE RemountRoute(c)
  BY <1>0, <1>1, <1>2, <1>13, HistoryStep DEF RemountRoute
<1>14. CASE RemountUntaint(c)
  BY <1>0, <1>1, <1>14, HistoryStep DEF RemountUntaint
<1>15. CASE WriteData(c)
  BY <1>0, <1>1, <1>15, HistoryStep DEF WriteData
<1> QED BY <1>3, <1>4, <1>5, <1>6, <1>7, <1>8, <1>9, <1>10, <1>11, <1>12, <1>13, <1>14, <1>15
        DEF ClientStep

LEMMA CallHistory ==
  ASSUME JInv, NEW c \in Client, ClientCall(c)
  PROVE  HistoryInv'
<1> USE DEF storageVars, tableVars, routerVars, historyVars
<1>1. ASSUME NEW new, Begin(c, new)
      PROVE  up /\ call'[c] = new /\ \A d \in Client \ {c} : call'[d] = call[d]
  BY <1>1 DEF Begin, JInv, IInv, TypeOK
<1>2. /\ \A p \in Path : router[p] # None => router[p] <= issued
      /\ router \in [Path -> MountOrNone] /\ issued \in Nat /\ stored # NoTable
      /\ \A m \in acked \cup gone \cup entryTaint : m \in Nat
      /\ \A d \in Client : call[d].mount # None => call[d].mount \in Nat
  <2>1. \A d \in Client : call[d].mount \in MountOrNone
    BY DEF JInv, IInv, TypeOK, Call
  <2>2. up
    BY DEF ClientCall, MountCall, UnmountCall, RemountCall, WriteCall, Begin
  <2>3. issued \in Nat /\ router \in [Path -> MountOrNone]
    BY ConstantFacts DEF JInv, IInv, TypeOK
  <2>4. \A m \in acked \cup gone \cup entryTaint : m \in Nat
    BY ConstantFacts DEF JInv, IInv, TypeOK
  <2>5. \A p \in Path : router[p] # None => router[p] <= issued
    BY DEF JInv, IInv, MemoryInv, Known
  <2>6. stored # NoTable
    BY <2>2 DEF JInv, HistoryInv
  <2> QED BY <2>1, <2>3, <2>4, <2>5, <2>6, ConstantFacts DEF MountOrNone
<1>3. ASSUME NEW p \in Path PROVE MatchingMount(p) # None => MatchingMount(p) <= issued
  BY <1>2, <1>3, MatchingFacts DEF MatchingMount
<1>4. ASSUME NEW p \in Path, MountCall(c, p) PROVE HistoryInv'
  <2> DEFINE new == [NoCall EXCEPT !.op = "mount", !.step = "persist", !.path = p,
                                   !.mount = issued + 1]
  <2>1. Begin(c, new) /\ new.mount = issued + 1 /\ issued' = issued + 1
    BY <1>4 DEF MountCall, NoCall
  <2> HIDE DEF new
  <2>2. /\ call'[c].mount <= issued' /\ stored' # NoTable
        /\ \A m \in Nat : m <= issued => m <= issued'
        /\ acked' \cup gone' \cup entryTaint' \subseteq acked \cup gone \cup entryTaint
    BY <1>1, <1>2, <1>4, <2>1 DEF MountCall
  <2> QED BY <1>1, <1>2, <2>1, <2>2 DEF JInv, HistoryInv
<1>5. ASSUME NEW p \in Path, UnmountCall(c, p) PROVE HistoryInv'
  <2> DEFINE new == [NoCall EXCEPT !.op = "unmount", !.step = "view", !.path = p]
  <2>1. Begin(c, new) /\ new.mount = None
    BY <1>5 DEF UnmountCall, NoCall
  <2> HIDE DEF new
  <2> QED BY <1>1, <1>2, <1>5, <2>1 DEF UnmountCall, JInv, HistoryInv
<1>6. ASSUME NEW src \in Path, NEW dst \in Path, RemountCall(c, src, dst) PROVE HistoryInv'
  <2> DEFINE new == [NoCall EXCEPT !.op = "remount", !.step = "move", !.path = src, !.dst = dst,
                                   !.mount = MatchingMount(src)]
  <2>1. Begin(c, new) /\ new.mount = MatchingMount(src)
    BY <1>6 DEF RemountCall, NoCall
  <2> HIDE DEF new
  <2> QED BY <1>1, <1>2, <1>3, <1>6, <2>1 DEF RemountCall, JInv, HistoryInv
<1>7. ASSUME NEW p \in Path, WriteCall(c, p) PROVE HistoryInv'
  <2> DEFINE new == [NoCall EXCEPT !.op = "write", !.step = "write", !.mount = MatchingMount(p)]
  <2>1. Begin(c, new) /\ new.mount = MatchingMount(p)
    BY <1>7 DEF WriteCall, NoCall
  <2> HIDE DEF new
  <2> QED BY <1>1, <1>2, <1>3, <1>7, <2>1 DEF WriteCall, JInv, HistoryInv
<1> QED BY <1>4, <1>5, <1>6, <1>7 DEF ClientCall

LEMMA RestHistory ==
  ASSUME JInv, Seal \/ Unseal \/ UnsealFails \/ Crash
  PROVE  HistoryInv'
<1> USE DEF storageVars, tableVars, routerVars, historyVars
<1>0. DefaultTable # NoTable
  BY DefaultTableLoadable, ConstantFacts DEF JInv, IInv, TypeOK
<1>1. CASE Seal
  BY <1>1 DEF Seal, EmptyMemory, JInv, HistoryInv
<1>2. CASE Crash
  BY <1>2 DEF Crash, EmptyMemory, NoCall, JInv, HistoryInv
<1>3. CASE UnsealFails
  BY <1>0, <1>3 DEF UnsealFails, JInv, HistoryInv
<1>4. CASE Unseal
  <2> DEFINE t == IF stored = NoTable THEN DefaultTable ELSE stored
  <2>1. t \in StoredTable /\ Loadable(t, issued) /\ t # NoTable
    BY <1>0, LoadOutcomesLoadable DEF JInv
  <2>2. stored' = t /\ MayFit(t) /\ Load(t) /\ router' = RoutesOf(t)
        /\ UNCHANGED <<data, call, historyVars>>
    BY <1>4 DEF Unseal
  <2> HIDE DEF t
  <2>3. \A m \in entryTaint' : m <= issued
    BY <2>1, <2>2 DEF Load, Loadable, Issued
  <2> QED BY <2>1, <2>2, <2>3 DEF JInv, HistoryInv
<1> QED BY <1>1, <1>2, <1>3, <1>4

-----------------------------------------------------------------------------
(* The theorems *)

LEMMA InitJInv == Init => JInv
<1> SUFFICES ASSUME Init PROVE JInv
  OBVIOUS
<1>1. \A c \in Client : /\ call[c].step = "idle" /\ call[c].op = "none"
                        /\ call[c].mount = None
  BY DEF Init, NoCall
<1>2. HistoryInv
  BY <1>1 DEF Init, HistoryInv
<1>3. AloneInv
  BY <1>1 DEF Init, AloneInv, OneCall, HomeInv, AckedInv, GoneInv, CallAlone
<1> QED BY <1>2, <1>3, InitIInv DEF JInv

LEMMA NextJInv == JInv /\ [Next]_vars => JInv'
<1> SUFFICES ASSUME JInv, [Next]_vars PROVE JInv'
  OBVIOUS
<1>1. IInv'
  BY NextIInv DEF JInv
<1>2. CASE UNCHANGED vars
  <2> USE DEF vars, storageVars, tableVars, routerVars, historyVars
  <2>1. HistoryInv'
    BY <1>2 DEF JInv, HistoryInv
  <2>2. AloneInv'
    BY <1>2 DEF JInv, AloneInv, OneCall, HomeInv, AckedInv, GoneInv, AtHome, Away, CallAlone,
       MountAlone, UnmountAlone, RemountAlone, Unrouted
  <2> QED BY <1>1, <2>1, <2>2 DEF JInv
<1>3. CASE Next
  <2>1. HistoryInv'
    BY <1>3, ClientStepHistory, CallHistory, RestHistory DEF Next
  <2>2. ASSUME alone' PROVE AloneInv'
    <3>1. ASSUME NEW c \in Client, ClientCall(c) PROVE AloneInv'
      BY <2>2, <3>1, MountCallAlone, UnmountCallAlone, RemountCallAlone, WriteCallAlone
      DEF ClientCall
    <3>2. ASSUME NEW c \in Client, ClientStep(c) PROVE AloneInv'
      <4>1. alone
        BY <2>2, <3>2 DEF ClientStep, Persist, Put, PutFails, UnmountView, UnmountTaintEntry,
           UnmountTaint, UnmountRoute, UnmountClear, UnmountRemove, RemountMove, RemountRoute,
           RemountUntaint, WriteData, historyVars
      <4> QED BY <3>2, <4>1, PersistAlone, PutAlone, PutFailsAlone, UnmountViewAlone,
                 UnmountTaintEntryAlone, UnmountTaintAlone, UnmountRouteAlone,
                 UnmountClearAlone, UnmountRemoveAlone, RemountMoveAlone, RemountRouteAlone,
                 RemountUntaintAlone, WriteDataAlone
              DEF ClientStep
    <3>3. ASSUME Seal \/ Unseal \/ UnsealFails \/ Crash PROVE AloneInv'
      <4>1. alone
        BY <2>2, <3>3 DEF Seal, Unseal, UnsealFails, Crash, historyVars
      <4> QED BY <3>3, <4>1, SealAlone, UnsealAlone, UnsealFailsAlone, CrashAlone
    <3> QED BY <1>3, <3>1, <3>2, <3>3 DEF Next
  <2>3. AloneInv'
    BY <2>2 DEF AloneInv
  <2> QED BY <1>1, <2>1, <2>3 DEF JInv
<1> QED BY <1>2, <1>3

\* With calls one at a time, a mount whose Core::mount returned Ok is in the
\* stored table, at its path and untainted, until it is unmounted or touched
\* by a remount: no crash, seal, storage error or failed call on another mount
\* loses it.
THEOREM MountsAckedStored == Spec => []AckedStored
<1>1. JInv => AckedStored
  <2> SUFFICES ASSUME JInv, alone, NEW m \in acked \ remounted
               PROVE  \E p \in Path : stored[p] = [mount |-> m, path |-> p, tainted |-> FALSE]
    BY DEF AckedStored
  <2>1. PICK p \in Path : Keeps(stored, m, p)
    BY AloneFacts DEF AckedInv
  <2>2. stored[p] \in StoredEntry
    BY <2>1, AloneFacts DEF TypeOK, StoredTable, Keeps, JInv, HistoryInv
  <2>3. stored[p].tainted = FALSE
    BY <2>1, <2>2 DEF Keeps, StoredEntry
  <2> QED BY <2>1, <2>2, <2>3 DEF Keeps, StoredEntry
<1> QED BY <1>1, InitJInv, NextJInv, PTL DEF Spec

\* With calls one at a time, a mount whose Core::unmount returned Ok and that
\* no remount touched never comes back: it is in no table, in memory or in
\* storage, on no route, and its data is deleted, whatever crashes or is
\* unsealed afterwards.
THEOREM MountsGoneStaysGone == Spec => []GoneStaysGone
<1>1. JInv => GoneStaysGone
  BY AloneFacts DEF GoneStaysGone, GoneInv, Away, Lacks, Keys
<1> QED BY <1>1, InitJInv, NextJInv, PTL DEF Spec
=============================================================================
