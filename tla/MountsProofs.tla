---------------------------- MODULE MountsProofs ----------------------------
(* Proofs about the two mount tables, for any number of clients, any set of *)
(* paths and any default mounts.                                            *)
EXTENDS AuthMounts, SequenceTheorems, WellFoundedInduction, TLAPS

-----------------------------------------------------------------------------
(* The inductive invariant *)

\* The default mounts nobody may move, and where they stand.
Standing == {i \in DOMAIN DefaultMounts : Protected(DefaultMounts[i])}
StandingPath == {DefaultMounts[i] : i \in Standing}

\* A table that may be loaded: it keeps the protected mounts as they were
\* first written, has one key for each mount and no mount still to come.
Intact(t) ==
    \A i \in Standing :
        /\ t[DefaultMounts[i]] # None
        /\ t[DefaultMounts[i]].mount = i
        /\ t[DefaultMounts[i]].path = DefaultMounts[i]
        /\ ~t[DefaultMounts[i]].tainted
OneKey(t) == \A p, q \in Path : t[p] # None /\ t[q] # None /\ t[p].mount = t[q].mount => p = q
Issued(t, n) == \A p \in Path : t[p] # None => t[p].mount <= n
Loadable(t, n) == Intact(t) /\ OneKey(t) /\ Issued(t, n)

\* What storage and every table about to be written to it hold.
StoreInv == stored # NoTable => Loadable(stored, issued)

\* A map from paths to mounts: no mount twice, none still to come, and the
\* MountEntry of each exists.
OneToOne(f) == \A p, q \in Path : f[p] # None /\ f[p] = f[q] => p = q
Known(f, n, e) == \A p \in Path : f[p] # None => f[p] <= n /\ e[f[p]] # None

MemoryInv ==
    /\ OneToOne(table) /\ Known(table, issued, entryPath)
    /\ OneToOne(router) /\ Known(router, issued, entryPath)
    /\ up => \A i \in Standing :
                /\ table[DefaultMounts[i]] = i
                /\ router[DefaultMounts[i]] = i
                /\ entryPath[i] = DefaultMounts[i]
                /\ i \notin entryTaint
                /\ DefaultMounts[i] \notin routerTaint

UnmountSteps == {"view", "taint_entry", "taint", "unroute", "clear", "remove"}
RemountSteps == {"move", "reroute", "untaint"}

\* A call is where its operation takes it, and keeps off the standing mounts.
CallOK(c) ==
    /\ call[c].step # "idle" => up
    /\ call[c].step = "idle" => call[c].op = "none"
    /\ call[c].step \in UnmountSteps \/ call[c].then = "taint" => call[c].op = "unmount"
    /\ call[c].step \in RemountSteps \/ call[c].then = "reroute" => call[c].op = "remount"
    /\ call[c].step = "write" => call[c].op = "write" /\ call[c].mount # None
    /\ call[c].step = "put" => call[c].snap # NoTable /\ Loadable(call[c].snap, issued)
    /\ call[c].op = "mount" => call[c].mount # None /\ call[c].path # None
    /\ call[c].op = "unmount" => call[c].path # None /\ call[c].path \notin StandingPath
    /\ call[c].op = "remount" =>
          /\ call[c].path # None /\ call[c].path \notin StandingPath
          /\ call[c].dst # None /\ call[c].dst \notin StandingPath
          /\ call[c].mount # None /\ call[c].mount \notin Standing
          /\ entryPath[call[c].mount] # None
          /\ call[c].step \in {"persist", "put"} => call[c].old # None

CallInv == \A c \in Client : CallOK(c)

IInv ==
    /\ TypeOK
    /\ issued >= Len(DefaultMounts)
    /\ StoreInv
    /\ MemoryInv
    /\ CallInv

-----------------------------------------------------------------------------
(* Prefixes and the longest mounted one *)

LEMMA PrefixReflexive ==
  ASSUME NEW p \in Seq(STRING) PROVE IsPrefix(p, p)
  BY DEF IsPrefix

LEMMA PrefixTransitive ==
  ASSUME NEW p \in Seq(STRING), NEW q \in Seq(STRING), NEW r \in Seq(STRING),
         IsPrefix(p, q), IsPrefix(q, r)
  PROVE  IsPrefix(p, r)
<1>1. Len(p) \in Nat /\ Len(q) \in Nat /\ Len(r) \in Nat /\ Len(p) <= Len(q) /\ Len(q) <= Len(r)
  BY DEF IsPrefix
<1>2. \A i \in 1 .. Len(p) : p[i] = q[i]
  <2>1. ASSUME NEW i \in 1 .. Len(p) PROVE p[i] = q[i]
    <3>1. SubSeq(p, 1, Len(p))[i] = p[i] /\ SubSeq(q, 1, Len(p))[i] = q[i]
      BY <1>1
    <3> QED BY <3>1 DEF IsPrefix
  <2> QED BY <2>1
<1>3. \A i \in 1 .. Len(q) : q[i] = r[i]
  <2>1. ASSUME NEW i \in 1 .. Len(q) PROVE q[i] = r[i]
    <3>1. SubSeq(q, 1, Len(q))[i] = q[i] /\ SubSeq(r, 1, Len(q))[i] = r[i]
      BY <1>1
    <3> QED BY <3>1 DEF IsPrefix
  <2> QED BY <2>1
<1>4. \A i \in 1 .. Len(p) : p[i] = r[i]
  BY <1>1, <1>2, <1>3
<1>5. SubSeq(p, 1, Len(p)) = SubSeq(r, 1, Len(p))
  BY <1>1, <1>4
<1> QED BY <1>1, <1>5 DEF IsPrefix

\* The trie has a longest mounted prefix whenever it has one at all.
LEMMA MatchingExists ==
  ASSUME NEW p \in Path, Ancestors(p) # {}
  PROVE  Matching(p) \in Ancestors(p) /\ \A r \in Ancestors(p) : Len(r) <= Len(Matching(p))
<1> USE PathAssumption
<1> DEFINE gap(q) == Len(p) - Len(q)
           T == {gap(q) : q \in Ancestors(p)}
<1>1. \A q \in Ancestors(p) : Len(q) \in Nat /\ gap(q) \in Nat
  BY DEF Ancestors, IsPrefix
<1>2. T \subseteq Nat /\ T # {}
  BY <1>1
<1>3. PICK x \in T : \A y \in T : ~(<<y, x>> \in OpToRel(<, Nat))
  <2> HIDE DEF T
  <2> QED BY <1>2, NatLessThanWellFounded, WFMin
<1>4. \A y \in T : ~(y < x)
  BY <1>2, <1>3 DEF OpToRel
<1>5. PICK q \in Ancestors(p) : x = gap(q)
  OBVIOUS
<1>6. ASSUME NEW r \in Ancestors(p) PROVE Len(r) <= Len(q)
  <2>1. gap(r) \in T /\ ~(gap(r) < gap(q))
    BY <1>4, <1>5
  <2>2. Len(p) \in Nat
    OBVIOUS
  <2> QED BY <1>1, <2>1, <2>2
<1> QED BY <1>5, <1>6 DEF Matching

\* A mounted path is its own longest mounted prefix.
LEMMA MatchingSelf ==
  ASSUME NEW p \in Path, router[p] # None
  PROVE  MatchingMount(p) = router[p]
<1> USE PathAssumption
<1>1. p \in Ancestors(p)
  BY PrefixReflexive DEF Ancestors
<1>2. Matching(p) \in Path /\ IsPrefix(Matching(p), p) /\ Len(p) <= Len(Matching(p))
  BY <1>1, MatchingExists DEF Ancestors
<1>3. Matching(p) = p
  <2> DEFINE q == Matching(p)
  <2> HIDE DEF q
  <2>1. q \in Seq(STRING) /\ p \in Seq(STRING) /\ Len(q) = Len(p)
    BY <1>2 DEF q, IsPrefix
  <2>2. SubSeq(q, 1, Len(q)) = q /\ SubSeq(p, 1, Len(p)) = p
    BY <2>1, SubSeqFull
  <2> QED BY <1>2, <2>1, <2>2 DEF q, IsPrefix
<1> QED BY <1>1, <1>3 DEF MatchingMount

LEMMA MatchingFacts ==
  ASSUME router \in [Path -> MountOrNone], NEW p \in Path
  PROVE  /\ MatchingMount(p) \in MountOrNone
         /\ Ancestors(p) # {} => /\ Matching(p) \in Path
                                 /\ router[Matching(p)] # None
                                 /\ MatchingMount(p) = router[Matching(p)]
                                 /\ ~Protected(p) => Matching(p) \notin StandingPath
<1> USE PathAssumption, ProtectedAssumption
<1>1. CASE Ancestors(p) = {}
  BY <1>1 DEF MatchingMount, MountOrNone
<1>2. CASE Ancestors(p) # {}
  <2>1. Matching(p) \in Path /\ router[Matching(p)] # None /\ IsPrefix(Matching(p), p)
    BY <1>2, MatchingExists DEF Ancestors
  <2>2. MatchingMount(p) = router[Matching(p)]
    BY <1>2 DEF MatchingMount
  <2>3. ASSUME ~Protected(p), Matching(p) \in StandingPath PROVE FALSE
    <3>1. PICK q \in ProtectedPath : IsPrefix(q, Matching(p))
      BY <2>3 DEF StandingPath, Standing, Protected
    <3>2. IsPrefix(q, p)
      BY <2>1, <3>1, PrefixTransitive
    <3> QED BY <2>3, <3>2 DEF Protected
  <2> QED BY <1>2, <2>1, <2>2, <2>3
<1> QED BY <1>1, <1>2

-----------------------------------------------------------------------------
(* Facts about the constants and the tables *)

LEMMA ConstantFacts ==
  /\ Mount \subseteq Nat /\ None \notin Mount /\ None \notin Path
  /\ MaxMounts \in Nat /\ Len(DefaultMounts) <= MaxMounts
  /\ NoTable \notin StoredTable
  /\ Len(DefaultMounts) \in Nat /\ DOMAIN DefaultMounts = 1 .. Len(DefaultMounts)
  /\ Standing \subseteq DOMAIN DefaultMounts
  /\ Standing \subseteq Mount
  /\ \A i \in Standing : DefaultMounts[i] \in Path /\ DefaultMounts[i] \in StandingPath
  /\ \A p \in StandingPath : p \in Path /\ Protected(p)
<1> USE DefaultAssumption, BoundAssumption, NoneAssumption, NoTableAssumption
<1>1. DOMAIN DefaultMounts = 1 .. Len(DefaultMounts) /\ Len(DefaultMounts) \in Nat
  OBVIOUS
<1>2. \A i \in DOMAIN DefaultMounts : DefaultMounts[i] \in Path
  OBVIOUS
<1> QED BY <1>1, <1>2 DEF Standing, StandingPath, Mount

\* Two default mounts have two paths.
LEMMA DefaultsDiffer ==
  ASSUME NEW i \in DOMAIN DefaultMounts, NEW j \in DOMAIN DefaultMounts,
         DefaultMounts[i] = DefaultMounts[j]
  PROVE  i = j
<1> USE PathAssumption, DefaultAssumption
<1>1. DefaultMounts[i] \in Seq(STRING)
  OBVIOUS
<1>2. IsPrefix(DefaultMounts[i], DefaultMounts[j])
  BY <1>1, PrefixReflexive
<1> QED BY <1>2

LEMMA DefaultTableLoadable ==
  ASSUME issued \in Nat, issued >= Len(DefaultMounts)
  PROVE  DefaultTable \in StoredTable /\ Loadable(DefaultTable, issued)
<1> USE DefaultAssumption, BoundAssumption, NoneAssumption
<1> DEFINE At(p) == CHOOSE i \in DOMAIN DefaultMounts : DefaultMounts[i] = p
<1>1. \A i \in DOMAIN DefaultMounts : DefaultMounts[i] \in Path /\ i \in Mount /\ i <= issued
  BY DEF Mount
<1>2. \A i \in DOMAIN DefaultMounts : At(DefaultMounts[i]) = i
  BY DefaultsDiffer
<1>3. \A i \in DOMAIN DefaultMounts :
         /\ DefaultTable[DefaultMounts[i]] \in StoredEntry
         /\ DefaultTable[DefaultMounts[i]].mount = i
         /\ DefaultTable[DefaultMounts[i]].path = DefaultMounts[i]
         /\ DefaultTable[DefaultMounts[i]].tainted = FALSE
  <2> TAKE i \in DOMAIN DefaultMounts
  <2>1. DefaultTable[DefaultMounts[i]] =
           [mount |-> i, path |-> DefaultMounts[i], tainted |-> FALSE]
    BY <1>1, <1>2 DEF DefaultTable
  <2>2. DefaultTable[DefaultMounts[i]] \in StoredEntry
    BY <1>1, <2>1 DEF StoredEntry
  <2> QED BY <2>1, <2>2
<1>4. \A p \in Path : DefaultTable[p] # None =>
         \E i \in DOMAIN DefaultMounts : p = DefaultMounts[i]
  BY DEF DefaultTable
<1>5. DefaultTable \in StoredTable
  BY <1>3, <1>4 DEF DefaultTable, StoredTable
<1>6. Intact(DefaultTable)
  BY <1>3 DEF Intact, Standing
<1>7. OneKey(DefaultTable)
  <2> SUFFICES ASSUME NEW p \in Path, NEW q \in Path,
                      DefaultTable[p] # None, DefaultTable[q] # None,
                      DefaultTable[p].mount = DefaultTable[q].mount
               PROVE  p = q
    BY DEF OneKey
  <2>1. PICK i \in DOMAIN DefaultMounts : p = DefaultMounts[i]
    BY <1>4
  <2>2. PICK j \in DOMAIN DefaultMounts : q = DefaultMounts[j]
    BY <1>4
  <2>3. DefaultTable[p].mount = i /\ DefaultTable[q].mount = j
    BY <1>3, <2>1, <2>2
  <2> QED BY <2>1, <2>2, <2>3
<1>8. Issued(DefaultTable, issued)
  <2> SUFFICES ASSUME NEW p \in Path, DefaultTable[p] # None
               PROVE  DefaultTable[p].mount <= issued
    BY DEF Issued
  <2>1. PICK i \in DOMAIN DefaultMounts : p = DefaultMounts[i]
    BY <1>4
  <2>2. DefaultTable[p].mount = i
    BY <1>3, <2>1
  <2> QED BY <1>1, <2>2
<1> QED BY <1>5, <1>6, <1>7, <1>8 DEF Loadable

\* What persist serialises may be loaded again.
LEMMA SerializedLoadable ==
  ASSUME IInv, up
  PROVE  Serialized \in StoredTable /\ Loadable(Serialized, issued)
<1> USE NoneAssumption
<1>1. ASSUME NEW p \in Path, table[p] # None
      PROVE  /\ Serialized[p] \in StoredEntry
             /\ Serialized[p].mount = table[p]
             /\ Serialized[p].path = entryPath[table[p]]
             /\ table[p] \notin entryTaint => ~Serialized[p].tainted
             /\ table[p] <= issued
  <2>1. table[p] \in Mount /\ entryPath[table[p]] \in Path /\ table[p] <= issued
    BY <1>1 DEF IInv, TypeOK, MemoryInv, Known, MountOrNone
  <2>2. Serialized[p] = [mount |-> table[p], path |-> entryPath[table[p]],
                         tainted |-> table[p] \in entryTaint]
    BY <1>1 DEF Serialized
  <2>3. Serialized[p] \in StoredEntry
    BY <2>1, <2>2 DEF StoredEntry
  <2>4. ASSUME table[p] \notin entryTaint PROVE ~Serialized[p].tainted
    <3>1. (table[p] \in entryTaint) = FALSE
      BY <2>4
    <3>2. Serialized[p] = [mount |-> table[p], path |-> entryPath[table[p]], tainted |-> FALSE]
      BY <2>2, <3>1
    <3> QED BY <3>2
  <2> QED BY <2>1, <2>2, <2>3, <2>4
<1>0. \A p \in Path : Serialized[p] # None => table[p] # None
  BY DEF Serialized
<1>2. Serialized \in StoredTable
  BY <1>1 DEF Serialized, StoredTable
<1>3. Intact(Serialized)
  <2> SUFFICES ASSUME NEW i \in Standing
               PROVE  /\ Serialized[DefaultMounts[i]] # None
                      /\ Serialized[DefaultMounts[i]].mount = i
                      /\ Serialized[DefaultMounts[i]].path = DefaultMounts[i]
                      /\ ~Serialized[DefaultMounts[i]].tainted
    BY DEF Intact
  <2>1. /\ table[DefaultMounts[i]] = i /\ entryPath[i] = DefaultMounts[i]
        /\ i \notin entryTaint /\ i # None /\ DefaultMounts[i] \in Path
    BY ConstantFacts DEF IInv, MemoryInv
  <2> QED BY <1>1, <2>1
<1>4. OneKey(Serialized)
  BY <1>0, <1>1 DEF OneKey, IInv, MemoryInv, OneToOne
<1>5. Issued(Serialized, issued)
  BY <1>0, <1>1 DEF Issued
<1> QED BY <1>2, <1>3, <1>4, <1>5 DEF Loadable

\* What an unseal makes of a table that may be loaded, of either kind.
LEMMA LoadMemory ==
  ASSUME NEW t \in StoredTable, Loadable(t, issued), MayFit(t), Load(t), router' = RoutesOf(t),
         routerTaint' \subseteq {t[p].path : p \in {q \in Keys(t) : t[q].tainted}},
         UNCHANGED issued
  PROVE  /\ table' \in [Path -> MountOrNone] /\ entryPath' \in [Mount -> Path \cup {None}]
         /\ entryTaint' \in SUBSET Mount /\ router' \in [Path -> MountOrNone]
         /\ routerTaint' \in SUBSET Path
         /\ MemoryInv'
<1> USE NoneAssumption
<1> DEFINE At(m) == CHOOSE p \in Path : t[p] # None /\ t[p].mount = m
           Key(r) == CHOOSE p \in Keys(t) : t[p].path = r
<1>1. \A p \in Path : t[p] # None =>
         t[p].mount \in Mount /\ t[p].path \in Path /\ t[p].mount <= issued
  BY DEF StoredTable, StoredEntry, Loadable, Issued
<1>2. \A p \in Path : t[p] # None => At(t[p].mount) = p
  BY DEF Loadable, OneKey
<1>3. \A p \in Path : t[p] # None => entryPath'[t[p].mount] = t[p].path
  BY <1>1, <1>2 DEF Load
<1>4. \A m \in Mount : entryPath'[m] = None \/ entryPath'[m] \in Path
  <2> SUFFICES ASSUME NEW m \in Mount, entryPath'[m] # None PROVE entryPath'[m] \in Path
    OBVIOUS
  <2>1. PICK p \in Path : t[p] # None /\ t[p].mount = m
    BY DEF Load
  <2> QED BY <1>1, <1>3, <2>1
<1>5. \A p \in Keys(t) : Key(t[p].path) = p
  BY DEF MayFit
<1>6. \A p \in Keys(t) : router'[t[p].path] = t[p].mount
  BY <1>1, <1>5 DEF RoutesOf, Keys
<1>7. \A r \in Path : router'[r] # None =>
         \E p \in Path : t[p] # None /\ t[p].path = r /\ router'[r] = t[p].mount
  BY <1>6 DEF RoutesOf, Keys
<1>8. /\ table' \in [Path -> MountOrNone] /\ entryPath' \in [Mount -> Path \cup {None}]
      /\ entryTaint' \in SUBSET Mount /\ routerTaint' \in SUBSET Path
  BY <1>1, <1>4 DEF Load, Keys, MountOrNone
<1>9. router' \in [Path -> MountOrNone]
  BY <1>1, <1>7 DEF RoutesOf, MountOrNone
<1>10. OneToOne(table)'
  BY DEF OneToOne, Load, Loadable, OneKey
<1>11. Known(table, issued, entryPath)'
  BY <1>1, <1>3 DEF Known, Load
<1>12. OneToOne(router)'
  BY <1>7, ConstantFacts DEF OneToOne, Loadable, OneKey
<1>13. Known(router, issued, entryPath)'
  BY <1>1, <1>3, <1>7, ConstantFacts DEF Known
<1>14. ASSUME NEW i \in Standing
       PROVE  /\ table'[DefaultMounts[i]] = i
              /\ router'[DefaultMounts[i]] = i
              /\ entryPath'[i] = DefaultMounts[i]
              /\ i \notin entryTaint'
              /\ DefaultMounts[i] \notin routerTaint'
  <2> DEFINE d == DefaultMounts[i]
  <2>1. /\ d \in Path /\ t[d] # None /\ t[d].mount = i
        /\ t[d].path = d /\ ~t[d].tainted
    BY ConstantFacts DEF Loadable, Intact
  <2>2. table'[d] = i /\ router'[d] = i /\ entryPath'[i] = d
    BY <1>3, <1>6, <2>1, ConstantFacts DEF Load, Keys
  <2>3. i \notin entryTaint'
    BY <2>1 DEF Load, Loadable, OneKey
  <2>4. d \notin routerTaint'
    BY <2>1 DEF MayFit, Keys
  <2> QED BY <2>2, <2>3, <2>4
<1> QED BY <1>8, <1>9, <1>10, <1>11, <1>12, <1>13, <1>14 DEF MemoryInv

-----------------------------------------------------------------------------
(* The initial state, and what a step need not be asked again *)

LEMMA NoCallTyped == NoCall \in Call
  BY ConstantFacts DEF NoCall, Call, Steps, MountOrNone

LEMMA InitIInv == Init => IInv
<1> SUFFICES ASSUME Init PROVE IInv
  OBVIOUS
<1> USE ConstantFacts DEF Init
<1>1. TypeOK
  <2>1. call \in [Client -> Call]
    BY NoCallTyped
  <2>2. issued \in 0 .. MaxMounts
    OBVIOUS
  <2> QED BY <2>1, <2>2 DEF TypeOK, MountOrNone
<1>2. StoreInv
  BY DEF StoreInv
<1>3. MemoryInv
  BY DEF MemoryInv, OneToOne, Known
<1>4. CallInv
  BY DEF CallInv, CallOK, NoCall, UnmountSteps, RemountSteps
<1> QED BY <1>1, <1>2, <1>3, <1>4 DEF IInv

\* A table that may be loaded still may when more mounts are issued.
LEMMA LoadableKept ==
  ASSUME NEW t \in StoredTable, Loadable(t, issued), issued \in Nat, issued' \in Nat, issued' >= issued
  PROVE  Loadable(t, issued')
<1>1. Intact(t) /\ OneKey(t)
  BY DEF Loadable, Intact, OneKey
<1>2. Issued(t, issued')
  <2> SUFFICES ASSUME NEW p \in Path, t[p] # None PROVE t[p].mount <= issued'
    BY DEF Issued
  <2>1. t[p].mount \in Nat /\ t[p].mount <= issued
    BY ConstantFacts DEF Loadable, Issued, StoredTable, StoredEntry
  <2> QED BY <2>1
<1> QED BY <1>1, <1>2 DEF Loadable

\* A step that mounts nothing new, keeps each mount at one path and leaves the
\* standing mounts alone keeps the memory sound.
LEMMA MemoryKept ==
  ASSUME IInv, UNCHANGED <<up, issued>>,
         OneToOne(table'), OneToOne(router'),
         \A p \in Path : table'[p] # None => \E q \in Path : table[q] = table'[p],
         \A p \in Path : router'[p] # None => \E q \in Path : router[q] = router'[p],
         \A m \in Mount : entryPath[m] # None => entryPath'[m] # None,
         \A i \in Standing :
             /\ table'[DefaultMounts[i]] = table[DefaultMounts[i]]
             /\ router'[DefaultMounts[i]] = router[DefaultMounts[i]]
             /\ entryPath'[i] = entryPath[i]
             /\ i \in entryTaint' => i \in entryTaint
             /\ DefaultMounts[i] \in routerTaint' => DefaultMounts[i] \in routerTaint
  PROVE  MemoryInv'
<1>1. Known(table', issued', entryPath')
  <2> SUFFICES ASSUME NEW p \in Path, table'[p] # None
               PROVE  table'[p] <= issued' /\ entryPath'[table'[p]] # None
    BY DEF Known
  <2>1. PICK q \in Path : table[q] = table'[p]
    OBVIOUS
  <2>2. table[q] \in Mount /\ table[q] <= issued /\ entryPath[table[q]] # None
    BY <2>1 DEF IInv, TypeOK, MountOrNone, MemoryInv, Known
  <2> QED BY <2>1, <2>2
<1>2. Known(router', issued', entryPath')
  <2> SUFFICES ASSUME NEW p \in Path, router'[p] # None
               PROVE  router'[p] <= issued' /\ entryPath'[router'[p]] # None
    BY DEF Known
  <2>1. PICK q \in Path : router[q] = router'[p]
    OBVIOUS
  <2>2. router[q] \in Mount /\ router[q] <= issued /\ entryPath[router[q]] # None
    BY <2>1 DEF IInv, TypeOK, MountOrNone, MemoryInv, Known
  <2> QED BY <2>1, <2>2
<1> QED BY <1>1, <1>2 DEF IInv, MemoryInv

\* A step of one client leaves the calls of the others as they were.
LEMMA CallsKept ==
  ASSUME IInv, NEW c \in Client, \A d \in Client \ {c} : call'[d] = call[d],
         up' = up, issued' \in Nat, issued' >= issued,
         \A m \in Mount : entryPath[m] # None => entryPath'[m] # None,
         CallOK(c)'
  PROVE  CallInv'
<1> SUFFICES ASSUME NEW d \in Client \ {c} PROVE CallOK(d)'
  BY DEF CallInv
<1>1. call'[d] = call[d] /\ CallOK(d) /\ call[d] \in Call
  BY DEF IInv, CallInv, TypeOK
<1>2. call[d].step = "put" => Loadable(call[d].snap, issued')
  BY <1>1, LoadableKept, ConstantFacts DEF IInv, TypeOK, CallOK, Call
<1>3. call[d].op = "remount" => entryPath'[call[d].mount] # None
  BY <1>1 DEF CallOK, Call, MountOrNone
<1> QED BY <1>1, <1>2, <1>3 DEF CallOK

\* A call that returned is idle.
LEMMA ReturnOK ==
  ASSUME IInv, NEW c \in Client, Return(c)
  PROVE  call' \in [Client -> Call] /\ CallOK(c)' /\ \A d \in Client \ {c} : call'[d] = call[d]
<1>1. call' \in [Client -> Call] /\ \A d \in Client \ {c} : call'[d] = call[d]
  BY NoCallTyped DEF Return, IInv, TypeOK
<1>2. call'[c] = NoCall
  BY DEF Return, IInv, TypeOK
<1> QED BY <1>1, <1>2 DEF CallOK, NoCall, UnmountSteps, RemountSteps

-----------------------------------------------------------------------------
(* Each step of a call preserves the inductive invariant. *)

LEMMA PersistIInv ==
  ASSUME IInv, NEW c \in Client, Persist(c)
  PROVE  IInv'
<1> USE DEF storageVars, tableVars, routerVars, historyVars
<1>0. call[c] \in Call /\ CallOK(c) /\ up /\ call[c].step = "persist"
  BY DEF IInv, TypeOK, CallInv, CallOK, Persist
<1>1. Serialized \in StoredTable /\ Loadable(Serialized, issued)
  BY <1>0, SerializedLoadable
<1>2. /\ call'[c] \in Call
      /\ call'[c].step = "put" /\ call'[c].snap = Serialized
      /\ call'[c].op = call[c].op /\ call'[c].then = call[c].then
      /\ call'[c].path = call[c].path /\ call'[c].dst = call[c].dst
      /\ call'[c].mount = call[c].mount /\ call'[c].old = call[c].old
  BY <1>0, <1>1 DEF Persist, IInv, TypeOK, Call, Steps
<1>3. TypeOK'
  BY <1>2 DEF Persist, IInv, TypeOK
<1>4. StoreInv'
  BY DEF Persist, IInv, StoreInv
<1>5. MemoryInv'
  BY DEF Persist, IInv, MemoryInv
<1>6. CallOK(c)'
  <2>1. UNCHANGED <<up, issued, entryPath>> /\ Serialized # NoTable
    BY <1>1, ConstantFacts DEF Persist
  <2> QED BY <1>0, <1>1, <1>2, <2>1 DEF CallOK, UnmountSteps, RemountSteps
<1>7. \A d \in Client \ {c} : call'[d] = call[d]
  BY DEF Persist, IInv, TypeOK
<1> QED BY <1>3, <1>4, <1>5, <1>6, <1>7, CallsKept, ConstantFacts DEF Persist, IInv, TypeOK

LEMMA PutIInv ==
  ASSUME IInv, NEW c \in Client, Put(c)
  PROVE  IInv'
<1> USE DEF storageVars, tableVars, routerVars, historyVars
<1>0. call[c] \in Call /\ CallOK(c) /\ up /\ call[c].step = "put"
  BY DEF IInv, TypeOK, CallInv, CallOK, Put
<1>1. UNCHANGED <<data, up, tableVars, routerVars, issued, remounted, alone>>
  BY DEF Put
<1>2. /\ call' \in [Client -> Call] /\ CallOK(c)'
      /\ \A d \in Client \ {c} : call'[d] = call[d]
  <2>1. CASE call[c].then = "idle"
    BY <2>1, ReturnOK DEF Put
  <2>2. CASE call[c].then # "idle"
    <3>1. call' = [call EXCEPT ![c].step = call[c].then, ![c].snap = NoTable]
      BY <2>2 DEF Put
    <3>2. /\ call'[c] \in Call
          /\ call'[c].step = call[c].then
          /\ call'[c].op = call[c].op /\ call'[c].then = call[c].then
          /\ call'[c].path = call[c].path /\ call'[c].dst = call[c].dst
          /\ call'[c].mount = call[c].mount /\ call'[c].old = call[c].old
      BY <1>0, <3>1 DEF IInv, TypeOK, Call, Steps
    <3>3. call[c].then \in {"taint", "reroute"}
      BY <1>0, <2>2 DEF Call
    <3>4. CallOK(c)'
      BY <1>0, <1>1, <3>2, <3>3 DEF CallOK, UnmountSteps, RemountSteps
    <3> QED BY <3>1, <3>2, <3>4 DEF IInv, TypeOK
  <2> QED BY <2>1, <2>2
<1>3. TypeOK'
  <2>1. stored' \in StoredTable
    BY <1>0 DEF Put, CallOK, Call
  <2>2. acked' \in SUBSET Mount
    BY <1>0 DEF Put, CallOK, Call, IInv, TypeOK, MountOrNone
  <2>3. gone' \in SUBSET Mount
    BY <1>0 DEF Put, Call, IInv, TypeOK, MountOrNone
  <2> QED BY <1>1, <1>2, <2>1, <2>2, <2>3 DEF IInv, TypeOK
<1>4. StoreInv'
  BY <1>0, <1>1 DEF Put, StoreInv, CallOK
<1>5. MemoryInv'
  BY <1>1 DEF IInv, MemoryInv
<1> QED BY <1>1, <1>2, <1>3, <1>4, <1>5, CallsKept, ConstantFacts DEF IInv, TypeOK

LEMMA PutFailsIInv ==
  ASSUME IInv, NEW c \in Client, PutFails(c)
  PROVE  IInv'
<1> USE DEF storageVars, tableVars, routerVars, historyVars
<1>0. call[c] \in Call /\ CallOK(c) /\ up /\ call[c].step = "put"
  BY DEF IInv, TypeOK, CallInv, CallOK, PutFails
<1>1. UNCHANGED <<storageVars, up, table, routerVars, historyVars>>
  BY DEF PutFails
<1>2. /\ call' \in [Client -> Call] /\ CallOK(c)'
      /\ \A d \in Client \ {c} : call'[d] = call[d]
  BY ReturnOK DEF PutFails
<1>3. /\ entryPath' \in [Mount -> Path \cup {None}]
      /\ \A m \in Mount : entryPath[m] # None => entryPath'[m] # None
      /\ \A i \in Standing : entryPath'[i] = entryPath[i]
      /\ entryTaint' \in SUBSET Mount
      /\ \A i \in Standing : i \in entryTaint' => i \in entryTaint
  <2>1. /\ entryPath \in [Mount -> Path \cup {None}] /\ entryTaint \in SUBSET Mount
        /\ Standing \subseteq Mount
    BY ConstantFacts DEF IInv, TypeOK
  <2>2. CASE call[c].op = "remount"
    <3>1. /\ call[c].mount \in Mount \ Standing
          /\ call[c].old \in Path \cup {None} /\ call[c].old # None
      BY <1>0, <2>2 DEF CallOK, Call, MountOrNone
    <3>2. /\ entryPath' = [entryPath EXCEPT ![call[c].mount] = call[c].old]
          /\ entryTaint' = entryTaint \cup {call[c].mount}
      BY <2>2 DEF PutFails
    <3> QED BY <2>1, <3>1, <3>2
  <2>3. CASE call[c].op # "remount"
    BY <2>1, <2>3 DEF PutFails
  <2> QED BY <2>2, <2>3
<1>4. TypeOK'
  BY <1>1, <1>2, <1>3 DEF IInv, TypeOK
<1>5. StoreInv'
  BY <1>1 DEF IInv, StoreInv
<1>6. MemoryInv'
  <2>1. /\ UNCHANGED <<up, issued, table, router, routerTaint>>
        /\ OneToOne(table') /\ OneToOne(router')
    BY <1>1 DEF IInv, MemoryInv
  <2> QED BY <1>3, <2>1, MemoryKept
<1> QED BY <1>1, <1>2, <1>3, <1>4, <1>5, <1>6, CallsKept, ConstantFacts DEF IInv, TypeOK

\* The facts about the call that unmounts or remounts which its steps use.
LEMMA CallFacts ==
  ASSUME IInv, NEW c \in Client
  PROVE  /\ call[c] \in Call /\ CallOK(c)
         /\ call[c].step # "idle" => up
         /\ call[c].step \in UnmountSteps \cup RemountSteps =>
               /\ call[c].path \in Path
               /\ \A i \in Standing : DefaultMounts[i] # call[c].path
         /\ call[c].step \in RemountSteps =>
               /\ call[c].dst \in Path
               /\ \A i \in Standing : DefaultMounts[i] # call[c].dst
               /\ call[c].mount \in Mount \ Standing
<1>1. call[c] \in Call /\ CallOK(c)
  BY DEF IInv, TypeOK, CallInv
<1> QED BY <1>1, ConstantFacts DEF CallOK, Call, MountOrNone

\* A step that changes no more than where the call is, what it goes on with and
\* the mount an unmount is about.
LEMMA CallMoves ==
  ASSUME IInv, NEW c \in Client, UNCHANGED <<up, issued, entryPath>>, call[c].step # "idle",
         call'[c].step \notin {"idle", "put", "write"},
         call'[c].op = call[c].op /\ call'[c].path = call[c].path,
         call'[c].dst = call[c].dst /\ call'[c].old = call[c].old,
         call[c].op = "unmount" \/ call'[c].mount = call[c].mount,
         call'[c].step \in UnmountSteps \/ call'[c].then = "taint" => call[c].op = "unmount",
         call'[c].step \in RemountSteps \/ call'[c].then = "reroute" => call[c].op = "remount",
         call[c].op = "remount" => call'[c].step # "persist"
  PROVE  CallOK(c)'
  BY CallFacts DEF CallOK

LEMMA CallGoes ==
  ASSUME IInv, NEW c \in Client, UNCHANGED <<up, issued, entryPath>>, call[c].step # "idle",
         NEW step \in Steps \ {"idle", "put", "write", "persist"},
         step \in UnmountSteps => call[c].op = "unmount",
         step \in RemountSteps => call[c].op = "remount",
         Goto(c, step)
  PROVE  /\ call' \in [Client -> Call] /\ CallOK(c)'
         /\ \A d \in Client \ {c} : call'[d] = call[d]
<1>1. call[c] \in Call /\ CallOK(c)
  BY CallFacts
<1>2. /\ call'[c] \in Call
      /\ call'[c].step = step /\ call'[c].then = call[c].then /\ call'[c].mount = call[c].mount
      /\ call'[c].op = call[c].op /\ call'[c].snap = call[c].snap
      /\ call'[c].path = call[c].path /\ call'[c].dst = call[c].dst
      /\ call'[c].old = call[c].old
  BY <1>1 DEF IInv, TypeOK, Call, Goto
<1>3. CallOK(c)'
  BY <1>1, <1>2 DEF CallOK
<1> QED BY <1>2, <1>3 DEF IInv, TypeOK, Goto

LEMMA UnmountViewIInv ==
  ASSUME IInv, NEW c \in Client, UnmountView(c)
  PROVE  IInv'
<1> USE DEF storageVars, tableVars, routerVars, historyVars
<1>0. /\ call[c] \in Call /\ CallOK(c) /\ call[c].path \in Path
      /\ call[c].op = "unmount" /\ call[c].step = "view"
  BY CallFacts DEF UnmountView, CallOK, UnmountSteps
<1>1. UNCHANGED <<storageVars, up, tableVars, routerVars, historyVars>>
  BY DEF UnmountView
<1>2. MatchingMount(call[c].path) \in MountOrNone
  BY <1>0, MatchingFacts DEF IInv, TypeOK
<1>3. /\ call'[c] \in Call /\ call'[c].step = "taint_entry"
      /\ call'[c].then = call[c].then /\ call'[c].op = call[c].op
      /\ call'[c].path = call[c].path /\ call'[c].dst = call[c].dst
      /\ call'[c].old = call[c].old
  BY <1>0, <1>2 DEF UnmountView, IInv, TypeOK, Call, Steps
<1>4. CallOK(c)'
  <2>1. call[c].then = "reroute" => call[c].op = "remount"
    BY <1>0 DEF CallOK
  <2> QED BY <1>0, <1>1, <1>3, <2>1, CallMoves DEF RemountSteps
<1>5. call' \in [Client -> Call] /\ \A d \in Client \ {c} : call'[d] = call[d]
  BY <1>3 DEF UnmountView, IInv, TypeOK
<1>6. TypeOK'
  BY <1>1, <1>5 DEF IInv, TypeOK
<1>7. StoreInv' /\ MemoryInv'
  BY <1>1 DEF IInv, StoreInv, MemoryInv
<1> QED BY <1>1, <1>4, <1>5, <1>6, <1>7, CallsKept, ConstantFacts DEF IInv, TypeOK

LEMMA UnmountTaintEntryIInv ==
  ASSUME IInv, NEW c \in Client, UnmountTaintEntry(c)
  PROVE  IInv'
<1> USE DEF storageVars, tableVars, routerVars, historyVars
<1> DEFINE m == table[call[c].path]
<1>0. /\ call[c] \in Call /\ CallOK(c) /\ up /\ call[c].path \in Path
      /\ call[c].op = "unmount" /\ call[c].step = "taint_entry"
      /\ \A i \in Standing : DefaultMounts[i] # call[c].path
  BY CallFacts DEF UnmountTaintEntry, CallOK, UnmountSteps
<1>1. UNCHANGED <<storageVars, up, table, entryPath, routerVars, historyVars>>
  BY DEF UnmountTaintEntry
<1>2. m \in MountOrNone /\ m \notin Standing
  <2>1. m \in MountOrNone
    BY <1>0 DEF IInv, TypeOK
  <2>2. ASSUME m \in Standing PROVE FALSE
    <3>1. table[DefaultMounts[m]] = m /\ m # None /\ DefaultMounts[m] \in Path
      BY <1>0, <2>2, ConstantFacts DEF IInv, MemoryInv
    <3> QED BY <1>0, <2>2, <3>1 DEF IInv, MemoryInv, OneToOne
  <2> QED BY <2>1, <2>2
<1>3. /\ call' \in [Client -> Call] /\ CallOK(c)'
      /\ \A d \in Client \ {c} : call'[d] = call[d]
  <2>1. CASE m = None
    <3>1. Goto(c, "taint")
      BY <2>1 DEF UnmountTaintEntry
    <3> QED BY <1>0, <1>1, <3>1, CallGoes DEF Steps, UnmountSteps, RemountSteps
  <2>2. CASE m # None
    <3>1. call' = [call EXCEPT ![c].step = "persist", ![c].then = "taint"]
      BY <2>2 DEF UnmountTaintEntry
    <3>2. /\ call'[c] \in Call /\ call'[c].step = "persist"
          /\ call'[c].then = "taint" /\ call'[c].op = call[c].op
          /\ call'[c].path = call[c].path /\ call'[c].dst = call[c].dst
          /\ call'[c].old = call[c].old
      BY <1>0, <3>1 DEF IInv, TypeOK, Call, Steps
    <3>3. CallOK(c)'
      BY <1>0, <1>1, <3>2, CallMoves DEF UnmountSteps, RemountSteps
    <3> QED BY <3>1, <3>2, <3>3 DEF IInv, TypeOK
  <2> QED BY <2>1, <2>2
<1>4. /\ entryTaint' \in SUBSET Mount
      /\ \A i \in Standing : i \in entryTaint' => i \in entryTaint
  BY <1>2 DEF UnmountTaintEntry, IInv, TypeOK, MountOrNone
<1>5. TypeOK'
  BY <1>1, <1>3, <1>4 DEF IInv, TypeOK
<1>6. StoreInv'
  BY <1>1 DEF IInv, StoreInv
<1>7. MemoryInv'
  BY <1>1, <1>4 DEF IInv, MemoryInv
<1> QED BY <1>1, <1>3, <1>5, <1>6, <1>7, CallsKept, ConstantFacts DEF IInv, TypeOK

LEMMA UnmountTaintIInv ==
  ASSUME IInv, NEW c \in Client, UnmountTaint(c)
  PROVE  IInv'
<1> USE DEF storageVars, tableVars, routerVars, historyVars
<1>0. /\ CallOK(c) /\ call[c].path \in Path
      /\ call[c].op = "unmount" /\ call[c].step = "taint"
      /\ \A i \in Standing : DefaultMounts[i] # call[c].path
  BY CallFacts DEF UnmountTaint, CallOK, UnmountSteps
<1>1. UNCHANGED <<storageVars, up, tableVars, router, historyVars>>
  BY DEF UnmountTaint
<1>2. /\ call' \in [Client -> Call] /\ CallOK(c)'
      /\ \A d \in Client \ {c} : call'[d] = call[d]
  <2>1. CASE router[call[c].path] = None
    BY <2>1, ReturnOK DEF UnmountTaint
  <2>2. CASE router[call[c].path] # None
    <3>1. Goto(c, "unroute")
      BY <2>2 DEF UnmountTaint
    <3> QED BY <1>0, <1>1, <3>1, CallGoes DEF Steps, UnmountSteps, RemountSteps
  <2> QED BY <2>1, <2>2
<1>3. /\ routerTaint' \in SUBSET Path
      /\ \A i \in Standing :
            DefaultMounts[i] \in routerTaint' => DefaultMounts[i] \in routerTaint
  BY <1>0 DEF UnmountTaint, IInv, TypeOK
<1>4. TypeOK'
  BY <1>1, <1>2, <1>3 DEF IInv, TypeOK
<1>5. StoreInv'
  BY <1>1 DEF IInv, StoreInv
<1>6. MemoryInv'
  BY <1>1, <1>3 DEF IInv, MemoryInv
<1> QED BY <1>1, <1>2, <1>4, <1>5, <1>6, CallsKept, ConstantFacts DEF IInv, TypeOK

LEMMA UnmountRouteIInv ==
  ASSUME IInv, NEW c \in Client, UnmountRoute(c)
  PROVE  IInv'
<1> USE DEF storageVars, tableVars, routerVars, historyVars
<1>0. /\ CallOK(c) /\ call[c].path \in Path
      /\ call[c].op = "unmount" /\ call[c].step = "unroute"
      /\ \A i \in Standing : DefaultMounts[i] # call[c].path
  BY CallFacts DEF UnmountRoute, CallOK, UnmountSteps
<1>1. UNCHANGED <<storageVars, up, tableVars, historyVars>>
  BY DEF UnmountRoute
<1>2. /\ call' \in [Client -> Call] /\ CallOK(c)'
      /\ \A d \in Client \ {c} : call'[d] = call[d]
  BY <1>0, <1>1, CallGoes DEF UnmountRoute, Steps, UnmountSteps, RemountSteps
<1>3. /\ router' \in [Path -> MountOrNone]
      /\ \A p \in Path : router'[p] = None \/ router'[p] = router[p]
      /\ \A i \in Standing : router'[DefaultMounts[i]] = router[DefaultMounts[i]]
      /\ routerTaint' \in SUBSET Path
      /\ routerTaint' \subseteq routerTaint
  BY <1>0, ConstantFacts DEF UnmountRoute, IInv, TypeOK, MountOrNone
<1>4. TypeOK'
  BY <1>1, <1>2, <1>3 DEF IInv, TypeOK
<1>5. StoreInv'
  BY <1>1 DEF IInv, StoreInv
<1>6. MemoryInv'
  <2>1. OneToOne(table') /\ OneToOne(router')
    BY <1>1, <1>3 DEF IInv, MemoryInv, OneToOne
  <2> QED BY <1>1, <1>3, <2>1, MemoryKept
<1> QED BY <1>1, <1>2, <1>4, <1>5, <1>6, CallsKept, ConstantFacts DEF IInv, TypeOK

LEMMA UnmountClearIInv ==
  ASSUME IInv, NEW c \in Client, UnmountClear(c)
  PROVE  IInv'
<1> USE DEF storageVars, tableVars, routerVars, historyVars
<1>0. CallOK(c) /\ call[c].op = "unmount" /\ call[c].step = "clear"
  BY CallFacts DEF UnmountClear, CallOK, UnmountSteps
<1>1. UNCHANGED <<stored, up, tableVars, routerVars, historyVars>>
  BY DEF UnmountClear
<1>2. /\ call' \in [Client -> Call] /\ CallOK(c)'
      /\ \A d \in Client \ {c} : call'[d] = call[d]
  <2>1. CASE Goto(c, "remove")
    BY <1>0, <1>1, <2>1, CallGoes DEF Steps, UnmountSteps, RemountSteps
  <2>2. CASE Return(c)
    BY <2>2, ReturnOK
  <2> QED BY <2>1, <2>2 DEF UnmountClear
<1>3. data' \in SUBSET Mount
  BY DEF UnmountClear, IInv, TypeOK
<1>4. TypeOK'
  BY <1>1, <1>2, <1>3 DEF IInv, TypeOK
<1>5. StoreInv' /\ MemoryInv'
  BY <1>1 DEF IInv, StoreInv, MemoryInv
<1> QED BY <1>1, <1>2, <1>4, <1>5, CallsKept, ConstantFacts DEF IInv, TypeOK

LEMMA UnmountRemoveIInv ==
  ASSUME IInv, NEW c \in Client, UnmountRemove(c)
  PROVE  IInv'
<1> USE DEF storageVars, tableVars, routerVars, historyVars
<1>0. /\ call[c] \in Call /\ CallOK(c) /\ call[c].path \in Path
      /\ call[c].op = "unmount" /\ call[c].step = "remove"
      /\ \A i \in Standing : DefaultMounts[i] # call[c].path
  BY CallFacts DEF UnmountRemove, CallOK, UnmountSteps
<1>1. UNCHANGED <<storageVars, up, entryPath, entryTaint, routerVars, issued, acked,
                  remounted, alone>>
  BY DEF UnmountRemove
<1>2. /\ call' \in [Client -> Call] /\ CallOK(c)'
      /\ \A d \in Client \ {c} : call'[d] = call[d]
  <2>1. CASE table[call[c].path] = None
    BY <2>1, ReturnOK DEF UnmountRemove
  <2>2. CASE table[call[c].path] # None
    <3>1. call' = [call EXCEPT ![c].step = "persist", ![c].then = "idle"]
      BY <2>2 DEF UnmountRemove
    <3>2. /\ call'[c] \in Call /\ call'[c].step = "persist"
          /\ call'[c].then = "idle" /\ call'[c].op = call[c].op
          /\ call'[c].path = call[c].path /\ call'[c].dst = call[c].dst
          /\ call'[c].old = call[c].old
      BY <1>0, <3>1 DEF IInv, TypeOK, Call, Steps
    <3>3. CallOK(c)'
      BY <1>0, <1>1, <3>2, CallMoves DEF UnmountSteps, RemountSteps
    <3> QED BY <3>1, <3>2, <3>3 DEF IInv, TypeOK
  <2> QED BY <2>1, <2>2
<1>3. /\ table' \in [Path -> MountOrNone]
      /\ \A p \in Path : table'[p] = None \/ table'[p] = table[p]
      /\ \A i \in Standing : table'[DefaultMounts[i]] = table[DefaultMounts[i]]
  BY <1>0, ConstantFacts DEF UnmountRemove, IInv, TypeOK, MountOrNone
<1>4. gone' \in SUBSET Mount
  BY <1>0 DEF UnmountRemove, IInv, TypeOK, Call, MountOrNone
<1>5. TypeOK'
  BY <1>1, <1>2, <1>3, <1>4 DEF IInv, TypeOK
<1>6. StoreInv'
  BY <1>1 DEF IInv, StoreInv
<1>7. MemoryInv'
  <2>1. OneToOne(table') /\ OneToOne(router')
    BY <1>1, <1>3 DEF IInv, MemoryInv, OneToOne
  <2> QED BY <1>1, <1>3, <2>1, MemoryKept
<1> QED BY <1>1, <1>2, <1>5, <1>6, <1>7, CallsKept, ConstantFacts DEF IInv, TypeOK

LEMMA RemountMoveIInv ==
  ASSUME IInv, NEW c \in Client, RemountMove(c)
  PROVE  IInv'
<1> USE DEF storageVars, tableVars, routerVars, historyVars
<1> DEFINE src == call[c].path
           dst == call[c].dst
           m   == call[c].mount
           refused == router[src] = None \/ Ancestors(dst) # {}
<1>0. /\ call[c] \in Call /\ CallOK(c) /\ up /\ src \in Path /\ dst \in Path
      /\ m \in Mount \ Standing /\ call[c].op = "remount" /\ call[c].step = "move"
      /\ \A i \in Standing : DefaultMounts[i] # src /\ DefaultMounts[i] # dst
      /\ entryPath[m] \in Path
  BY CallFacts DEF RemountMove, CallOK, RemountSteps, IInv, TypeOK
<1>1. UNCHANGED <<storageVars, up, table, router, issued, acked, gone, alone>>
  BY DEF RemountMove
<1>2. /\ entryPath' \in [Mount -> Path \cup {None}]
      /\ \A k \in Mount : entryPath[k] # None => entryPath'[k] # None
      /\ \A i \in Standing : entryPath'[i] = entryPath[i]
      /\ entryTaint' \in SUBSET Mount
      /\ \A i \in Standing : i \in entryTaint' => i \in entryTaint
  <2>1. /\ entryPath \in [Mount -> Path \cup {None}] /\ entryTaint \in SUBSET Mount
        /\ Standing \subseteq Mount /\ None \notin Path
    BY ConstantFacts DEF IInv, TypeOK
  <2>2. CASE refused
    <3>1. entryTaint' = entryTaint \cup {m} /\ entryPath' = entryPath
      BY <2>2 DEF RemountMove
    <3> QED BY <1>0, <2>1, <3>1
  <2>3. CASE ~refused
    <3>1. entryTaint' = entryTaint \ {m} /\ entryPath' = [entryPath EXCEPT ![m] = dst]
      BY <2>3 DEF RemountMove
    <3> QED BY <1>0, <2>1, <3>1
  <2> QED BY <2>2, <2>3
<1>3. /\ routerTaint' \in SUBSET Path
      /\ \A i \in Standing :
            DefaultMounts[i] \in routerTaint' => DefaultMounts[i] \in routerTaint
      /\ remounted' \in SUBSET Mount
  BY <1>0 DEF RemountMove, IInv, TypeOK
<1>4. /\ call' \in [Client -> Call] /\ CallOK(c)'
      /\ \A d \in Client \ {c} : call'[d] = call[d]
  <2>1. CASE refused
    BY <2>1, ReturnOK DEF RemountMove
  <2>2. CASE ~refused
    <3>1. call' = [call EXCEPT ![c].step = "persist", ![c].then = "reroute",
                               ![c].old = entryPath[m]]
      BY <2>2 DEF RemountMove
    <3>2. /\ call'[c] \in Call /\ call'[c].step = "persist"
          /\ call'[c].then = "reroute" /\ call'[c].op = call[c].op
          /\ call'[c].path = call[c].path /\ call'[c].dst = call[c].dst
          /\ call'[c].mount = call[c].mount /\ call'[c].old = entryPath[m]
      BY <1>0, <3>1 DEF IInv, TypeOK, Call, Steps
    <3>3. entryPath'[m] # None /\ entryPath[m] # None
      BY <1>0, <1>2, ConstantFacts
    <3>4. CallOK(c)'
      BY <1>0, <1>1, <3>2, <3>3 DEF CallOK, UnmountSteps, RemountSteps
    <3> QED BY <3>1, <3>2, <3>4 DEF IInv, TypeOK
  <2> QED BY <2>1, <2>2
<1>5. TypeOK'
  BY <1>1, <1>2, <1>3, <1>4 DEF IInv, TypeOK
<1>6. StoreInv'
  BY <1>1 DEF IInv, StoreInv
<1>7. MemoryInv'
  <2>1. OneToOne(table') /\ OneToOne(router')
    BY <1>1 DEF IInv, MemoryInv
  <2> QED BY <1>1, <1>2, <1>3, <2>1, MemoryKept
<1> QED BY <1>1, <1>2, <1>4, <1>5, <1>6, <1>7, CallsKept, ConstantFacts DEF IInv, TypeOK

LEMMA RemountRouteIInv ==
  ASSUME IInv, NEW c \in Client, RemountRoute(c)
  PROVE  IInv'
<1> USE DEF storageVars, tableVars, routerVars, historyVars
<1> DEFINE src == call[c].path
           dst == call[c].dst
<1>0. /\ CallOK(c) /\ src \in Path /\ dst \in Path
      /\ call[c].op = "remount" /\ call[c].step = "reroute"
      /\ \A i \in Standing : DefaultMounts[i] # src /\ DefaultMounts[i] # dst
  BY CallFacts DEF RemountRoute, CallOK, RemountSteps
<1>1. UNCHANGED <<storageVars, up, tableVars, historyVars>>
  BY DEF RemountRoute
<1>2. CASE router[src] = None
  <2>1. UNCHANGED routerVars /\ Return(c)
    BY <1>2 DEF RemountRoute
  <2>2. /\ call' \in [Client -> Call] /\ CallOK(c)'
        /\ \A d \in Client \ {c} : call'[d] = call[d]
    BY <2>1, ReturnOK
  <2>3. TypeOK'
    BY <1>1, <2>1, <2>2 DEF IInv, TypeOK
  <2>4. StoreInv' /\ MemoryInv'
    BY <1>1, <2>1 DEF IInv, StoreInv, MemoryInv
  <2> QED BY <1>1, <2>2, <2>3, <2>4, CallsKept, ConstantFacts DEF IInv, TypeOK
<1>3. CASE router[src] # None
  <2>1. /\ router' = [router EXCEPT ![src] = None, ![dst] = router[src]]
        /\ routerTaint' = IF src \in routerTaint THEN (routerTaint \ {src}) \cup {dst}
                          ELSE routerTaint \ {dst}
        /\ Goto(c, "untaint")
    BY <1>3 DEF RemountRoute
  <2>2. /\ call' \in [Client -> Call] /\ CallOK(c)'
        /\ \A d \in Client \ {c} : call'[d] = call[d]
    BY <1>0, <1>1, <2>1, CallGoes DEF Steps, UnmountSteps, RemountSteps
  <2>3. /\ router' \in [Path -> MountOrNone]
        /\ router'[dst] = router[src]
        /\ \A p \in Path : p # dst => router'[p] = IF p = src THEN None ELSE router[p]
        /\ \A i \in Standing : router'[DefaultMounts[i]] = router[DefaultMounts[i]]
    BY <1>0, <2>1, ConstantFacts DEF IInv, TypeOK, MountOrNone
  <2>4. /\ routerTaint' \in SUBSET Path
        /\ \A i \in Standing :
              DefaultMounts[i] \in routerTaint' => DefaultMounts[i] \in routerTaint
    BY <1>0, <2>1 DEF IInv, TypeOK
  <2>5. TypeOK'
    BY <1>1, <2>2, <2>3, <2>4 DEF IInv, TypeOK
  <2>6. StoreInv'
    BY <1>1 DEF IInv, StoreInv
  <2>7. MemoryInv'
    <3>1. OneToOne(table') /\ OneToOne(router')
      BY <1>0, <1>1, <2>3 DEF IInv, MemoryInv, OneToOne
    <3>2. \A p \in Path : router'[p] # None => \E q \in Path : router[q] = router'[p]
      BY <1>0, <2>3
    <3> QED BY <1>1, <2>3, <2>4, <3>1, <3>2, MemoryKept
  <2> QED BY <1>1, <2>2, <2>5, <2>6, <2>7, CallsKept, ConstantFacts DEF IInv, TypeOK
<1> QED BY <1>2, <1>3

LEMMA RemountUntaintIInv ==
  ASSUME IInv, NEW c \in Client, RemountUntaint(c)
  PROVE  IInv'
<1> USE DEF storageVars, tableVars, routerVars, historyVars
<1>1. UNCHANGED <<storageVars, up, tableVars, router, historyVars>>
  BY DEF RemountUntaint
<1>2. /\ call' \in [Client -> Call] /\ CallOK(c)'
      /\ \A d \in Client \ {c} : call'[d] = call[d]
  BY ReturnOK DEF RemountUntaint
<1>3. routerTaint' \in SUBSET Path /\ routerTaint' \subseteq routerTaint
  BY DEF RemountUntaint, IInv, TypeOK
<1>4. TypeOK'
  BY <1>1, <1>2, <1>3 DEF IInv, TypeOK
<1>5. StoreInv' /\ MemoryInv'
  BY <1>1, <1>3 DEF IInv, StoreInv, MemoryInv
<1> QED BY <1>1, <1>2, <1>4, <1>5, CallsKept, ConstantFacts DEF IInv, TypeOK

LEMMA WriteDataIInv ==
  ASSUME IInv, NEW c \in Client, WriteData(c)
  PROVE  IInv'
<1> USE DEF storageVars, tableVars, routerVars, historyVars
<1>1. UNCHANGED <<stored, up, tableVars, routerVars, historyVars>>
  BY DEF WriteData
<1>2. /\ call' \in [Client -> Call] /\ CallOK(c)'
      /\ \A d \in Client \ {c} : call'[d] = call[d]
  BY ReturnOK DEF WriteData
<1>3. data' \in SUBSET Mount
  BY CallFacts DEF WriteData, CallOK, Call, MountOrNone, IInv, TypeOK
<1>4. TypeOK'
  BY <1>1, <1>2, <1>3 DEF IInv, TypeOK
<1>5. StoreInv' /\ MemoryInv'
  BY <1>1 DEF IInv, StoreInv, MemoryInv
<1> QED BY <1>1, <1>2, <1>4, <1>5, CallsKept, ConstantFacts DEF IInv, TypeOK

-----------------------------------------------------------------------------
(* The calls *)

\* A call that begins and changes nothing else but what was acknowledged.
LEMMA BeginIInv ==
  ASSUME IInv, NEW c \in Client, NEW new \in Call, Begin(c, new),
         UNCHANGED <<storageVars, up, tableVars, routerVars, issued, gone, remounted>>,
         acked' \subseteq acked, CallOK(c)'
  PROVE  IInv'
<1> USE DEF storageVars, tableVars, routerVars, historyVars
<1>1. /\ call' \in [Client -> Call] /\ alone' \in BOOLEAN
      /\ \A d \in Client \ {c} : call'[d] = call[d]
  BY DEF Begin, IInv, TypeOK
<1>2. TypeOK'
  BY <1>1 DEF IInv, TypeOK
<1>3. StoreInv' /\ MemoryInv'
  BY DEF IInv, StoreInv, MemoryInv
<1> QED BY <1>1, <1>2, <1>3, CallsKept, ConstantFacts DEF IInv, TypeOK

\* One more mount, numbered past all the others.
LEMMA OneMore ==
  ASSUME NEW f \in [Path -> MountOrNone], NEW n \in Nat, NEW e, NEW p \in Path,
         OneToOne(f), Known(f, n, e), NEW m \in Mount, n < m,
         NEW h, h[m] # None, \A k \in Mount : e[k] # None => h[k] # None
  PROVE  OneToOne([f EXCEPT ![p] = m]) /\ Known([f EXCEPT ![p] = m], m, h)
<1> DEFINE g == [f EXCEPT ![p] = m]
<1>1. \A q \in Path : f[q] # None => f[q] \in Mount /\ f[q] \in Nat /\ f[q] <= n /\ h[f[q]] # None
  BY ConstantFacts DEF Known, MountOrNone
<1>2. \A q \in Path : g[q] = IF q = p THEN m ELSE f[q]
  OBVIOUS
<1>3. m \in Nat
  BY ConstantFacts
<1> HIDE DEF g
<1>4. OneToOne(g)
  BY <1>1, <1>2, <1>3 DEF OneToOne
<1>5. Known(g, m, h)
  BY <1>1, <1>2, <1>3 DEF Known
<1> QED BY <1>4, <1>5 DEF g

LEMMA MountCallIInv ==
  ASSUME IInv, NEW c \in Client, NEW p \in Path, MountCall(c, p)
  PROVE  IInv'
<1> USE DEF storageVars, tableVars, routerVars, historyVars
<1> DEFINE m == issued + 1
           new == [NoCall EXCEPT !.op = "mount", !.step = "persist", !.path = p, !.mount = m]
<1>0. /\ ~Protected(p) /\ up /\ Begin(c, new) /\ m \in Mount /\ m > issued
      /\ issued \in Nat /\ issued' = m /\ issued >= Len(DefaultMounts)
      /\ UNCHANGED <<storageVars, up, entryTaint, acked, gone, remounted>>
  BY ConstantFacts DEF MountCall, Begin, Mount, IInv, TypeOK
<1>1. /\ new \in Call /\ new.op = "mount" /\ new.step = "persist"
      /\ new.path = p /\ new.mount = m /\ new.then = "idle"
  BY <1>0, NoCallTyped DEF NoCall, Call, Steps, MountOrNone
<1>2. /\ call' \in [Client -> Call] /\ call'[c] = new /\ alone' \in BOOLEAN
      /\ \A d \in Client \ {c} : call'[d] = call[d]
  <2> HIDE DEF new
  <2> QED BY <1>0, <1>1 DEF Begin, IInv, TypeOK
<1>3. CallOK(c)'
  <2> HIDE DEF new, m
  <2> QED BY <1>0, <1>1, <1>2, ConstantFacts DEF CallOK, UnmountSteps, RemountSteps
<1>4. /\ router' = [router EXCEPT ![p] = m] /\ table' = [table EXCEPT ![p] = m]
      /\ entryPath' = [entryPath EXCEPT ![m] = p] /\ routerTaint' = routerTaint \ {p}
  BY DEF MountCall
<1>5. /\ router' \in [Path -> MountOrNone] /\ table' \in [Path -> MountOrNone]
      /\ entryPath' \in [Mount -> Path \cup {None}] /\ routerTaint' \in SUBSET Path
      /\ \A k \in Mount : entryPath[k] # None => entryPath'[k] # None
      /\ entryPath'[m] # None
  BY <1>0, <1>4, ConstantFacts DEF IInv, TypeOK, MountOrNone
<1>6. TypeOK'
  <2>1. issued' \in 0 .. MaxMounts
    BY <1>0 DEF Mount
  <2> QED BY <1>0, <1>2, <1>5, <2>1 DEF IInv, TypeOK
<1>7. StoreInv'
  BY <1>0, LoadableKept DEF IInv, TypeOK, StoreInv
<1>8. MemoryInv'
  <2>1. /\ table \in [Path -> MountOrNone] /\ OneToOne(table) /\ Known(table, issued, entryPath)
        /\ router \in [Path -> MountOrNone] /\ OneToOne(router) /\ Known(router, issued, entryPath)
    BY DEF IInv, TypeOK, MemoryInv
  <2>2. m \in Mount /\ issued \in Nat /\ issued < m
    BY <1>0
  <2> HIDE DEF m
  <2>3. /\ OneToOne(table') /\ Known(table', m, entryPath')
        /\ OneToOne(router') /\ Known(router', m, entryPath')
    <3> DEFINE h == entryPath'
    <3>1. h[m] # None /\ \A k \in Mount : entryPath[k] # None => h[k] # None
      BY <1>5
    <3> HIDE DEF h
    <3>2. OneToOne([table EXCEPT ![p] = m]) /\ Known([table EXCEPT ![p] = m], m, h)
      BY <2>1, <2>2, <3>1, OneMore
    <3>3. OneToOne([router EXCEPT ![p] = m]) /\ Known([router EXCEPT ![p] = m], m, h)
      BY <2>1, <2>2, <3>1, OneMore
    <3> QED BY <1>4, <3>2, <3>3 DEF h
  <2>4. ASSUME NEW i \in Standing
        PROVE  /\ table'[DefaultMounts[i]] = i
               /\ router'[DefaultMounts[i]] = i
               /\ entryPath'[i] = DefaultMounts[i]
               /\ i \notin entryTaint'
               /\ DefaultMounts[i] \notin routerTaint'
    <3>1. DefaultMounts[i] \in Path /\ DefaultMounts[i] # p /\ i \in Mount /\ i # m
      BY <1>0, ConstantFacts
    <3> QED BY <1>0, <1>4, <3>1 DEF IInv, TypeOK, MemoryInv
  <2> QED BY <1>0, <2>3, <2>4 DEF MemoryInv
<1>9. CallInv'
  BY <1>0, <1>2, <1>3, <1>5, CallsKept
<1> QED BY <1>0, <1>6, <1>7, <1>8, <1>9, ConstantFacts DEF IInv

LEMMA UnmountBegins ==
  ASSUME IInv, NEW c \in Client, NEW p \in Path \ StandingPath,
         Begin(c, [NoCall EXCEPT !.op = "unmount", !.step = "view", !.path = p]),
         acked' = acked \ {router[p]},
         UNCHANGED <<storageVars, up, tableVars, routerVars, issued, gone, remounted>>
  PROVE  IInv'
<1> DEFINE new == [NoCall EXCEPT !.op = "unmount", !.step = "view", !.path = p]
<1>1. new \in Call /\ new.op = "unmount" /\ new.step = "view" /\ new.path = p /\ new.then = "idle"
  BY NoCallTyped DEF NoCall, Call, Steps
<1>2. Begin(c, new)
  OBVIOUS
<1> HIDE DEF new
<1>3. call'[c] = new /\ up'
  BY <1>2 DEF Begin, IInv, TypeOK
<1>4. CallOK(c)'
  BY <1>1, <1>3, ConstantFacts DEF CallOK, UnmountSteps, RemountSteps
<1> QED BY <1>1, <1>2, <1>4, BeginIInv

LEMMA RemountCallIInv ==
  ASSUME IInv, NEW c \in Client, NEW src \in Path, NEW dst \in Path, RemountCall(c, src, dst)
  PROVE  IInv'
<1> DEFINE m == MatchingMount(src)
           new == [NoCall EXCEPT !.op = "remount", !.step = "move", !.path = src, !.dst = dst,
                                 !.mount = m]
<1>1. /\ m \in Mount \ Standing /\ entryPath[m] # None
      /\ src \notin StandingPath /\ dst \notin StandingPath
  <2>1. src \notin StandingPath /\ dst \notin StandingPath /\ up
    BY ConstantFacts DEF RemountCall, Begin
  <2>2. /\ Matching(src) \in Path /\ router[Matching(src)] # None
        /\ m = router[Matching(src)] /\ Matching(src) \notin StandingPath
    BY MatchingFacts DEF RemountCall, IInv, TypeOK
  <2>3. m \in Mount /\ entryPath[m] # None
    BY <2>2 DEF IInv, TypeOK, MountOrNone, MemoryInv, Known
  <2>4. ASSUME m \in Standing PROVE FALSE
    <3>1. router[DefaultMounts[m]] = m /\ DefaultMounts[m] \in StandingPath
          /\ DefaultMounts[m] \in Path
      BY <2>1, <2>4, ConstantFacts DEF IInv, MemoryInv
    <3> QED BY <2>2, <3>1 DEF IInv, MemoryInv, OneToOne
  <2> QED BY <2>1, <2>3, <2>4
<1> HIDE DEF m
<1>2. /\ new \in Call /\ new.op = "remount" /\ new.step = "move" /\ new.path = src
      /\ new.dst = dst /\ new.mount = m /\ new.then = "idle"
  BY <1>1, NoCallTyped DEF NoCall, Call, Steps, MountOrNone
<1>3. /\ Begin(c, new)
      /\ UNCHANGED <<storageVars, up, tableVars, routerVars, issued, acked, gone, remounted>>
  BY DEF RemountCall, m
<1> HIDE DEF new
<1>4. call'[c] = new /\ up' /\ UNCHANGED entryPath
  BY <1>3 DEF Begin, IInv, TypeOK, tableVars
<1>5. CallOK(c)'
  BY <1>1, <1>2, <1>4, ConstantFacts DEF CallOK, UnmountSteps, RemountSteps
<1> QED BY <1>2, <1>3, <1>5, BeginIInv

LEMMA WriteCallIInv ==
  ASSUME IInv, NEW c \in Client, NEW p \in Path, WriteCall(c, p)
  PROVE  IInv'
<1> DEFINE m == MatchingMount(p)
           new == [NoCall EXCEPT !.op = "write", !.step = "write", !.mount = m]
<1>1. m \in Mount
  BY MatchingFacts DEF WriteCall, IInv, TypeOK, MountOrNone
<1> HIDE DEF m
<1>2. new \in Call /\ new.op = "write" /\ new.step = "write" /\ new.mount = m /\ new.then = "idle"
  BY <1>1, NoCallTyped DEF NoCall, Call, Steps, MountOrNone
<1>3. /\ Begin(c, new)
      /\ UNCHANGED <<storageVars, up, tableVars, routerVars, issued, acked, gone, remounted>>
  BY DEF WriteCall, m
<1> HIDE DEF new
<1>4. call'[c] = new /\ up'
  BY <1>3 DEF Begin, IInv, TypeOK
<1>5. CallOK(c)'
  BY <1>1, <1>2, <1>4, ConstantFacts DEF CallOK, UnmountSteps, RemountSteps
<1> QED BY <1>2, <1>3, <1>5, BeginIInv

-----------------------------------------------------------------------------
(* Seal, crash and unseal *)

LEMMA EmptyMemoryInv ==
  ASSUME EmptyMemory
  PROVE  /\ table' \in [Path -> MountOrNone] /\ entryPath' \in [Mount -> Path \cup {None}]
         /\ entryTaint' \in SUBSET Mount /\ router' \in [Path -> MountOrNone]
         /\ routerTaint' \in SUBSET Path /\ up' = FALSE
         /\ MemoryInv'
<1>1. \A p \in Path : table'[p] = None /\ router'[p] = None
  BY DEF EmptyMemory
<1>2. MemoryInv'
  BY <1>1 DEF EmptyMemory, MemoryInv, OneToOne, Known
<1> QED BY <1>2 DEF EmptyMemory, MountOrNone

\* A call that has not begun asks nothing of the memory.
LEMMA IdleOK ==
  ASSUME NEW c \in Client, CallOK(c), call[c].step = "idle", call'[c] = call[c]
  PROVE  CallOK(c)'
  BY DEF CallOK, UnmountSteps, RemountSteps

LEMMA SealIInv ==
  ASSUME IInv, Seal
  PROVE  IInv'
<1> USE DEF storageVars, historyVars
<1>1. UNCHANGED <<storageVars, call, historyVars>> /\ EmptyMemory
  BY DEF Seal
<1>2. TypeOK'
  BY <1>1, EmptyMemoryInv DEF IInv, TypeOK
<1>3. StoreInv'
  BY <1>1 DEF IInv, StoreInv
<1>4. CallInv'
  <2> SUFFICES ASSUME NEW c \in Client PROVE CallOK(c)'
    BY DEF CallInv
  <2>1. CallOK(c) /\ call[c].step = "idle" /\ call'[c] = call[c]
    BY <1>1 DEF Seal, AllIdle, IInv, CallInv
  <2> QED BY <2>1, IdleOK
<1> QED BY <1>1, <1>2, <1>3, <1>4, EmptyMemoryInv DEF IInv

LEMMA CrashIInv ==
  ASSUME IInv, Crash
  PROVE  IInv'
<1> USE DEF storageVars, historyVars
<1>1. UNCHANGED <<storageVars, historyVars>> /\ EmptyMemory /\ call' = [c \in Client |-> NoCall]
  BY DEF Crash
<1>2. TypeOK'
  BY <1>1, NoCallTyped, EmptyMemoryInv DEF IInv, TypeOK
<1>3. StoreInv'
  BY <1>1 DEF IInv, StoreInv
<1>4. CallInv'
  BY <1>1 DEF CallInv, CallOK, NoCall, UnmountSteps, RemountSteps
<1> QED BY <1>1, <1>2, <1>3, <1>4, EmptyMemoryInv DEF IInv

\* What either table may be loaded from, and what a failing unseal may leave
\* in storage.
LEMMA LoadOutcomesLoadable ==
  ASSUME IInv, NEW t \in {stored, DefaultTable} \ {NoTable}
  PROVE  t \in StoredTable /\ Loadable(t, issued)
<1>1. issued \in Nat /\ issued >= Len(DefaultMounts)
  BY ConstantFacts DEF IInv, TypeOK
<1>2. CASE t = stored
  BY <1>2 DEF IInv, TypeOK, StoreInv
<1>3. CASE t = DefaultTable
  BY <1>1, <1>3, DefaultTableLoadable
<1> QED BY <1>2, <1>3

\* An unseal that loads t, of either table.
LEMMA LoadIInv ==
  ASSUME IInv, ~up, NEW t \in {stored, DefaultTable} \ {NoTable}, stored' = t, MayFit(t),
         Load(t), router' = RoutesOf(t),
         routerTaint' \subseteq {t[p].path : p \in {q \in Keys(t) : t[q].tainted}},
         up' = TRUE, UNCHANGED <<data, call, historyVars>>
  PROVE  IInv'
<1> USE DEF historyVars
<1>1. t \in StoredTable /\ Loadable(t, issued)
  BY LoadOutcomesLoadable
<1>2. /\ table' \in [Path -> MountOrNone] /\ entryPath' \in [Mount -> Path \cup {None}]
      /\ entryTaint' \in SUBSET Mount /\ router' \in [Path -> MountOrNone]
      /\ routerTaint' \in SUBSET Path
      /\ MemoryInv'
  BY <1>1, LoadMemory
<1>3. TypeOK'
  BY <1>1, <1>2 DEF IInv, TypeOK
<1>4. StoreInv'
  BY <1>1 DEF StoreInv
<1>5. CallInv'
  <2> SUFFICES ASSUME NEW c \in Client PROVE CallOK(c)'
    BY DEF CallInv
  <2>1. CallOK(c) /\ call[c].step = "idle" /\ call'[c] = call[c]
    BY DEF IInv, CallInv, CallOK
  <2> QED BY <2>1, IdleOK
<1> QED BY <1>2, <1>3, <1>4, <1>5 DEF IInv

\* An unseal that fails and leaves t in storage, of either table.
LEMMA LoadFailsIInv ==
  ASSUME IInv, stored' = stored \/ stored' \in {DefaultTable} \ {NoTable},
         UNCHANGED <<data, up, tableVars, routerVars, call, historyVars>>
  PROVE  IInv'
<1> USE DEF historyVars, tableVars, routerVars
<1>1. stored' \in StoredTable \cup {NoTable} /\ StoreInv'
  BY LoadOutcomesLoadable DEF IInv, TypeOK, StoreInv
<1>2. TypeOK'
  BY <1>1 DEF IInv, TypeOK
<1>3. MemoryInv'
  BY DEF IInv, MemoryInv
<1>4. CallInv'
  BY DEF IInv, CallInv, CallOK
<1> QED BY <1>1, <1>2, <1>3, <1>4 DEF IInv

LEMMA UnsealIInv ==
  ASSUME IInv, Unseal \/ UnsealFails
  PROVE  IInv'
<1> DEFINE t == IF stored = NoTable THEN DefaultTable ELSE stored
<1>0. DefaultTable # NoTable
  BY DefaultTableLoadable, ConstantFacts DEF IInv, TypeOK
<1>1. CASE Unseal
  <2>1. /\ t \in {stored, DefaultTable} \ {NoTable} /\ stored' = t /\ MayFit(t)
        /\ Load(t) /\ router' = RoutesOf(t)
        /\ routerTaint' \subseteq {t[p].path : p \in {q \in Keys(t) : t[q].tainted}}
        /\ ~up /\ up' = TRUE /\ UNCHANGED <<data, call, historyVars>>
    BY <1>0, <1>1 DEF Unseal
  <2> HIDE DEF t
  <2> QED BY <2>1, LoadIInv
<1>2. CASE UnsealFails
  BY <1>0, <1>2, LoadFailsIInv DEF UnsealFails
<1> QED BY <1>1, <1>2

LEMMA AuthUnsealIInv ==
  ASSUME IInv, AuthUnseal \/ AuthUnsealFails
  PROVE  IInv'
<1>0. DefaultTable # NoTable
  BY DefaultTableLoadable, ConstantFacts DEF IInv, TypeOK
<1>1. LoadOutcomes \subseteq {stored, DefaultTable} \ {NoTable}
  BY <1>0 DEF LoadOutcomes
<1>2. CASE AuthUnseal
  <2>1. PICK t \in LoadOutcomes :
           stored' = t /\ SetupFits(t) /\ Load(t) /\ router' = RoutesOf(t)
    BY <1>2 DEF AuthUnseal
  <2>2. ~up /\ up' = TRUE /\ routerTaint' = {} /\ UNCHANGED <<data, call, historyVars>>
    BY <1>2 DEF AuthUnseal
  <2> QED BY <1>1, <2>1, <2>2, LoadIInv DEF SetupFits
<1>3. CASE AuthUnsealFails
  BY <1>1, <1>3, LoadFailsIInv DEF AuthUnsealFails
<1> QED BY <1>2, <1>3

-----------------------------------------------------------------------------
(* The theorems *)

LEMMA ClientStepIInv ==
  ASSUME IInv, NEW c \in Client, ClientStep(c)
  PROVE  IInv'
  BY PersistIInv, PutIInv, PutFailsIInv, UnmountViewIInv, UnmountTaintEntryIInv,
     UnmountTaintIInv, UnmountRouteIInv, UnmountClearIInv, UnmountRemoveIInv,
     RemountMoveIInv, RemountRouteIInv, RemountUntaintIInv, WriteDataIInv
  DEF ClientStep

LEMMA StutterIInv ==
  ASSUME IInv, UNCHANGED vars
  PROVE  IInv'
<1> USE DEF vars, storageVars, tableVars, routerVars, historyVars
<1>1. TypeOK'
  BY DEF IInv, TypeOK
<1>2. StoreInv' /\ MemoryInv'
  BY DEF IInv, StoreInv, MemoryInv
<1>3. CallInv'
  BY DEF IInv, CallInv, CallOK
<1> QED BY <1>1, <1>2, <1>3 DEF IInv

LEMMA NextIInv == IInv /\ [Next]_vars => IInv'
<1> SUFFICES ASSUME IInv, [Next]_vars PROVE IInv'
  OBVIOUS
<1>1. ASSUME NEW c \in Client, ClientCall(c) PROVE IInv'
  <2>1. ASSUME NEW p \in Path, UnmountCall(c, p) PROVE IInv'
    <3>1. p \in Path \ StandingPath
      BY <2>1, ConstantFacts DEF UnmountCall
    <3> QED BY <2>1, <3>1, UnmountBegins DEF UnmountCall
  <2> QED BY <1>1, <2>1, MountCallIInv, RemountCallIInv, WriteCallIInv DEF ClientCall
<1>2. CASE UNCHANGED vars
  BY <1>2, StutterIInv
<1> QED BY <1>1, <1>2, ClientStepIInv, SealIInv, CrashIInv, UnsealIInv DEF Next

LEMMA AuthNextIInv == IInv /\ [AuthNext]_authVars => IInv'
<1> SUFFICES ASSUME IInv, [AuthNext]_authVars PROVE IInv'
  OBVIOUS
<1>1. ASSUME NEW c \in Client, AuthCall(c) PROVE IInv'
  <2>1. ASSUME NEW p \in Path, Disable(c, p) PROVE IInv'
    <3>1. p \in Path \ StandingPath
      BY <2>1, TokenAssumption DEF Disable, StandingPath, Standing
    <3> QED BY <2>1, <3>1, UnmountBegins DEF Disable
  <2>2. ASSUME NEW p \in Path, Enable(c, p) PROVE IInv'
    BY <2>2, MountCallIInv DEF Enable
  <2> QED BY <1>1, <2>1, <2>2, RemountCallIInv, WriteCallIInv DEF AuthCall
<1>2. CASE UNCHANGED vars
  BY <1>2, StutterIInv
<1> QED BY <1>1, <1>2, ClientStepIInv, SealIInv, CrashIInv, AuthUnsealIInv
        DEF AuthNext, AuthSeal, CoreCall, authVars

LEMMA IInvRoutes == IInv => RoutesSound
<1> SUFFICES ASSUME IInv PROVE RoutesSound
  OBVIOUS
<1>1. ProtectedRouted
  BY DEF IInv, MemoryInv, ProtectedRouted, Standing
<1>2. NoSharedView
  BY DEF IInv, MemoryInv, OneToOne, StoreInv, Loadable, OneKey, NoSharedView, Keys
<1> QED BY <1>1, <1>2 DEF RoutesSound

\* Every variable of the mount table and of the router keeps its type: no
\* client, however its calls overlap with others, storage errors and crashes,
\* writes to storage or puts in a route anything but a mount at a path.
THEOREM MountsTyped == Spec => []TypeOK
<1>1. IInv => TypeOK
  BY DEF IInv
<1> QED BY <1>1, InitIInv, NextIInv, PTL DEF Spec

\* Core::mount, unmount and remount, called by any number of clients at once
\* on any paths, with storage errors and crashes anywhere, never take a
\* protected default mount (sys/) off its route or taint it, and never let two
\* paths, in the trie or in the stored table, lead to the data of one mount.
THEOREM MountsRoutesSound == Spec => []RoutesSound
  BY InitIInv, NextIInv, IInvRoutes, PTL DEF Spec

-----------------------------------------------------------------------------
(* The core mounts beside the auth methods *)

\* Whatever is tainted in a table, stored or about to be, had its path from a
\* method.
TakenInv ==
    /\ \A m \in Mount : entryPath[m] \in taken \cup {None}
    /\ stored # NoTable => TaintedPaths(stored) \subseteq taken
    /\ \A c \in Client : call[c].snap # NoTable => TaintedPaths(call[c].snap) \subseteq taken
    /\ CoreSpared

\* Where the tables come from: storage gets the default table or the one a
\* call serialised, a call the one in memory.
LEMMA ClientTables ==
  ASSUME TypeOK, NEW c \in Client, AuthCall(c) \/ ClientStep(c)
  PROVE  /\ stored' = stored \/ (call[c].step = "put" /\ stored' = call[c].snap)
         /\ \A d \in Client : call'[d].snap \in {call[d].snap, NoTable, Serialized}
<1> USE DEF TypeOK, Call, Goto, Return, NoCall, Begin, storageVars
<1>0. ASSUME NEW new, new.snap = NoTable, Begin(c, new)
      PROVE  \A d \in Client : call'[d].snap \in {call[d].snap, NoTable, Serialized}
  <2> HIDE DEF NoCall
  <2> QED BY <1>0
<1>1. CASE AuthCall(c)
  <2>1. ASSUME NEW p \in Path, Enable(c, p) \/ Disable(c, p) \/ WriteCall(c, p)
        PROVE  stored' = stored /\ \E new : new.snap = NoTable /\ Begin(c, new)
    <3> HIDE DEF Begin
    <3>1. CASE Enable(c, p)
      BY <3>1 DEF Enable, MountCall
    <3>2. CASE Disable(c, p)
      BY <3>2 DEF Disable
    <3>3. CASE WriteCall(c, p)
      BY <3>3 DEF WriteCall
    <3> QED BY <2>1, <3>1, <3>2, <3>3
  <2>2. ASSUME NEW src \in Path, NEW dst \in Path, RemountCall(c, src, dst)
        PROVE  stored' = stored /\ \E new : new.snap = NoTable /\ Begin(c, new)
    <3> HIDE DEF Begin
    <3> QED BY <2>2 DEF RemountCall
  <2> QED BY <1>0, <1>1, <2>1, <2>2 DEF AuthCall
<1>2. CASE Persist(c)
  BY <1>2 DEF Persist
<1>3. CASE Put(c) \/ PutFails(c)
  BY <1>3 DEF Put, PutFails
<1>4. CASE UnmountView(c) \/ UnmountTaintEntry(c)
  BY <1>4 DEF UnmountView, UnmountTaintEntry
<1>5. CASE UnmountTaint(c) \/ UnmountRoute(c)
  BY <1>5 DEF UnmountTaint, UnmountRoute
<1>6. CASE UnmountClear(c) \/ UnmountRemove(c)
  BY <1>6 DEF UnmountClear, UnmountRemove
<1>7. CASE RemountMove(c)
  BY <1>7 DEF RemountMove
<1>8. CASE RemountRoute(c) \/ RemountUntaint(c) \/ WriteData(c)
  BY <1>8 DEF RemountRoute, RemountUntaint, WriteData
<1> QED BY <1>1, <1>2, <1>3, <1>4, <1>5, <1>6, <1>7, <1>8 DEF ClientStep

LEMMA SerializedTaken ==
  ASSUME IInv, TakenInv
  PROVE  TaintedPaths(Serialized) \subseteq taken
<1> SUFFICES ASSUME NEW p \in Keys(Serialized), Serialized[p].tainted
             PROVE  Serialized[p].path \in taken
  BY DEF TaintedPaths
<1>1. p \in Path /\ table[p] # None /\ Serialized[p].path = entryPath[table[p]]
  BY DEF Keys, Serialized
<1>2. table[p] \in Mount /\ entryPath[table[p]] # None
  BY <1>1 DEF IInv, TypeOK, MountOrNone, MemoryInv, Known
<1> QED BY <1>1, <1>2 DEF TakenInv

LEMMA DefaultUntainted == TaintedPaths(DefaultTable) = {}
  BY DEF TaintedPaths, Keys, DefaultTable

LEMMA TakenNext ==
  ASSUME IInv, IInv', TakenInv, [AuthNext]_authVars
  PROVE  TakenInv'
<1>0. CASE UNCHANGED authVars
  <2>1. UNCHANGED <<stored, call, entryPath, taken, coreTaint>>
    BY <1>0 DEF authVars, vars, storageVars, tableVars
  <2> QED BY <2>1 DEF TakenInv, CoreSpared, TaintedPaths, Keys
<1>1. CASE AuthNext
  <2>1. taken \subseteq taken' /\ \A m \in Mount : entryPath'[m] \in taken' \cup {None}
    BY <1>1 DEF AuthNext
  <2>2. SUFFICES /\ stored' # NoTable => TaintedPaths(stored)' \subseteq taken
                 /\ \A c \in Client : call'[c].snap # NoTable =>
                                      TaintedPaths(call'[c].snap) \subseteq taken
                 /\ coreTaint' \subseteq taken
    <3>1. \A c \in Client : TaintedPaths(call'[c].snap) = TaintedPaths(call[c].snap)'
      BY DEF TaintedPaths, Keys
    <3> QED BY <2>1, <2>2, <3>1 DEF TakenInv, CoreSpared
  <2>3. TaintedPaths(stored)' = TaintedPaths(stored')
    BY DEF TaintedPaths, Keys
  <2>4. stored # NoTable => TaintedPaths(stored) \subseteq taken
    BY DEF TakenInv
  <2>5. coreTaint \subseteq taken
    BY DEF TakenInv, CoreSpared
  <2>6. ASSUME NEW c \in Client, AuthCall(c) \/ ClientStep(c), UNCHANGED coreTaint
        PROVE  /\ stored' # NoTable => TaintedPaths(stored') \subseteq taken
               /\ \A d \in Client : call'[d].snap # NoTable =>
                                    TaintedPaths(call'[d].snap) \subseteq taken
               /\ coreTaint' \subseteq taken
    <3>1. /\ stored' = stored \/ (call[c].step = "put" /\ stored' = call[c].snap)
          /\ \A d \in Client : call'[d].snap \in {call[d].snap, NoTable, Serialized}
      BY <2>6, ClientTables DEF IInv
    <3>2. \A d \in Client : call[d].snap # NoTable => TaintedPaths(call[d].snap) \subseteq taken
      BY DEF TakenInv
    <3> QED BY <2>4, <2>5, <2>6, <3>1, <3>2, SerializedTaken
  <2>7. ASSUME AuthSeal \/ (\E p \in CorePath : CoreCall(p))
        PROVE  /\ stored' # NoTable => TaintedPaths(stored') \subseteq taken
               /\ \A d \in Client : call'[d].snap # NoTable =>
                                    TaintedPaths(call'[d].snap) \subseteq taken
               /\ coreTaint' \subseteq taken
    <3>1. stored' = stored /\ coreTaint' \subseteq coreTaint
      BY <2>7 DEF AuthSeal, Seal, Crash, CoreCall, vars, storageVars
    <3>2. call' = call \/ call' = [c \in Client |-> NoCall]
      BY <2>7 DEF AuthSeal, Seal, Crash, CoreCall, vars
    <3>3. \A d \in Client : call'[d].snap = call[d].snap \/ call'[d].snap = NoTable
      BY <3>2 DEF NoCall
    <3> QED BY <2>4, <2>5, <3>1, <3>3 DEF TakenInv
  <2>8. ASSUME AuthUnseal \/ AuthUnsealFails
        PROVE  /\ stored' # NoTable => TaintedPaths(stored') \subseteq taken
               /\ \A d \in Client : call'[d].snap # NoTable =>
                                    TaintedPaths(call'[d].snap) \subseteq taken
               /\ coreTaint' \subseteq taken
    <3>1. PICK t \in LoadOutcomes : stored' = t /\ coreTaint' \in {coreTaint, TaintedPaths(t)}
      BY <2>8 DEF AuthUnseal, AuthUnsealFails
    <3>2. TaintedPaths(t) \subseteq taken
      BY <2>4, <3>1, DefaultUntainted DEF LoadOutcomes
    <3>3. call' = call
      BY <2>8 DEF AuthUnseal, AuthUnsealFails
    <3> QED BY <2>5, <3>1, <3>2, <3>3 DEF TakenInv
  <2> QED BY <1>1, <2>3, <2>6, <2>7, <2>8 DEF AuthNext
<1> QED BY <1>0, <1>1

\* The same for the auth methods, whose checks before a call and whose load at
\* unseal differ: token/ stays routed and untainted, each method has one path,
\* and an unseal taints a core mount only at a path some method had, although
\* setup_auth looks tainted methods up among the core mounts.
THEOREM AuthRoutesSound == AuthSpec => [](TypeOK /\ MethodRoutesSound)
<1>1. AuthInit => IInv /\ TakenInv
  <2> SUFFICES ASSUME AuthInit PROVE IInv /\ TakenInv
    OBVIOUS
  <2>1. IInv
    BY InitIInv DEF AuthInit
  <2> QED BY <2>1 DEF AuthInit, Init, TakenInv, CoreSpared, NoCall
<1>2. IInv /\ TakenInv /\ [AuthNext]_authVars => IInv' /\ TakenInv'
  BY AuthNextIInv, TakenNext
<1>3. IInv /\ TakenInv => TypeOK /\ MethodRoutesSound
  BY IInvRoutes DEF IInv, TakenInv, MethodRoutesSound
<1> QED BY <1>1, <1>2, <1>3, PTL DEF AuthSpec
=============================================================================
