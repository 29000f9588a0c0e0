-------------------------- MODULE TokensTreeProofs --------------------------
(***************************************************************************)
(* Proofs about Tokens: the trees of tokens, the time at which the checker *)
(* ends a token, and what is left of a tree that was revoked.              *)
(***************************************************************************)
EXTENDS TokensProofs

-----------------------------------------------------------------------------
(* Every child can be found from its parent *)

\* The tasks that write a token or take a link away.
Kinds == {"put", "use", "unparent"}

Linked(n, p, links) == p = None \/ <<p, n>> \in links

\* create writes the child last, after the link: a child to be written is
\* linked, or its link is the next write of the same thread.
PutPlaced(a, links) ==
    \A i \in DOMAIN a : a[i].do = "put" =>
        LET n == a[i].id
            p == a[i].entry.parent
        IN  \/ i = 1 /\ Linked(n, p, links)
            \/ i = 2 /\ a[1].do = "index" /\ a[1].id = n /\ a[1].parent = p
            \/ i = 3 /\ a[1].do = "parent" /\ a[2].do = "index" /\ a[2].id = n /\ a[2].parent = p

\* The other two are done at once.
OnceFirst(a) == \A i \in DOMAIN a : a[i].do \in {"use", "unparent"} => i = 1

Pending(ag, do, n) ==
    \E x \in Thread : \E i \in DOMAIN ag[x] : ag[x][i].do = do /\ ag[x][i].id = n
Elsewhere(ag, x, K, n) ==
    \E y \in Thread \ {x} : \E i \in DOMAIN ag[y] : ag[y][i].do \in K /\ ag[y][i].id = n

Shapes == \A x \in Thread : PutPlaced(agenda[x], parents) /\ OnceFirst(agenda[x])

NewClean == \A n \in Token : n > issued =>
    tokens[n] = None /\ \A do \in Kinds : ~Pending(agenda, do, n)

NotThere == \A n \in Token :
    Pending(agenda, "put", n) \/ Pending(agenda, "unparent", n) => tokens[n] = None

PutAlone == \A n \in Token :
    Pending(agenda, "put", n) => ~Pending(agenda, "use", n) /\ ~Pending(agenda, "unparent", n)

PutOnce == \A x, y \in Thread : \A i \in DOMAIN agenda[x], j \in DOMAIN agenda[y] :
    agenda[x][i].do = "put" /\ agenda[y][j].do = "put" /\ agenda[x][i].id = agenda[y][j].id
        => x = y

UseFits == \A x \in Thread : \A i \in DOMAIN agenda[x] :
    agenda[x][i].do = "use" /\ tokens[agenda[x][i].id] # None =>
        tokens[agenda[x][i].id].parent = agenda[x][i].entry.parent

TreeInv ==
    TypeInv /\ Shapes /\ NewClean /\ NotThere /\ PutAlone /\ PutOnce /\ UseFits /\ ParentLinked

\* What a step of x may do to the token n, when afterwards k is the only task
\* of these kinds on its agenda.
TokenMove(n, x, k) ==
    \/ tokens'[n] = tokens[n]
    \/ tokens'[n] = None
    \/ tokens[n] # None /\ tokens'[n].parent = tokens[n].parent
    \/ /\ n <= issued' /\ Linked(n, tokens'[n].parent, parents')
       /\ ~Elsewhere(agenda, x, Kinds, n) /\ (k.do \in Kinds => k.id # n)

\* A step of x that keeps the invariant.
LEMMA TreeMove ==
    ASSUME TreeInv, TypeInv', NEW x \in Thread, \A y \in Thread \ {x} : agenda'[y] = agenda[y],
           NEW k, \A i \in DOMAIN agenda'[x] : agenda'[x][i].do \in Kinds => agenda'[x][i] = k,
           PutPlaced(agenda'[x], parents'), OnceFirst(agenda'[x]),
           k.do \in Kinds => k.id <= issued',
           k.do \in {"put", "unparent"} => tokens'[k.id] = None,
           k.do = "put" => ~Elsewhere(agenda, x, Kinds, k.id),
           k.do \in Kinds => ~Elsewhere(agenda, x, {"put"}, k.id),
           k.do = "use" /\ tokens'[k.id] # None => tokens'[k.id].parent = k.entry.parent,
           issued <= issued', \A n \in Token : TokenMove(n, x, k),
           \A n \in Token, p \in Token : <<p, n>> \in parents /\ <<p, n>> \notin parents' =>
               tokens[n] = None /\ ~Elsewhere(agenda, x, {"put"}, n)
    PROVE  TreeInv'
<1>0. /\ issued \in Nat /\ issued' \in Nat /\ Token \subseteq Nat
      /\ agenda \in [Thread -> Seq(Tasks)] /\ tokens \in [Token -> TokenEntry \cup {None}]
      /\ tokens' \in [Token -> TokenEntry \cup {None}]
  <2>1. issued \in 1 .. MaxTokens /\ issued' \in 1 .. MaxTokens
    BY DEF TreeInv, TypeInv, TypeOK
  <2> QED BY <2>1, Numbers, BoundsAssumption DEF TreeInv, TypeInv, TypeOK
<1>1. ASSUME NEW do \in Kinds, NEW n, Pending(agenda', do, n)
      PROVE  Elsewhere(agenda, x, {do}, n) \/ (do = k.do /\ n = k.id)
  <2>1. PICK y \in Thread : \E i \in DOMAIN agenda'[y] : agenda'[y][i].do = do /\ agenda'[y][i].id = n
    BY <1>1 DEF Pending
  <2>2. CASE y = x
    BY <2>1, <2>2
  <2>3. CASE y # x
    BY <2>1, <2>3 DEF Elsewhere
  <2> QED BY <2>2, <2>3
<1>2. ASSUME NEW do \in Kinds, NEW n, Elsewhere(agenda, x, {do}, n)
      PROVE  Pending(agenda, do, n) /\ Elsewhere(agenda, x, Kinds, n)
  BY <1>2 DEF Pending, Elsewhere
<1>3. ASSUME NEW n \in Token, NEW do \in Kinds, Elsewhere(agenda, x, {do}, n)
      PROVE  n <= issued
  <2>1. ~(n > issued)
    BY <1>2, <1>3 DEF TreeInv, NewClean
  <2> QED BY <1>0, <2>1
<1>4. Shapes'
  <2> SUFFICES ASSUME NEW y \in Thread, y # x PROVE PutPlaced(agenda[y], parents')
    BY DEF Shapes, TreeInv
  <2>1. PutPlaced(agenda[y], parents)
    BY DEF TreeInv, Shapes
  <2> SUFFICES ASSUME NEW i \in DOMAIN agenda[y], agenda[y][i].do = "put",
                      agenda[y][i].entry.parent # None,
                      <<agenda[y][i].entry.parent, agenda[y][i].id>> \in parents
               PROVE  <<agenda[y][i].entry.parent, agenda[y][i].id>> \in parents'
    BY <2>1 DEF PutPlaced, Linked
  <2>2. agenda[y][i] \in Tasks
    BY <1>0
  <2>3. agenda[y][i].id \in Token /\ agenda[y][i].entry.parent \in Token
    BY <2>2, TaskFields DEF TokenEntry
  <2>4. Elsewhere(agenda, x, {"put"}, agenda[y][i].id)
    BY DEF Elsewhere
  <2> QED BY <2>3, <2>4
<1>5. NewClean'
  <2> SUFFICES ASSUME NEW n \in Token, n > issued'
               PROVE  tokens'[n] = None /\ \A do \in Kinds : ~Pending(agenda', do, n)
    BY DEF NewClean
  <2>1. n > issued /\ ~(n <= issued') /\ ~(n <= issued)
    BY <1>0
  <2>2. tokens[n] = None
    BY <2>1 DEF TreeInv, NewClean
  <2>3. tokens'[n] = None
    BY <2>1, <2>2 DEF TokenMove
  <2>4. ASSUME NEW do \in Kinds PROVE ~Pending(agenda', do, n)
    BY <1>1, <1>3, <2>1
  <2> QED BY <2>3, <2>4
<1>6. NotThere'
  <2> SUFFICES ASSUME NEW n \in Token, NEW do \in {"put", "unparent"}, Pending(agenda', do, n)
               PROVE  tokens'[n] = None
    BY DEF NotThere
  <2>1. do \in Kinds
    BY DEF Kinds
  <2>2. CASE Elsewhere(agenda, x, {do}, n)
    <3>1. Pending(agenda, do, n) /\ Elsewhere(agenda, x, Kinds, n)
      BY <1>2, <2>1, <2>2
    <3>2. tokens[n] = None
      BY <3>1 DEF TreeInv, NotThere
    <3> QED BY <3>1, <3>2 DEF TokenMove
  <2>3. CASE do = k.do /\ n = k.id
    BY <2>3
  <2> QED BY <1>1, <2>1, <2>2, <2>3
<1>7. PutAlone'
  <2> SUFFICES ASSUME NEW n \in Token, Pending(agenda', "put", n),
                      NEW do \in {"use", "unparent"}, Pending(agenda', do, n)
               PROVE  FALSE
    BY DEF PutAlone
  <2>1. do \in Kinds /\ "put" \in Kinds /\ do # "put"
    BY DEF Kinds
  <2>2. Elsewhere(agenda, x, {"put"}, n) \/ (k.do = "put" /\ n = k.id)
    BY <1>1, <2>1
  <2>3. Elsewhere(agenda, x, {do}, n) \/ (k.do = do /\ n = k.id)
    BY <1>1, <2>1
  <2>4. CASE Elsewhere(agenda, x, {"put"}, n) /\ Elsewhere(agenda, x, {do}, n)
    BY <1>2, <2>1, <2>4 DEF TreeInv, PutAlone
  <2>5. CASE k.do = "put" /\ n = k.id
    BY <1>2, <2>1, <2>3, <2>5
  <2>6. CASE k.do = do /\ n = k.id
    BY <2>1, <2>2, <2>6
  <2> QED BY <2>2, <2>3, <2>4, <2>5, <2>6
<1>8. PutOnce'
  <2> SUFFICES ASSUME NEW y \in Thread, NEW z \in Thread, NEW i \in DOMAIN agenda'[y],
                      NEW j \in DOMAIN agenda'[z], agenda'[y][i].do = "put",
                      agenda'[z][j].do = "put", agenda'[y][i].id = agenda'[z][j].id, y # z
               PROVE  FALSE
    BY DEF PutOnce
  <2>0. "put" \in Kinds
    BY DEF Kinds
  <2>1. CASE y = x
    <3>1. agenda'[y][i] = k
      BY <2>0, <2>1
    <3>2. agenda'[z] = agenda[z]
      BY <2>1
    <3>3. Elsewhere(agenda, x, {"put"}, k.id)
      BY <2>1, <3>1, <3>2 DEF Elsewhere
    <3> QED BY <2>0, <3>1, <3>3
  <2>2. CASE z = x
    <3>1. agenda'[z][j] = k
      BY <2>0, <2>2
    <3>2. agenda'[y] = agenda[y]
      BY <2>2
    <3>3. Elsewhere(agenda, x, {"put"}, k.id)
      BY <2>2, <3>1, <3>2 DEF Elsewhere
    <3> QED BY <2>0, <3>1, <3>3
  <2>3. CASE y # x /\ z # x
    BY <2>3 DEF TreeInv, PutOnce
  <2> QED BY <2>1, <2>2, <2>3
<1>9. UseFits'
  <2> SUFFICES ASSUME NEW y \in Thread, NEW i \in DOMAIN agenda'[y], agenda'[y][i].do = "use",
                      tokens'[agenda'[y][i].id] # None
               PROVE  tokens'[agenda'[y][i].id].parent = agenda'[y][i].entry.parent
    BY DEF UseFits
  <2>0. "use" \in Kinds
    BY DEF Kinds
  <2>1. CASE y = x
    BY <2>0, <2>1
  <2>2. CASE y # x
    <3> DEFINE t == agenda[y][i]
               n == t.id
    <3>1. agenda'[y][i] = t /\ i \in DOMAIN agenda[y]
      BY <2>2
    <3>2. t \in Tasks /\ t.do = "use"
      BY <1>0, <3>1
    <3>3. n \in Token
      BY <3>2, TaskFields
    <3>4. Elsewhere(agenda, x, Kinds, n)
      BY <2>0, <2>2, <3>1, <3>2 DEF Elsewhere
    <3>5. tokens[n] # None => tokens[n].parent = t.entry.parent
      BY <3>1, <3>2 DEF TreeInv, UseFits
    <3>6. tokens'[n] # None
      BY <3>1
    <3> HIDE DEF t
    <3> QED BY <3>1, <3>3, <3>4, <3>5, <3>6 DEF TokenMove
  <2> QED BY <2>1, <2>2
<1>10. ParentLinked'
  <2> SUFFICES ASSUME NEW n \in Token, tokens'[n] # None, tokens'[n].parent # None
               PROVE  <<tokens'[n].parent, n>> \in parents'
    BY DEF ParentLinked
  <2>1. CASE tokens[n] # None /\ tokens'[n].parent = tokens[n].parent
    <3>1. <<tokens[n].parent, n>> \in parents
      BY <2>1 DEF TreeInv, ParentLinked
    <3>2. tokens[n].parent \in Token
      BY <1>0, <2>1 DEF TokenEntry
    <3> QED BY <2>1, <3>1, <3>2
  <2>2. CASE Linked(n, tokens'[n].parent, parents')
    BY <2>2 DEF Linked
  <2> QED BY <2>1, <2>2 DEF TokenMove
<1> QED BY <1>4, <1>5, <1>6, <1>7, <1>8, <1>9, <1>10 DEF TreeInv


\* An agenda without such tasks.
Bare(a) == \A i \in DOMAIN a : a[i].do \notin Kinds
RestBare(a) == \A i \in DOMAIN a : i > 1 => a[i].do \notin Kinds

LEMMA BareShape ==
    ASSUME NEW a, NEW links, Bare(a) PROVE PutPlaced(a, links) /\ OnceFirst(a)
BY DEF Bare, PutPlaced, OnceFirst, Kinds

LEMMA RestIsBare ==
    ASSUME NEW a \in Seq(Tasks), a # <<>>, NEW links, PutPlaced(a, links), OnceFirst(a),
           a[1].do \notin {"index", "parent"}
    PROVE  RestBare(a)
BY DEF RestBare, PutPlaced, OnceFirst, Kinds

LEMMA ShiftBare ==
    ASSUME NEW a \in Seq(Tasks), a # <<>>, NEW s \in Seq(Tasks), NEW b, b = s \o Tail(a),
           RestBare(a), Bare(s)
    PROVE  Bare(b)
<1> SUFFICES ASSUME NEW i \in DOMAIN b PROVE b[i].do \notin Kinds
  BY DEF Bare
<1>1. \/ i \in DOMAIN s /\ b[i] = s[i]
      \/ \E j \in DOMAIN a : j > 1 /\ b[i] = a[j]
  BY ShiftBack
<1> QED BY <1>1 DEF RestBare, Bare

\* A step of x that leaves no such task on its agenda.
LEMMA BareMove ==
    ASSUME TreeInv, TypeInv', NEW x \in Thread, \A y \in Thread \ {x} : agenda'[y] = agenda[y],
           Bare(agenda'[x]), issued <= issued',
           \A n \in Token : \/ tokens'[n] = tokens[n]
                            \/ tokens'[n] = None
                            \/ tokens[n] # None /\ tokens'[n].parent = tokens[n].parent
                            \/ /\ n <= issued' /\ Linked(n, tokens'[n].parent, parents')
                               /\ ~Elsewhere(agenda, x, Kinds, n),
           \A n \in Token, p \in Token : <<p, n>> \in parents /\ <<p, n>> \notin parents' =>
               tokens[n] = None /\ ~Elsewhere(agenda, x, {"put"}, n)
    PROVE  TreeInv'
<1> DEFINE k == T("check", Root)
<1>1. k.do = "check" /\ k.do \notin Kinds /\ k.do \notin {"put", "unparent"} /\ k.do # "use"
  BY DEF T, Kinds
<1> HIDE DEF k
<1>2. \A n \in Token : TokenMove(n, x, k)
  BY <1>1 DEF TokenMove
<1>3. \A i \in DOMAIN agenda'[x] : agenda'[x][i].do \in Kinds => agenda'[x][i] = k
  BY DEF Bare
<1>4. PutPlaced(agenda'[x], parents') /\ OnceFirst(agenda'[x])
  BY BareShape
<1>5. /\ k.do \in Kinds => k.id <= issued'
      /\ k.do \in {"put", "unparent"} => tokens'[k.id] = None
      /\ k.do = "put" => ~Elsewhere(agenda, x, Kinds, k.id)
      /\ k.do \in Kinds => ~Elsewhere(agenda, x, {"put"}, k.id)
      /\ k.do = "use" /\ tokens'[k.id] # None => tokens'[k.id].parent = k.entry.parent
  BY <1>1
<1> QED BY <1>2, <1>3, <1>4, <1>5, TreeMove

LEMMA IssuedFact ==
    ASSUME TypeInv, TypeInv' PROVE issued \in Nat /\ issued' \in Nat /\ issued <= issued
<1>1. issued \in 1 .. MaxTokens /\ issued' \in 1 .. MaxTokens
  BY DEF TypeInv, TypeOK
<1> QED BY <1>1, BoundsAssumption

\* A step that has to do with no token and no link.
LEMMA BareSame ==
    ASSUME TreeInv, TypeInv', NEW x \in Thread, \A y \in Thread \ {x} : agenda'[y] = agenda[y],
           Bare(agenda'[x]), tokens' = tokens, parents' = parents, issued' = issued
    PROVE  TreeInv'
<1>1. issued <= issued'
  BY IssuedFact DEF TreeInv
<1>2. \A n \in Token, p \in Token : <<p, n>> \in parents /\ <<p, n>> \notin parents' =>
               tokens[n] = None /\ ~Elsewhere(agenda, x, {"put"}, n)
  OBVIOUS
<1>3. \A n \in Token : tokens'[n] = tokens[n]
  OBVIOUS
<1> QED BY <1>1, <1>2, <1>3, BareMove

\* What is on the agenda of a thread behind its first task.
LEMMA ThenRest ==
    ASSUME TreeInv, NEW x \in Thread, agenda[x] # <<>>, NEW s \in Seq(Tasks), Then(x, s),
           Task(x).do \notin {"index", "parent"}
    PROVE  /\ agenda[x] \in Seq(Tasks) /\ RestBare(agenda[x]) /\ agenda[x][1] = Task(x)
           /\ 1 \in DOMAIN agenda[x] /\ agenda'[x] = s \o Tail(agenda[x])
           /\ \A y \in Thread \ {x} : agenda'[y] = agenda[y]
           /\ Bare(s) => Bare(agenda'[x])
<1>1. /\ agenda[x] \in Seq(Tasks) /\ agenda[x][1] = Task(x) /\ agenda'[x] = s \o Tail(agenda[x])
      /\ \A y \in Thread \ {x} : agenda'[y] = agenda[y] /\ 1 \in DOMAIN agenda[x]
  BY ThenAgenda, HeadTask DEF TreeInv, TypeInv, TypeOK
<1>2. PutPlaced(agenda[x], parents) /\ OnceFirst(agenda[x])
  BY DEF TreeInv, Shapes
<1>3. 1 \in DOMAIN agenda[x]
  BY HeadTask DEF TreeInv, TypeInv, TypeOK
<1> DEFINE a == agenda[x]
           b == agenda'[x]
<1>4. RestBare(a)
  <2>1. a \in Seq(Tasks) /\ a # <<>> /\ a[1].do \notin {"index", "parent"}
    BY <1>1
  <2> HIDE DEF a
  <2> QED BY <1>2, <2>1, RestIsBare DEF a
<1>5. Bare(s) => Bare(b)
  <2>1. a \in Seq(Tasks) /\ a # <<>> /\ b = s \o Tail(a)
    BY <1>1
  <2> HIDE DEF a, b
  <2> QED BY <1>4, <2>1, ShiftBare
<1> QED BY <1>1, <1>3, <1>4, <1>5

LEMMA DropBare ==
    ASSUME TreeInv, NEW x \in Thread, Drop(x)
    PROVE  Bare(agenda'[x]) /\ \A y \in Thread \ {x} : agenda'[y] = agenda[y]
<1>1. agenda'[x] = <<>> /\ \A y \in Thread \ {x} : agenda'[y] = agenda[y]
  BY DropAgenda DEF TreeInv, TypeInv, TypeOK
<1> QED BY <1>1 DEF Bare

\* Steps that go on with other tasks, or end.
LEMMA BareThen ==
    ASSUME TreeInv, TypeInv', NEW x \in Thread, agenda[x] # <<>>, NEW s \in Seq(Tasks), Bare(s),
           Then(x, s), Task(x).do \notin {"index", "parent"},
           tokens' = tokens, parents' = parents, issued' = issued
    PROVE  TreeInv'
BY ThenRest, BareSame

LEMMA BareDrop ==
    ASSUME TreeInv, TypeInv', NEW x \in Thread, Drop(x),
           tokens' = tokens, parents' = parents, issued' = issued
    PROVE  TreeInv'
BY DropBare, BareSame

LEMMA FewBare ==
    /\ Bare(<<>>)
    /\ \A k \in Tasks : k.do \notin Kinds => Bare(<<k>>)
    /\ \A k, m \in Tasks : k.do \notin Kinds /\ m.do \notin Kinds => Bare(<<k, m>>)
BY DEF Bare


LEMMA OnlyNewThen ==
    ASSUME TreeInv, NEW x \in Thread, agenda[x] # <<>>, NEW s \in Seq(Tasks), Then(x, s),
           Task(x).do \notin {"index", "parent"}
    PROVE  /\ \A i \in DOMAIN agenda'[x] : agenda'[x][i].do \in Kinds =>
                 i \in DOMAIN s /\ agenda'[x][i] = s[i]
           /\ \A i \in DOMAIN s : i \in DOMAIN agenda'[x] /\ agenda'[x][i] = s[i]
           /\ \A y \in Thread \ {x} : agenda'[y] = agenda[y]
<1> DEFINE a == agenda[x]
           b == agenda'[x]
<1>1. a \in Seq(Tasks) /\ a # <<>> /\ b = s \o Tail(a) /\ RestBare(a)
  BY ThenRest
<1>3. \A y \in Thread \ {x} : agenda'[y] = agenda[y]
  BY ThenRest
<1> HIDE DEF a, b
<1>2. ASSUME NEW i \in DOMAIN b, b[i].do \in Kinds PROVE i \in DOMAIN s /\ b[i] = s[i]
  <2>0. a \in Seq(Tasks) /\ a # <<>> /\ b = s \o Tail(a)
    BY <1>1
  <2>1. \/ i \in DOMAIN s /\ b[i] = s[i]
        \/ \E j \in DOMAIN a : j > 1 /\ b[i] = a[j]
    BY <2>0, ShiftBack
  <2> QED BY <1>1, <1>2, <2>1 DEF RestBare
<1>4. ASSUME NEW i \in DOMAIN s PROVE i \in DOMAIN b /\ b[i] = s[i]
  BY <1>1, ShiftFirst
<1> QED BY <1>2, <1>3, <1>4 DEF b

LEMMA ElsewherePends ==
    ASSUME NEW ag, NEW x, NEW do, NEW n, Elsewhere(ag, x, {do}, n) PROVE Pending(ag, do, n)
BY DEF Elsewhere, Pending

LEMMA ElsewhereKinds ==
    ASSUME NEW ag, NEW x, NEW n, Elsewhere(ag, x, Kinds, n) PROVE \E do \in Kinds : Pending(ag, do, n)
BY DEF Elsewhere, Pending

\* A token that is there has been issued and is not about to be created.
LEMMA ThereFacts ==
    ASSUME TreeInv, NEW n \in Token, tokens[n] # None, NEW x
    PROVE  n <= issued /\ ~Elsewhere(agenda, x, {"put"}, n) /\ ~Elsewhere(agenda, x, {"unparent"}, n)
<1>1. issued \in Nat /\ n \in Nat
  <2>1. issued \in 1 .. MaxTokens
    BY DEF TreeInv, TypeInv, TypeOK
  <2> QED BY <2>1, Numbers, BoundsAssumption
<1>2. ~(n > issued)
  BY DEF TreeInv, NewClean
<1>3. ~Pending(agenda, "put", n) /\ ~Pending(agenda, "unparent", n)
  BY DEF TreeInv, NotThere
<1> QED BY <1>1, <1>2, <1>3, ElsewherePends

LEMMA CheckTree ==
    ASSUME TreeInv, TypeInv', NEW x \in Thread, Check(x) PROVE TreeInv'
<1> DEFINE n == Task(x).id
           k == UseTask(n, tokens[n])
<1>0. TypeOK
  BY DEF TreeInv, TypeInv
<1>1. /\ agenda[x] # <<>> /\ Task(x).do = "check" /\ n \in Token
      /\ \/ Drop(x)
         \/ Then(x, <<>>)
         \/ Then(x, <<T("revoke", n)>>)
         \/ tokens[n] # None /\ tokens[n].num_uses \in Nat \ {0, 1} /\ Then(x, <<k>>)
  BY <1>0, CheckScript
<1>2. tokens' = tokens /\ parents' = parents /\ issued' = issued
  BY DEF Check, storageVars, boundVars
<1>3. Task(x).do \notin {"index", "parent"}
  BY <1>1
<1>4. CASE Drop(x)
  BY <1>2, <1>4, BareDrop
<1>5. CASE Then(x, <<>>)
  <2>1. <<>> \in Seq(Tasks) /\ Bare(<<>>)
    BY FewBare
  <2> QED BY <1>1, <1>2, <1>3, <1>5, <2>1, BareThen
<1>6. CASE Then(x, <<T("revoke", n)>>)
  <2> DEFINE r == T("revoke", n)
  <2>1. r \in Tasks /\ r.do \notin Kinds
    BY <1>1, TaskMade DEF OnToken, Kinds
  <2>2. Then(x, <<r>>)
    BY <1>6
  <2> HIDE DEF r
  <2>3. <<r>> \in Seq(Tasks) /\ Bare(<<r>>)
    BY <2>1, FewBare
  <2> QED BY <1>1, <1>2, <1>3, <2>2, <2>3, BareThen
<1>7. CASE tokens[n] # None /\ tokens[n].num_uses \in Nat \ {0, 1} /\ Then(x, <<k>>)
  <2>1. tokens[n] \in TokenEntry
    BY <1>0, <1>1, <1>7 DEF TypeOK
  <2>2. k \in Tasks /\ k.do = "use" /\ k.id = n /\ k.entry.parent = tokens[n].parent
    BY <1>1, <1>7, <2>1, UseTyped
  <2>3. n <= issued /\ ~Elsewhere(agenda, x, {"put"}, n)
    BY <1>1, <1>7, ThereFacts
  <2> HIDE DEF k, n
  <2>4. <<k>> \in Seq(Tasks) /\ DOMAIN <<k>> = {1} /\ <<k>>[1] = k
    BY <2>2
  <2>5. /\ \A i \in DOMAIN agenda'[x] : agenda'[x][i].do \in Kinds => i = 1 /\ agenda'[x][i] = k
        /\ \A y \in Thread \ {x} : agenda'[y] = agenda[y]
    <3> DEFINE s == <<k>>
    <3>1. /\ s \in Seq(Tasks) /\ DOMAIN s = {1} /\ s[1] = k /\ Then(x, s)
      BY <1>7, <2>4
    <3> HIDE DEF s
    <3> QED BY <1>1, <1>3, <3>1, OnlyNewThen
  <2>6. PutPlaced(agenda'[x], parents') /\ OnceFirst(agenda'[x])
    BY <2>2, <2>5 DEF PutPlaced, OnceFirst, Kinds
  <2>7. /\ k.do \in Kinds => k.id <= issued'
        /\ k.do \in {"put", "unparent"} => tokens'[k.id] = None
        /\ k.do = "put" => ~Elsewhere(agenda, x, Kinds, k.id)
        /\ k.do \in Kinds => ~Elsewhere(agenda, x, {"put"}, k.id)
        /\ k.do = "use" /\ tokens'[k.id] # None => tokens'[k.id].parent = k.entry.parent
    BY <1>2, <2>2, <2>3
  <2>8. issued <= issued'
    BY <1>2, IssuedFact DEF TreeInv
  <2>9. \A m \in Token : TokenMove(m, x, k)
    BY <1>2 DEF TokenMove
  <2>10. \A m \in Token, p \in Token : <<p, m>> \in parents /\ <<p, m>> \notin parents' =>
           tokens[m] = None /\ ~Elsewhere(agenda, x, {"put"}, m)
    BY <1>2
  <2> QED BY <2>5, <2>6, <2>7, <2>8, <2>9, <2>10, TreeMove
<1> QED BY <1>1, <1>4, <1>5, <1>6, <1>7

\* use_token finds the token it writes still there.
UseKept == \A x \in Thread : Doing(x, "use") /\ Put(x) => tokens[Task(x).id] # None

LEMMA PutTree ==
    ASSUME TreeInv, TypeInv', NEW x \in Thread, Put(x), UseKept PROVE TreeInv'
<1> DEFINE n == Task(x).id
           e == Task(x).entry
<1>0. TypeOK
  BY DEF TreeInv, TypeInv
<1>1. /\ agenda[x] # <<>> /\ Task(x).do \in {"use", "put"} /\ n \in Token /\ e \in TokenEntry
      /\ Then(x, <<>>)
  BY <1>0, PutScript
<1>2. /\ tokens' = [tokens EXCEPT ![n] = e] /\ parents' = parents /\ issued' = issued
  BY DEF Put, boundVars
<1>3. Task(x).do \notin {"index", "parent"}
  BY <1>1
<1>4. /\ Bare(agenda'[x]) /\ \A y \in Thread \ {x} : agenda'[y] = agenda[y]
      /\ agenda[x][1] = Task(x) /\ 1 \in DOMAIN agenda[x]
  <2>1. <<>> \in Seq(Tasks) /\ Bare(<<>>)
    BY FewBare
  <2> QED BY <1>1, <1>3, <2>1, ThenRest
<1>5. tokens'[n] = e /\ \A m \in Token \ {n} : tokens'[m] = tokens[m]
  BY <1>0, <1>1, <1>2 DEF TypeOK
<1>6. \/ tokens[n] # None /\ tokens'[n].parent = tokens[n].parent
      \/ /\ n <= issued' /\ Linked(n, tokens'[n].parent, parents')
         /\ ~Elsewhere(agenda, x, Kinds, n)
  <2>1. CASE Task(x).do = "use"
    <3>1. tokens[n] # None
      BY <1>1, <2>1 DEF UseKept, Doing
    <3>2. tokens[n].parent = e.parent
      BY <1>4, <2>1, <3>1 DEF TreeInv, UseFits
    <3> QED BY <1>5, <3>1, <3>2
  <2>2. CASE Task(x).do = "put"
    <3>1. Linked(n, e.parent, parents)
      <4>1. PutPlaced(agenda[x], parents)
        BY DEF TreeInv, Shapes
      <4> QED BY <1>4, <2>2, <4>1 DEF PutPlaced
    <3>2. Pending(agenda, "put", n)
      BY <1>4, <2>2 DEF Pending
    <3>3. ~Pending(agenda, "use", n) /\ ~Pending(agenda, "unparent", n)
      BY <1>1, <3>2 DEF TreeInv, PutAlone
    <3>4. ~Elsewhere(agenda, x, {"put"}, n)
      BY <1>4, <2>2 DEF Elsewhere, TreeInv, PutOnce
    <3>5. ~Elsewhere(agenda, x, Kinds, n)
      BY <3>3, <3>4 DEF Elsewhere, Pending, Kinds
    <3>6. n <= issued
      <4>1. ~(n > issued)
        BY <1>1, <3>2 DEF TreeInv, NewClean, Kinds
      <4>2. n \in Nat /\ issued \in Nat
        BY <1>1, Numbers, IssuedFact DEF TreeInv
      <4> QED BY <4>1, <4>2
    <3> QED BY <1>2, <1>5, <3>1, <3>5, <3>6
  <2> QED BY <1>1, <2>1, <2>2
<1> HIDE DEF n, e
<1>7. issued <= issued'
  BY <1>2, IssuedFact DEF TreeInv
<1>8. \A m \in Token, p \in Token : <<p, m>> \in parents /\ <<p, m>> \notin parents' =>
        tokens[m] = None /\ ~Elsewhere(agenda, x, {"put"}, m)
  BY <1>2
<1>9. \A m \in Token : \/ tokens'[m] = tokens[m]
                       \/ tokens'[m] = None
                       \/ tokens[m] # None /\ tokens'[m].parent = tokens[m].parent
                       \/ /\ m <= issued' /\ Linked(m, tokens'[m].parent, parents')
                          /\ ~Elsewhere(agenda, x, Kinds, m)
  BY <1>5, <1>6
<1> QED BY <1>4, <1>7, <1>8, <1>9, BareMove


\* A task taken off an agenda.
LEMMA TakenOff ==
    ASSUME TreeInv, NEW x \in Thread, agenda[x] # <<>>, Then(x, <<>>)
    PROVE  /\ \A i \in DOMAIN agenda'[x] : /\ i \in Nat \ {0} /\ i + 1 \in DOMAIN agenda[x]
                                           /\ agenda'[x][i] = agenda[x][i + 1]
           /\ agenda[x] \in Seq(Tasks) /\ agenda[x][1] = Task(x)
           /\ \A y \in Thread \ {x} : agenda'[y] = agenda[y]
<1> DEFINE s == <<>>
           a == agenda[x]
           b == agenda'[x]
<1>0. s \in Seq(Tasks) /\ Then(x, s)
  OBVIOUS
<1> HIDE DEF s
<1>1. a \in Seq(Tasks) /\ a # <<>> /\ b = s \o Tail(a)
  BY <1>0, ThenAgenda DEF TreeInv, TypeInv, TypeOK
<1>2. a[1] = Task(x) /\ \A y \in Thread \ {x} : agenda'[y] = agenda[y]
  BY <1>0, ThenAgenda, HeadTask DEF TreeInv, TypeInv, TypeOK
<1> HIDE DEF a, b
<1>3. DOMAIN s = {} /\ Len(s) = 0
  BY DEF s
<1>4. ASSUME NEW i \in DOMAIN b PROVE i \in Nat \ {0} /\ i + 1 \in DOMAIN a /\ b[i] = a[i + 1]
  <2>1. \/ i \in DOMAIN s /\ b[i] = s[i]
        \/ /\ i > Len(s) /\ i - Len(s) + 1 \in DOMAIN a /\ i - Len(s) + 1 > 1
           /\ b[i] = a[i - Len(s) + 1]
    BY <1>0, <1>1, Shift
  <2>2. DOMAIN b = 1 .. Len(b) /\ Len(b) \in Nat
    BY <1>0, <1>1, Shift, LenProperties
  <2>3. i \in Nat \ {0} /\ i - Len(s) + 1 = i + 1
    BY <1>3, <2>2
  <2> QED BY <1>3, <2>1, <2>3
<1> QED BY <1>1, <1>2, <1>4 DEF a, b

\* A token that is to be written by x has been issued, is not there, and no
\* other thread is to write it or unlink it.
LEMMA PutFacts ==
    ASSUME TreeInv, NEW x \in Thread, NEW i \in DOMAIN agenda[x], agenda[x][i].do = "put"
    PROVE  LET n == agenda[x][i].id IN
           /\ n \in Token /\ n <= issued /\ tokens[n] = None
           /\ ~Elsewhere(agenda, x, Kinds, n) /\ ~Elsewhere(agenda, x, {"put"}, n)
<1> DEFINE n == agenda[x][i].id
<1>1. n \in Token
  <2>1. agenda[x][i] \in Tasks
    BY DEF TreeInv, TypeInv, TypeOK
  <2> QED BY <2>1, TaskFields
<1>2. Pending(agenda, "put", n)
  BY DEF Pending
<1>3. ~Pending(agenda, "use", n) /\ ~Pending(agenda, "unparent", n) /\ tokens[n] = None
  BY <1>1, <1>2 DEF TreeInv, PutAlone, NotThere
<1>4. ~Elsewhere(agenda, x, {"put"}, n)
  BY DEF Elsewhere, TreeInv, PutOnce
<1>5. ~Elsewhere(agenda, x, Kinds, n)
  BY <1>3, <1>4 DEF Elsewhere, Pending, Kinds
<1>6. n <= issued
  <2>1. ~(n > issued)
    BY <1>1, <1>2 DEF TreeInv, NewClean, Kinds
  <2>2. issued \in 1 .. MaxTokens
    BY DEF TreeInv, TypeInv, TypeOK
  <2>3. n \in Nat
    BY <1>1, Numbers
  <2>4. issued \in Nat
    BY <2>2, BoundsAssumption
  <2> QED BY <2>1, <2>3, <2>4
<1> QED BY <1>1, <1>3, <1>4, <1>5, <1>6

\* x keeps the token it is to write, and links it.
LEMMA KeepPut ==
    ASSUME TreeInv, TypeInv', NEW x \in Thread, \A y \in Thread \ {x} : agenda'[y] = agenda[y],
           NEW m \in DOMAIN agenda[x], agenda[x][m].do = "put",
           \A i \in DOMAIN agenda'[x] : agenda'[x][i].do \in Kinds => agenda'[x][i] = agenda[x][m],
           PutPlaced(agenda'[x], parents'), OnceFirst(agenda'[x]),
           tokens' = tokens, issued' = issued, parents \subseteq parents'
    PROVE  TreeInv'
<1> DEFINE k == agenda[x][m]
<1>1. /\ k.do = "put" /\ k.id \in Token /\ k.id <= issued /\ tokens[k.id] = None
      /\ ~Elsewhere(agenda, x, Kinds, k.id) /\ ~Elsewhere(agenda, x, {"put"}, k.id)
  BY PutFacts
<1>2. \A i \in DOMAIN agenda'[x] : agenda'[x][i].do \in Kinds => agenda'[x][i] = k
  OBVIOUS
<1> HIDE DEF k
<1>3. /\ k.do \in Kinds => k.id <= issued'
      /\ k.do \in {"put", "unparent"} => tokens'[k.id] = None
      /\ k.do = "put" => ~Elsewhere(agenda, x, Kinds, k.id)
      /\ k.do \in Kinds => ~Elsewhere(agenda, x, {"put"}, k.id)
      /\ k.do = "use" /\ tokens'[k.id] # None => tokens'[k.id].parent = k.entry.parent
  BY <1>1
<1>4. issued <= issued'
  BY IssuedFact DEF TreeInv
<1>5. \A n \in Token : TokenMove(n, x, k)
  BY DEF TokenMove
<1>6. \A n \in Token, p \in Token : <<p, n>> \in parents /\ <<p, n>> \notin parents' =>
        tokens[n] = None /\ ~Elsewhere(agenda, x, {"put"}, n)
  OBVIOUS
<1> QED BY <1>2, <1>3, <1>4, <1>5, <1>6, TreeMove

LEMMA ParentTree ==
    ASSUME TreeInv, TypeInv', NEW x \in Thread, CreateParent(x) PROVE TreeInv'
<1>1. agenda[x] # <<>> /\ Task(x).do = "parent" /\ (Drop(x) \/ Then(x, <<>>))
  BY ParentScript DEF TreeInv, TypeInv
<1>2. tokens' = tokens /\ parents' = parents /\ issued' = issued
  BY DEF CreateParent, storageVars, boundVars
<1>3. CASE Drop(x)
  BY <1>2, <1>3, BareDrop
<1>4. CASE Then(x, <<>>)
  <2> DEFINE a == agenda[x]
             b == agenda'[x]
  <2>1. /\ \A i \in DOMAIN b : i \in Nat \ {0} /\ i + 1 \in DOMAIN a /\ b[i] = a[i + 1]
        /\ a[1].do = "parent" /\ a \in Seq(Tasks)
    BY <1>1, <1>4, TakenOff
  <2>2. \A y \in Thread \ {x} : agenda'[y] = agenda[y]
    BY <1>1, <1>4, TakenOff
  <2>3. PutPlaced(a, parents) /\ OnceFirst(a)
    BY DEF TreeInv, Shapes
  <2>4. ASSUME NEW i \in DOMAIN b, b[i].do \in Kinds
        PROVE  /\ i = 2 /\ b[i] = a[3] /\ 3 \in DOMAIN a /\ a[3].do = "put"
               /\ a[2].do = "index" /\ a[2].id = a[3].id /\ a[2].parent = a[3].entry.parent
    <3> HIDE DEF a, b
    <3>1. i \in Nat \ {0} /\ i + 1 \in DOMAIN a /\ b[i] = a[i + 1]
      BY <2>1
    <3>2. i + 1 # 1 /\ (i + 1 = 3 => i = 2)
      BY <3>1
    <3>3. a[i + 1].do = "put"
      BY <2>3, <2>4, <3>1, <3>2 DEF OnceFirst, Kinds
    <3>4. i + 1 = 3
      BY <2>1, <2>3, <3>1, <3>2, <3>3 DEF PutPlaced
    <3> QED BY <2>1, <2>3, <3>1, <3>2, <3>3, <3>4 DEF PutPlaced
  <2>5. CASE Bare(b)
    BY <1>2, <2>2, <2>5, BareSame
  <2>6. CASE ~Bare(b)
    <3>1. PICK i \in DOMAIN b : b[i].do \in Kinds
      BY <2>6 DEF Bare
    <3>2. /\ i = 2 /\ 3 \in DOMAIN a /\ a[3].do = "put"
          /\ a[2].do = "index" /\ a[2].id = a[3].id /\ a[2].parent = a[3].entry.parent
      BY <2>4, <3>1
    <3>3. 1 \in DOMAIN b
      <4>1. b \in Seq(Tasks)
        BY DEF TypeInv, TypeOK
      <4>2. DOMAIN b = 1 .. Len(b) /\ Len(b) \in Nat
        BY <4>1, LenProperties
      <4> QED BY <3>1, <3>2, <4>2
    <3>4. b[1] = a[2]
      <4>1. 1 + 1 = 2
        OBVIOUS
      <4> HIDE DEF a, b
      <4> QED BY <2>1, <3>3, <4>1
    <3>5. PutPlaced(b, parents') /\ OnceFirst(b)
      <4> HIDE DEF a, b
      <4> QED BY <2>4, <3>2, <3>4 DEF PutPlaced, OnceFirst, Kinds
    <3>6. \A j \in DOMAIN b : b[j].do \in Kinds => b[j] = a[3]
      BY <2>4
    <3> QED BY <1>2, <2>2, <3>2, <3>5, <3>6, KeepPut
  <2> QED BY <2>5, <2>6
<1> QED BY <1>1, <1>3, <1>4

LEMMA LinkTree ==
    ASSUME TreeInv, TypeInv', NEW x \in Thread, CreateIndex(x) PROVE TreeInv'
<1>1. agenda[x] # <<>> /\ Task(x).do = "index" /\ Then(x, <<>>)
  BY LinkScript DEF TreeInv, TypeInv
<1>2. /\ tokens' = tokens /\ parents' = parents \cup {<<Task(x).parent, Task(x).id>>}
      /\ issued' = issued
  BY DEF CreateIndex, boundVars
<1> DEFINE a == agenda[x]
           b == agenda'[x]
<1>3. /\ \A i \in DOMAIN b : i \in Nat \ {0} /\ i + 1 \in DOMAIN a /\ b[i] = a[i + 1]
      /\ a[1].do = "index" /\ a \in Seq(Tasks)
      /\ parents' = parents \cup {<<a[1].parent, a[1].id>>}
  BY <1>1, <1>2, TakenOff
<1>4. \A y \in Thread \ {x} : agenda'[y] = agenda[y]
  BY <1>1, TakenOff
<1>5. PutPlaced(a, parents) /\ OnceFirst(a)
  BY DEF TreeInv, Shapes
<1>6. ASSUME NEW i \in DOMAIN b, b[i].do \in Kinds
      PROVE  /\ i = 1 /\ b[i] = a[2] /\ 2 \in DOMAIN a /\ a[2].do = "put"
             /\ a[1].id = a[2].id /\ a[1].parent = a[2].entry.parent
  <2> HIDE DEF a, b
  <2>1. i \in Nat \ {0} /\ i + 1 \in DOMAIN a /\ b[i] = a[i + 1]
    BY <1>3
  <2>2. i + 1 # 1 /\ (i + 1 = 2 => i = 1)
    BY <2>1
  <2>3. a[i + 1].do = "put"
    BY <1>5, <1>6, <2>1, <2>2 DEF OnceFirst, Kinds
  <2>4. i + 1 = 2
    BY <1>3, <1>5, <2>1, <2>2, <2>3 DEF PutPlaced
  <2> QED BY <1>3, <1>5, <2>1, <2>2, <2>3, <2>4 DEF PutPlaced
<1>7. CASE Bare(b)
  <2>1. issued <= issued'
    BY <1>2, IssuedFact DEF TreeInv
  <2>2. \A n \in Token, p \in Token : <<p, n>> \in parents /\ <<p, n>> \notin parents' =>
               tokens[n] = None /\ ~Elsewhere(agenda, x, {"put"}, n)
    BY <1>2
  <2>3. \A n \in Token : tokens'[n] = tokens[n]
    BY <1>2
  <2> QED BY <1>4, <1>7, <2>1, <2>2, <2>3, BareMove
<1>8. CASE ~Bare(b)
  <2>1. PICK i \in DOMAIN b : b[i].do \in Kinds
    BY <1>8 DEF Bare
  <2>2. 2 \in DOMAIN a /\ a[2].do = "put"
    BY <1>6, <2>1
  <2>3. PutPlaced(b, parents') /\ OnceFirst(b)
    <3> HIDE DEF a, b
    <3> QED BY <1>3, <1>6 DEF PutPlaced, OnceFirst, Kinds, Linked
  <2>4. \A j \in DOMAIN b : b[j].do \in Kinds => b[j] = a[2]
    BY <1>6
  <2>5. parents \subseteq parents'
    BY <1>2
  <2> QED BY <1>2, <1>4, <2>2, <2>3, <2>4, <2>5, KeepPut
<1> QED BY <1>7, <1>8


\* The child and the token that replaces it have new numbers.
LEMMA NewFacts ==
    ASSUME TreeInv, issued < MaxTokens, NEW x
    PROVE  /\ issued + 1 \in Token /\ tokens[issued + 1] = None
           /\ ~Elsewhere(agenda, x, Kinds, issued + 1) /\ ~Elsewhere(agenda, x, {"put"}, issued + 1)
           /\ issued <= issued + 1 /\ issued + 1 <= issued + 1
<1>1. issued \in 1 .. MaxTokens
  BY DEF TreeInv, TypeInv, TypeOK
<1>2. /\ issued + 1 \in Token /\ issued + 1 > issued /\ issued <= issued + 1
      /\ issued + 1 <= issued + 1
  BY <1>1, BoundsAssumption DEF Token
<1> DEFINE n == issued + 1
<1>3. n \in Token /\ n > issued
  BY <1>2
<1> HIDE DEF n
<1>4. tokens[n] = None /\ \A do \in Kinds : ~Pending(agenda, do, n)
  BY <1>3 DEF TreeInv, NewClean
<1>5. ~Elsewhere(agenda, x, Kinds, n)
  BY <1>4, ElsewhereKinds
<1>6. ~Elsewhere(agenda, x, {"put"}, n)
  BY <1>4, ElsewherePends DEF Kinds
<1> QED BY <1>2, <1>4, <1>5, <1>6 DEF n

LEMMA CreateTree ==
    ASSUME TreeInv, TypeInv', NEW x \in Thread, HandleCreate(x) PROVE TreeInv'
<1>0. TypeOK
  BY DEF TreeInv, TypeInv
<1> DEFINE t == Task(x).id
           req == Task(x).req
           n == issued + 1
           p == ParentFor(t, req)
           e == NewEntry(p, req)
           k == PutTask(n, e)
<1>1. /\ agenda[x] # <<>> /\ Task(x).do = "create" /\ t \in Token /\ req \in TokenReq
      /\ \/ Drop(x) /\ issued' = issued
         \/ /\ issued < MaxTokens /\ issued' = n
            /\ \/ p = None /\ Then(x, <<k>>)
               \/ p # None /\ Then(x, <<T("parent", p), LinkTask(n, p), k>>)
  BY <1>0, CreateScript
<1>2. tokens' = tokens /\ parents' = parents
  BY DEF HandleCreate, storageVars
<1>3. Task(x).do \notin {"index", "parent"}
  BY <1>1
<1>4. CASE Drop(x) /\ issued' = issued
  BY <1>2, <1>4, BareDrop
<1>5. p \in Token \cup {None}
  BY <1>1 DEF ParentFor
<1>6. k.do = "put" /\ k.id = n /\ k.entry = e /\ e.parent = p
  BY DEF PutTask, NewEntry
<1>7. ASSUME issued < MaxTokens, issued' = n,
             \A y \in Thread \ {x} : agenda'[y] = agenda[y],
             \A i \in DOMAIN agenda'[x] : agenda'[x][i].do \in Kinds => agenda'[x][i] = k,
             PutPlaced(agenda'[x], parents'), OnceFirst(agenda'[x])
      PROVE  TreeInv'
  <2>1. /\ n \in Token /\ tokens[n] = None /\ issued <= n /\ n <= n
        /\ ~Elsewhere(agenda, x, Kinds, n) /\ ~Elsewhere(agenda, x, {"put"}, n)
    BY <1>7, NewFacts
  <2> HIDE DEF n, k
  <2>2. /\ k.do \in Kinds => k.id <= issued'
        /\ k.do \in {"put", "unparent"} => tokens'[k.id] = None
        /\ k.do = "put" => ~Elsewhere(agenda, x, Kinds, k.id)
        /\ k.do \in Kinds => ~Elsewhere(agenda, x, {"put"}, k.id)
        /\ k.do = "use" /\ tokens'[k.id] # None => tokens'[k.id].parent = k.entry.parent
    BY <1>2, <1>6, <1>7, <2>1
  <2>3. issued <= issued'
    BY <1>7, <2>1
  <2>4. \A m \in Token : TokenMove(m, x, k)
    BY <1>2 DEF TokenMove
  <2>5. \A m \in Token, q \in Token : <<q, m>> \in parents /\ <<q, m>> \notin parents' =>
          tokens[m] = None /\ ~Elsewhere(agenda, x, {"put"}, m)
    BY <1>2
  <2> QED BY <1>7, <2>2, <2>3, <2>4, <2>5, TreeMove
<1>8. issued < MaxTokens => n \in Token
  BY NewFacts
<1>9. issued < MaxTokens => k \in Tasks
  BY <1>1, <1>5, <1>8, NewTyped
<1>10. p # None /\ issued < MaxTokens =>
         /\ T("parent", p) \in Tasks /\ T("parent", p).do = "parent"
         /\ LinkTask(n, p) \in Tasks /\ LinkTask(n, p).do = "index"
         /\ LinkTask(n, p).id = n /\ LinkTask(n, p).parent = p
  BY <1>1, <1>5, <1>8, NewTyped, TaskMade DEF LinkTask, OnToken
<1> HIDE DEF k, n, p
<1>11. CASE issued < MaxTokens /\ issued' = n /\ p = None /\ Then(x, <<k>>)
  <2> DEFINE s == <<k>>
  <2>1. s \in Seq(Tasks) /\ DOMAIN s = {1} /\ s[1] = k /\ Then(x, s)
    BY <1>9, <1>11
  <2> HIDE DEF s
  <2>2. /\ \A i \in DOMAIN agenda'[x] : agenda'[x][i].do \in Kinds => i = 1 /\ agenda'[x][i] = k
        /\ \A y \in Thread \ {x} : agenda'[y] = agenda[y]
    BY <1>1, <1>3, <2>1, OnlyNewThen
  <2>3. PutPlaced(agenda'[x], parents') /\ OnceFirst(agenda'[x])
    BY <1>6, <1>11, <2>2 DEF PutPlaced, OnceFirst, Kinds, Linked
  <2> QED BY <1>7, <1>11, <2>2, <2>3
<1>12. CASE /\ issued < MaxTokens /\ issued' = n /\ p # None
            /\ Then(x, <<T("parent", p), LinkTask(n, p), k>>)
  <2> DEFINE u == T("parent", p)
             v == LinkTask(n, p)
             s == <<u, v, k>>
  <2>1. /\ u \in Tasks /\ u.do = "parent" /\ v \in Tasks /\ v.do = "index" /\ v.id = n
        /\ v.parent = p
    BY <1>10, <1>12
  <2>2. Then(x, s)
    BY <1>12
  <2> HIDE DEF u, v
  <2>3. s \in Seq(Tasks) /\ DOMAIN s = 1 .. 3 /\ s[1] = u /\ s[2] = v /\ s[3] = k
    BY <1>9, <1>12, <2>1
  <2> HIDE DEF s
  <2>4. /\ \A i \in DOMAIN agenda'[x] : agenda'[x][i].do \in Kinds => i \in 1 .. 3 /\ agenda'[x][i] = s[i]
        /\ \A i \in 1 .. 3 : agenda'[x][i] = s[i]
        /\ \A y \in Thread \ {x} : agenda'[y] = agenda[y]
    BY <1>1, <1>3, <2>2, <2>3, OnlyNewThen
  <2>5. agenda'[x][1] = u /\ agenda'[x][2] = v
    BY <2>3, <2>4
  <2>6. \A i \in DOMAIN agenda'[x] : agenda'[x][i].do \in Kinds => i = 3 /\ agenda'[x][i] = k
    BY <2>1, <2>3, <2>4 DEF Kinds
  <2>7. PutPlaced(agenda'[x], parents') /\ OnceFirst(agenda'[x])
    BY <1>6, <2>1, <2>5, <2>6 DEF PutPlaced, OnceFirst, Kinds
  <2> QED BY <1>7, <1>12, <2>4, <2>6, <2>7
<1> QED BY <1>1, <1>4, <1>11, <1>12 DEF k

LEMMA PostRouteTree ==
    ASSUME TreeInv, TypeInv', NEW x \in Thread, PostRoute(x) PROVE TreeInv'
<1> DEFINE n == issued + 1
           k == T("lease", n)
<1>1. /\ agenda[x] # <<>> /\ Task(x).do = "token" /\ issued < MaxTokens /\ n \in Token
      /\ issued' = n /\ tokens' = [tokens EXCEPT ![n] = PlainEntry] /\ Then(x, <<k>>)
  BY PostRouteScript DEF TreeInv, TypeInv
<1>2. parents' = parents
  BY DEF PostRoute
<1>3. k \in Tasks /\ k.do \notin Kinds
  BY <1>1, TaskMade DEF OnToken, Kinds
<1>4. n <= issued' /\ issued <= issued' /\ ~Elsewhere(agenda, x, Kinds, n)
  BY <1>1, NewFacts
<1> HIDE DEF k, n
<1>5. <<k>> \in Seq(Tasks) /\ Bare(<<k>>)
  BY <1>3, FewBare
<1>6. Bare(agenda'[x]) /\ \A y \in Thread \ {x} : agenda'[y] = agenda[y]
  <2>1. Task(x).do \notin {"index", "parent"}
    BY <1>1
  <2> QED BY <1>1, <1>5, <2>1, ThenRest
<1>7. tokens'[n].parent = None /\ \A m \in Token \ {n} : tokens'[m] = tokens[m]
  <2>1. tokens \in [Token -> TokenEntry \cup {None}]
    BY DEF TreeInv, TypeInv, TypeOK
  <2> QED BY <1>1, <2>1 DEF PlainEntry
<1>8. \A m \in Token : \/ tokens'[m] = tokens[m]
                       \/ /\ m <= issued' /\ Linked(m, tokens'[m].parent, parents')
                          /\ ~Elsewhere(agenda, x, Kinds, m)
  BY <1>4, <1>7 DEF Linked
<1>9. \A m \in Token, p \in Token : <<p, m>> \in parents /\ <<p, m>> \notin parents' =>
        tokens[m] = None /\ ~Elsewhere(agenda, x, {"put"}, m)
  BY <1>2
<1> QED BY <1>4, <1>6, <1>8, <1>9, BareMove

LEMMA RevokeTokenTree ==
    ASSUME TreeInv, TypeInv', NEW x \in Thread, Revoke(x) PROVE TreeInv'
<1> DEFINE n == Task(x).id
           k == T("secrets", n)
           u == UnlinkTask(n, tokens[n].parent)
<1>1. /\ agenda[x] # <<>> /\ Task(x).do = "revoke" /\ n \in Token
      /\ tokens' = [tokens EXCEPT ![n] = None] /\ k \in Tasks
      /\ \/ Then(x, <<>>)
         \/ Then(x, <<k>>)
         \/ tokens[n] # None /\ u \in Tasks /\ Then(x, <<u, k>>)
  BY RevokeScript DEF TreeInv, TypeInv
<1>2. parents' = parents /\ issued' = issued
  BY DEF Revoke, boundVars
<1>3. k.do = "secrets" /\ k.do \notin Kinds /\ u.do = "unparent" /\ u.id = n
  BY DEF T, UnlinkTask, Kinds
<1>4. issued <= issued'
  BY <1>2, IssuedFact DEF TreeInv
<1>5. tokens'[n] = None /\ \A m \in Token \ {n} : tokens'[m] = tokens[m]
  <2>1. tokens \in [Token -> TokenEntry \cup {None}]
    BY DEF TreeInv, TypeInv, TypeOK
  <2> QED BY <1>1, <2>1
<1>6. \A m \in Token, p \in Token : <<p, m>> \in parents /\ <<p, m>> \notin parents' =>
        tokens[m] = None /\ ~Elsewhere(agenda, x, {"put"}, m)
  BY <1>2
<1>7. Task(x).do \notin {"index", "parent"}
  BY <1>1
<1> HIDE DEF k, u, n
<1>8. \A m \in Token : tokens'[m] = tokens[m] \/ tokens'[m] = None
  BY <1>5
<1>9. CASE Then(x, <<>>)
  <2>1. <<>> \in Seq(Tasks) /\ Bare(<<>>)
    BY FewBare
  <2>2. Bare(agenda'[x]) /\ \A y \in Thread \ {x} : agenda'[y] = agenda[y]
    BY <1>1, <1>7, <1>9, <2>1, ThenRest
  <2> QED BY <1>4, <1>6, <1>8, <2>2, BareMove
<1>10. CASE Then(x, <<k>>)
  <2>1. <<k>> \in Seq(Tasks) /\ Bare(<<k>>)
    BY <1>1, <1>3, FewBare
  <2>2. Bare(agenda'[x]) /\ \A y \in Thread \ {x} : agenda'[y] = agenda[y]
    BY <1>1, <1>7, <1>10, <2>1, ThenRest
  <2> QED BY <1>4, <1>6, <1>8, <2>2, BareMove
<1>11. CASE tokens[n] # None /\ u \in Tasks /\ Then(x, <<u, k>>)
  <2> DEFINE s == <<u, k>>
  <2>1. s \in Seq(Tasks) /\ DOMAIN s = {1, 2} /\ s[1] = u /\ s[2] = k /\ Then(x, s)
    BY <1>1, <1>11
  <2> HIDE DEF s
  <2>2. /\ \A i \in DOMAIN agenda'[x] : agenda'[x][i].do \in Kinds => i \in DOMAIN s /\ agenda'[x][i] = s[i]
        /\ \A y \in Thread \ {x} : agenda'[y] = agenda[y]
    BY <1>1, <1>7, <2>1, OnlyNewThen
  <2>3. \A i \in DOMAIN agenda'[x] : agenda'[x][i].do \in Kinds => i = 1 /\ agenda'[x][i] = u
    BY <1>3, <2>1, <2>2
  <2>4. PutPlaced(agenda'[x], parents') /\ OnceFirst(agenda'[x])
    BY <1>3, <2>3 DEF PutPlaced, OnceFirst, Kinds
  <2>5. n <= issued /\ ~Elsewhere(agenda, x, {"put"}, n)
    BY <1>1, <1>11, ThereFacts
  <2>6. /\ u.do \in Kinds => u.id <= issued'
        /\ u.do \in {"put", "unparent"} => tokens'[u.id] = None
        /\ u.do = "put" => ~Elsewhere(agenda, x, Kinds, u.id)
        /\ u.do \in Kinds => ~Elsewhere(agenda, x, {"put"}, u.id)
        /\ u.do = "use" /\ tokens'[u.id] # None => tokens'[u.id].parent = u.entry.parent
    BY <1>2, <1>3, <1>5, <2>5
  <2>7. \A m \in Token : TokenMove(m, x, u)
    BY <1>8 DEF TokenMove
  <2> QED BY <1>4, <1>6, <2>2, <2>3, <2>4, <2>6, <2>7, TreeMove
<1> QED BY <1>1, <1>9, <1>10, <1>11

LEMMA UnlinkTree ==
    ASSUME TreeInv, TypeInv', NEW x \in Thread, RevokeParent(x) PROVE TreeInv'
<1> DEFINE n == Task(x).id
<1>1. agenda[x] # <<>> /\ Task(x).do = "unparent" /\ n \in Token /\ Then(x, <<>>)
  BY UnlinkScript DEF TreeInv, TypeInv
<1>2. /\ tokens' = tokens /\ issued' = issued /\ parents' = parents \ {<<Task(x).parent, n>>}
  BY DEF RevokeParent, boundVars
<1>3. Task(x).do \notin {"index", "parent"}
  BY <1>1
<1>4. /\ Bare(agenda'[x]) /\ \A y \in Thread \ {x} : agenda'[y] = agenda[y]
      /\ agenda[x][1] = Task(x) /\ 1 \in DOMAIN agenda[x]
  <2>1. <<>> \in Seq(Tasks) /\ Bare(<<>>)
    BY FewBare
  <2> QED BY <1>1, <1>3, <2>1, ThenRest
<1>5. Pending(agenda, "unparent", n)
  BY <1>1, <1>4 DEF Pending
<1>6. tokens[n] = None /\ ~Pending(agenda, "put", n)
  BY <1>1, <1>5 DEF TreeInv, NotThere, PutAlone
<1>7. ~Elsewhere(agenda, x, {"put"}, n)
  BY <1>6, ElsewherePends
<1> HIDE DEF n
<1>8. \A m \in Token, p \in Token : <<p, m>> \in parents /\ <<p, m>> \notin parents' =>
        tokens[m] = None /\ ~Elsewhere(agenda, x, {"put"}, m)
  BY <1>2, <1>6, <1>7
<1>9. issued <= issued'
  BY <1>2, IssuedFact DEF TreeInv
<1>10. \A m \in Token : tokens'[m] = tokens[m]
  BY <1>2
<1> QED BY <1>4, <1>8, <1>9, <1>10, BareMove


\* What the steps below leave alone.
TreeFrame == tokens' = tokens /\ parents' = parents /\ issued' = issued

LEMMA BareOne ==
    ASSUME TreeInv, TypeInv', NEW x \in Thread, agenda[x] # <<>>, NEW k \in Tasks,
           k.do \notin Kinds, Then(x, <<k>>), Task(x).do \notin {"index", "parent"}, TreeFrame
    PROVE  TreeInv'
<1>1. <<k>> \in Seq(Tasks) /\ Bare(<<k>>)
  BY FewBare
<1>2. tokens' = tokens /\ parents' = parents /\ issued' = issued
  BY DEF TreeFrame
<1> QED BY <1>1, <1>2, BareThen

LEMMA BareTwo ==
    ASSUME TreeInv, TypeInv', NEW x \in Thread, agenda[x] # <<>>, NEW k \in Tasks, NEW m \in Tasks,
           k.do \notin Kinds, m.do \notin Kinds, Then(x, <<k, m>>),
           Task(x).do \notin {"index", "parent"}, TreeFrame
    PROVE  TreeInv'
<1>1. <<k, m>> \in Seq(Tasks) /\ Bare(<<k, m>>)
  BY FewBare
<1>2. tokens' = tokens /\ parents' = parents /\ issued' = issued
  BY DEF TreeFrame
<1> QED BY <1>1, <1>2, BareThen

LEMMA BareNone ==
    ASSUME TreeInv, TypeInv', NEW x \in Thread, agenda[x] # <<>>, Then(x, <<>>),
           Task(x).do \notin {"index", "parent"}, TreeFrame
    PROVE  TreeInv'
<1>1. <<>> \in Seq(Tasks) /\ Bare(<<>>)
  BY FewBare
<1>2. tokens' = tokens /\ parents' = parents /\ issued' = issued
  BY DEF TreeFrame
<1> QED BY <1>1, <1>2, BareThen

\* The steps that only take a task off.
LEMMA ShortTree ==
    ASSUME TreeInv, TypeInv', NEW x \in Thread,
           \/ CreateIndexByToken(x) \/ DeleteLeaseEntry(x) \/ RemoveIndexByToken(x)
           \/ RegisterLeaseEntry(x)
    PROVE  TreeInv'
<1>0. TypeOK
  BY DEF TreeInv, TypeInv
<1>1. /\ agenda[x] # <<>> /\ Task(x).do \in {"tie", "drop", "unindex", "enqueue"}
      /\ Then(x, <<>>)
  BY <1>0, TieScript, DeleteScript, UntieScript, QueueScript
<1>2. TreeFrame
  BY DEF TreeFrame, CreateIndexByToken, DeleteLeaseEntry, RemoveIndexByToken, RegisterLeaseEntry,
         storageVars, boundVars
<1>3. Task(x).do \notin {"index", "parent"}
  BY <1>1
<1> QED BY <1>1, <1>2, <1>3, BareNone

LEMMA AnswerTree == ASSUME TreeInv, TypeInv', NEW c \in Client, Answer(c) PROVE TreeInv'
<1>0. TypeOK /\ c \in Thread
  BY Numbers DEF TreeInv, TypeInv
<1>1. agenda[c] # <<>> /\ Task(c).do = "reply" /\ Then(c, <<>>)
  BY <1>0, AnswerScript
<1>2. TreeFrame
  BY DEF TreeFrame, Answer, storageVars, boundVars
<1>3. Task(c).do \notin {"index", "parent"}
  BY <1>1
<1> QED BY <1>0, <1>1, <1>2, <1>3, BareNone

LEMMA RegisterTree == ASSUME TreeInv, TypeInv', NEW x \in Thread, RegisterAuth(x) PROVE TreeInv'
<1>0. TypeOK
  BY DEF TreeInv, TypeInv
<1> DEFINE n == Task(x).id
           k == Enqueue(n, now + Ttl)
           m == Reply("token", n, now + Ttl)
<1>1. agenda[x] # <<>> /\ Task(x).do = "lease" /\ n \in Token /\ Then(x, <<k, m>>)
  BY <1>0, RegisterScript
<1>2. TreeFrame
  BY DEF TreeFrame, RegisterAuth, boundVars
<1>3. Task(x).do \notin {"index", "parent"}
  BY <1>1
<1>4. k \in Tasks /\ m \in Tasks
  BY <1>0, <1>1, ExpiryOK, TaskMade, Numbers
<1>5. k.do \notin Kinds /\ m.do \notin Kinds
  BY DEF Enqueue, Reply, Kinds
<1> HIDE DEF k, m
<1> QED BY <1>1, <1>2, <1>3, <1>4, <1>5, BareTwo

LEMMA SecretTree == ASSUME TreeInv, TypeInv', NEW x \in Thread, RegisterSecret(x) PROVE TreeInv'
<1>0. TypeOK
  BY DEF TreeInv, TypeInv
<1> DEFINE n == Task(x).id
           k == TieTask(NextSecret, n)
           m == Enqueue(NextSecret, now + SecretTtl)
<1>1. /\ agenda[x] # <<>> /\ Task(x).do = "secret" /\ n \in Token /\ NextSecret \in SecretLease
      /\ Then(x, <<k, m>>)
  BY <1>0, SecretScript
<1>2. TreeFrame
  BY DEF TreeFrame, RegisterSecret
<1>3. Task(x).do \notin {"index", "parent"}
  BY <1>1
<1>4. k \in Tasks /\ m \in Tasks
  BY <1>0, <1>1, ExpiryOK, TaskMade, Numbers DEF TieTask
<1>5. k.do \notin Kinds /\ m.do \notin Kinds
  BY DEF Enqueue, TieTask, Kinds
<1> HIDE DEF k, m
<1> QED BY <1>1, <1>2, <1>3, <1>4, <1>5, BareTwo

LEMMA RenewTree == ASSUME TreeInv, TypeInv', NEW x \in Thread, RenewToken(x) PROVE TreeInv'
<1>0. TypeOK
  BY DEF TreeInv, TypeInv
<1> DEFINE n == Task(x).id
           k == T("renewal", n)
<1>1. /\ agenda[x] # <<>> /\ Task(x).do = "renew" /\ n \in Token
      /\ Drop(x) \/ Then(x, <<k>>)
  BY <1>0, RenewScript
<1>2. TreeFrame /\ tokens' = tokens /\ parents' = parents /\ issued' = issued
  BY DEF TreeFrame, RenewToken, storageVars, boundVars
<1>3. Task(x).do \notin {"index", "parent"}
  BY <1>1
<1>4. k \in Tasks /\ k.do \notin Kinds
  BY <1>1, TaskMade DEF OnToken, Kinds
<1> HIDE DEF k
<1> QED BY <1>1, <1>2, <1>3, <1>4, BareOne, BareDrop

LEMMA PersistTree == ASSUME TreeInv, TypeInv', NEW x \in Thread, RenewPersist(x) PROVE TreeInv'
<1>0. TypeOK
  BY DEF TreeInv, TypeInv
<1> DEFINE n == Task(x).id
           q == Enqueue(n, now + Ttl)
           r == Reply("renew", n, now + Ttl)
           a == agenda[x]
           s == <<q>>
           b == s \o Tail(a)
           d == agenda'[x]
<1>1. /\ agenda[x] # <<>> /\ Task(x).do = "renewal" /\ q \in Tasks /\ r \in Tasks
      /\ d = b \o <<r>> /\ \A y \in Thread \ {x} : agenda'[y] = agenda[y]
  BY <1>0, PersistScript
<1>2. tokens' = tokens /\ parents' = parents /\ issued' = issued
  BY DEF RenewPersist, boundVars
<1>3. a \in Seq(Tasks) /\ a[1].do = "renewal" /\ a # <<>>
  BY <1>0, <1>1, HeadTask DEF TypeOK
<1>4. PutPlaced(a, parents) /\ OnceFirst(a)
  BY DEF TreeInv, Shapes
<1>5. q.do \notin Kinds /\ r.do \notin Kinds
  BY DEF Enqueue, Reply, Kinds
<1> HIDE DEF a, q, r
<1>6. RestBare(a)
  <2>1. a[1].do \notin {"index", "parent"}
    BY <1>3
  <2> QED BY <1>3, <1>4, <2>1, RestIsBare
<1>7. s \in Seq(Tasks) /\ Bare(s)
  BY <1>1, <1>5, FewBare
<1> HIDE DEF s
<1>8. b \in Seq(Tasks)
  BY <1>3, <1>7
<1>9. Bare(b)
  <2>1. b = s \o Tail(a)
    OBVIOUS
  <2> HIDE DEF b
  <2> QED BY <1>3, <1>6, <1>7, <2>1, ShiftBare
<1> HIDE DEF b
<1>10. \A i \in DOMAIN d : d[i] = r \/ (i \in DOMAIN b /\ d[i] = b[i])
  <2>1. d = b \o <<r>>
    BY <1>1
  <2> HIDE DEF d
  <2> QED BY <1>1, <1>8, <2>1
<1>11. Bare(d)
  <2> HIDE DEF d
  <2> QED BY <1>5, <1>9, <1>10 DEF Bare
<1> QED BY <1>1, <1>2, <1>11, BareSame

LEMMA TreeTree == ASSUME TreeInv, TypeInv', NEW x \in Thread, RevokeTree(x) PROVE TreeInv'
<1>0. TypeOK
  BY DEF TreeInv, TypeInv
<1>1. agenda[x] # <<>> /\ Task(x).do = "tree" /\ Task(x).id \in Token
  BY <1>0, TreeScript
<1>2. PICK s \in Seq(Tasks) :
        /\ Then(x, s)
        /\ \A i \in DOMAIN s : \/ s[i] = T("revoke", Task(x).id)
                               \/ \E n \in ChildrenOf(Task(x).id) : s[i] = T("tree", n)
  BY <1>0, TreeScript
<1>3. Bare(s)
  BY <1>2 DEF Bare, Kinds, T
<1>4. tokens' = tokens /\ parents' = parents /\ issued' = issued
  BY DEF RevokeTree, storageVars, boundVars
<1>5. Task(x).do \notin {"index", "parent"}
  BY <1>1
<1> QED BY <1>1, <1>2, <1>3, <1>4, <1>5, BareThen

LEMMA ByTokenTree == ASSUME TreeInv, TypeInv', NEW x \in Thread, RevokeByToken(x) PROVE TreeInv'
<1>0. TypeOK
  BY DEF TreeInv, TypeInv
<1>1. agenda[x] # <<>> /\ Task(x).do = "secrets" /\ Task(x).id \in Token
  BY <1>0, ByTokenScript
<1>2. PICK s \in Seq(Tasks) : Then(x, s) /\ SecretsGone(s, Task(x).id)
  BY <1>0, ByTokenScript
<1>3. Bare(s)
  <2>1. \A l, t : T("drop", l).do \notin Kinds /\ UntieTask(l, t).do \notin Kinds
                  /\ Enqueue(l, 0).do \notin Kinds
    BY DEF T, UntieTask, Enqueue, Kinds
  <2> QED BY <1>2, <2>1 DEF Bare, SecretsGone
<1>4. tokens' = tokens /\ parents' = parents /\ issued' = issued
  BY DEF RevokeByToken, storageVars, boundVars
<1>5. Task(x).do \notin {"index", "parent"}
  BY <1>1
<1> QED BY <1>1, <1>2, <1>3, <1>4, <1>5, BareThen

LEMMA CheckerTree ==
    ASSUME TreeInv, TypeInv', NEW e \in Manager, CheckerNext(e) \/ CheckerRevoke(e) \/ CheckerPop(e)
    PROVE  TreeInv'
<1>0. TypeOK /\ e \in Thread
  BY Numbers DEF TreeInv, TypeInv
<1>1. TreeFrame /\ tokens' = tokens /\ parents' = parents /\ issued' = issued
  BY DEF TreeFrame, CheckerNext, CheckerRevoke, CheckerPop, storageVars, boundVars
<1>2. CASE CheckerNext(e)
  <2>1. PICK l : /\ T("expire", l) \in Tasks /\ T("pop", l) \in Tasks
                 /\ \/ agenda'[e] = <<T("expire", l), T("pop", l)>>
                    \/ agenda'[e] = <<T("pop", l)>>
    BY <1>0, <1>2, NextScript
  <2>2. \A y \in Thread \ {e} : agenda'[y] = agenda[y]
    BY <1>0, <1>2, NextScript
  <2>3. T("expire", l).do \notin Kinds /\ T("pop", l).do \notin Kinds
    BY DEF T, Kinds
  <2>4. Bare(agenda'[e])
    BY <2>1, <2>3, FewBare
  <2> QED BY <1>0, <1>1, <2>2, <2>4, BareSame
<1>3. CASE CheckerRevoke(e)
  <2> DEFINE l == Task(e).id
             k == T("drop", l)
             m == T("tree", l)
             u == UntieTask(l, leases[l].token)
  <2>1. /\ agenda[e] # <<>> /\ Task(e).do = "expire" /\ k \in Tasks
        /\ \/ Then(e, <<>>)
           \/ m \in Tasks /\ Then(e, <<m, k>>)
           \/ u \in Tasks /\ Then(e, <<k, u>>)
    BY <1>0, <1>3, ExpireScript
  <2>2. k.do \notin Kinds /\ m.do \notin Kinds /\ u.do \notin Kinds
    BY DEF T, UntieTask, Kinds
  <2>3. Task(e).do \notin {"index", "parent"}
    BY <2>1
  <2> HIDE DEF k, m, u
  <2> QED BY <1>0, <1>1, <2>1, <2>2, <2>3, BareNone, BareTwo
<1>4. CASE CheckerPop(e)
  <2>1. agenda[e] # <<>> /\ Task(e).do = "pop" /\ Then(e, <<>>)
    BY <1>0, <1>4, PopScript
  <2>2. Task(e).do \notin {"index", "parent"}
    BY <2>1
  <2> QED BY <1>0, <1>1, <2>1, <2>2, BareNone
<1> QED BY <1>2, <1>3, <1>4

LEMMA StartBare ==
    ASSUME NEW c, NEW s, Started(c, s) PROVE Bare(s)
<1> DEFINE Quiet(k) == k.do \notin Kinds
<1>1. \A n : /\ Quiet(T("check", n)) /\ Quiet(T("token", n)) /\ Quiet(T("renew", n))
             /\ Quiet(T("tree", n)) /\ Quiet(T("revoke", n)) /\ Quiet(T("secret", n))
  BY DEF Kinds, T
<1>2. \A n, z : Quiet(CreateTask(n, z)) /\ Quiet(RevokeReply(n, z))
  BY DEF Kinds, CreateTask, RevokeReply
<1>3. ASSUME NEW k, NEW m, NEW r, Quiet(k), Quiet(m), Quiet(r)
      PROVE  /\ \A i \in DOMAIN <<k>> : Quiet(<<k>>[i])
             /\ \A i \in DOMAIN <<k, m>> : Quiet(<<k, m>>[i])
             /\ \A i \in DOMAIN <<k, m, r>> : Quiet(<<k, m, r>>[i])
  BY <1>3
<1> HIDE DEF Quiet
<1>4. CASE s = <<T("token", None)>>
  BY <1>1, <1>3, <1>4 DEF Bare, Quiet
<1>5. ASSUME NEW t \in held, NEW req \in TokenReq,
             \/ s = <<T("check", t), CreateTask(t, req)>>
             \/ s = <<T("check", t), CreateTask(t, req), T("token", t)>>
      PROVE  \A i \in DOMAIN s : Quiet(s[i])
  BY <1>1, <1>2, <1>3, <1>5
<1>6. ASSUME NEW t \in held, NEW u \in held,
             \/ s = <<T("check", t), T("renew", u), T("token", None)>>
             \/ s = <<T("check", t), T("tree", u), RevokeReply(u, Tree(u))>>
             \/ s = <<T("check", t), T("revoke", u)>>
             \/ s = <<T("check", t), T("secret", t)>>
      PROVE  \A i \in DOMAIN s : Quiet(s[i])
  BY <1>1, <1>2, <1>3, <1>6
<1>7. (\A i \in DOMAIN s : Quiet(s[i])) => Bare(s)
  BY DEF Bare, Quiet
<1> QED BY <1>4, <1>5, <1>6, <1>7 DEF Started

LEMMA RequestTree == ASSUME TreeInv, TypeInv', NEW c \in Client, Request(c) PROVE TreeInv'
<1>0. TypeOK /\ c \in Thread
  BY Numbers DEF TreeInv, TypeInv
<1>1. PICK s \in Seq(Tasks) : Started(c, s) /\ Call(c, s)
  BY <1>0, RequestScript
<1>2. /\ agenda'[c] = s /\ \A y \in Thread \ {c} : agenda'[y] = agenda[y]
      /\ UNCHANGED <<storageVars, status, managers, checkVars, now, boundVars, toldVars>>
  BY <1>0, <1>1, CallTasks
<1>3. tokens' = tokens /\ parents' = parents /\ issued' = issued
  BY <1>2 DEF storageVars, boundVars
<1>4. Bare(s)
  BY <1>0, <1>1, StartBare
<1> QED BY <1>0, <1>2, <1>3, <1>4, BareSame

LEMMA TreeSame ==
    ASSUME TreeInv, TypeInv', agenda' = agenda, TreeFrame PROVE TreeInv'
BY DEF TreeInv, TreeFrame, Shapes, NewClean, NotThere, PutAlone, PutOnce, UseFits, ParentLinked

LEMMA CrashTree == ASSUME TreeInv, TypeInv', Crash PROVE TreeInv'
<1>1. tokens' = tokens /\ parents' = parents /\ issued' = issued
  BY DEF Crash, storageVars, boundVars
<1>2. \A x \in Thread : agenda'[x] = <<>>
  BY DEF Crash
<1>3. \A do, n : ~Pending(agenda', do, n)
  BY <1>2 DEF Pending
<1>4. Shapes' /\ UseFits' /\ PutOnce'
  BY <1>2 DEF Shapes, PutPlaced, OnceFirst, UseFits, PutOnce
<1>5. NewClean' /\ NotThere' /\ PutAlone'
  BY <1>1, <1>3 DEF TreeInv, NewClean, NotThere, PutAlone
<1>6. ParentLinked'
  BY <1>1 DEF TreeInv, ParentLinked
<1> QED BY <1>4, <1>5, <1>6 DEF TreeInv

LEMMA FailTree == ASSUME TreeInv, TypeInv', NEW x \in Thread, Fail(x) PROVE TreeInv'
<1>1. Drop(x) /\ tokens' = tokens /\ parents' = parents /\ issued' = issued
  BY DEF Fail, Abort, storageVars, boundVars
<1> QED BY <1>1, BareDrop

LEMMA RevokeStepTree ==
    ASSUME TreeInv, TypeInv', NEW x \in Thread, RevokeStep(x) PROVE TreeInv'
BY TreeTree, RevokeTokenTree, UnlinkTree, ByTokenTree, ShortTree DEF RevokeStep

LEMMA RequestStepTree ==
    ASSUME TreeInv, TypeInv', UseKept, NEW c \in Client, RequestStep(c) PROVE TreeInv'
<1>0. c \in Thread
  BY Numbers
<1> QED BY <1>0, CheckTree, PutTree, CreateTree, ParentTree, LinkTree, PostRouteTree, RegisterTree,
           RenewTree, PersistTree, SecretTree, ShortTree, RevokeStepTree, AnswerTree
        DEF RequestStep

LEMMA CheckerStepTree ==
    ASSUME TreeInv, TypeInv', NEW e \in Manager, CheckerStep(e) PROVE TreeInv'
<1>0. e \in Thread
  BY Numbers
<1>1. CheckerLock(e) \/ CheckerUnlock(e) => agenda' = agenda /\ TreeFrame
  BY DEF CheckerLock, CheckerUnlock, TreeFrame, storageVars, boundVars
<1> QED BY <1>0, <1>1, TreeSame, CheckerTree, RevokeStepTree DEF CheckerStep

LEMMA TreeStep == TreeInv /\ [Next]_vars /\ [UseKept]_vars => TreeInv'
<1> SUFFICES ASSUME TreeInv, [Next]_vars, [UseKept]_vars PROVE TreeInv'
  OBVIOUS
<1>1. TypeInv'
  BY TypeStep DEF TreeInv
<1>2. CASE UNCHANGED vars
  <2>1. agenda' = agenda /\ TreeFrame
    BY <1>2 DEF vars, TreeFrame, storageVars, boundVars
  <2> QED BY <1>1, <2>1, TreeSame
<1>3. CASE Next /\ UseKept
  <2>1. ASSUME NEW c \in Client, Request(c) \/ RequestStep(c) PROVE TreeInv'
    BY <1>1, <1>3, <2>1, RequestTree, RequestStepTree
  <2>2. ASSUME NEW e \in Manager, CheckerStep(e) PROVE TreeInv'
    BY <1>1, <2>2, CheckerStepTree
  <2>3. ASSUME NEW x \in Thread, Fail(x) PROVE TreeInv'
    BY <1>1, <2>3, FailTree
  <2>4. CASE Seal \/ Open \/ Unseal \/ Tick
    <3>1. agenda' = agenda /\ TreeFrame
      BY <2>4 DEF Seal, Open, Unseal, Tick, TreeFrame, storageVars, boundVars
    <3> QED BY <1>1, <3>1, TreeSame
  <2>5. CASE Crash
    BY <1>1, <2>5, CrashTree
  <2> QED BY <1>3, <2>1, <2>2, <2>3, <2>4, <2>5 DEF Next
<1> QED BY <1>2, <1>3

LEMMA TreeInit == Init => TreeInv
<1> SUFFICES ASSUME Init PROVE TreeInv
  OBVIOUS
<1>1. TypeInv
  BY TypeInit
<1>2. \A x \in Thread : agenda[x] = <<>>
  BY DEF Init
<1>3. \A do, n : ~Pending(agenda, do, n)
  BY <1>2 DEF Pending
<1>4. Shapes /\ UseFits /\ PutOnce
  BY <1>2 DEF Shapes, PutPlaced, OnceFirst, UseFits, PutOnce
<1>5. NotThere /\ PutAlone
  BY <1>3 DEF NotThere, PutAlone
<1>6. \A n \in Token : tokens[n] # None => n = 1 /\ tokens[n].parent = None
  BY DEF Init, Root
<1>7. NewClean
  <2>1. issued = 1
    BY DEF Init
  <2>2. \A n \in Token : n > issued => n # 1
    BY <2>1
  <2> QED BY <1>3, <1>6, <2>2 DEF NewClean
<1>8. ParentLinked
  BY <1>6 DEF ParentLinked
<1> QED BY <1>1, <1>4, <1>5, <1>7, <1>8 DEF TreeInv

\* With any number of clients, checkers, errors, seals and crashes: every
\* stored token with a parent is linked to it, so that revoke_tree finds it.
\* The hypothesis is about use_token, which writes back what check_token read
\* before it: the token has not been revoked in between.
THEOREM TokensParentLinked == Spec /\ [][UseKept]_vars => []ParentLinked
<1>1. TreeInv => ParentLinked
  BY DEF TreeInv
<1> QED BY <1>1, TreeInit, TreeStep, PTL DEF Spec


-----------------------------------------------------------------------------
(* A token is not ended before the time its owner was told *)

\* Tasks on the lease of a token: the write that extends it, the new priority
\* and the answer.
Requeues(k) == k.do = "enqueue"
Tells(k) == k.do = "reply" /\ k.op # "revoke"
Extending(k, n) == k.id = n /\ (k.do \in {"renewal", "lease"} \/ Requeues(k) \/ Tells(k))

\* Two requests do not renew one token at the same time: from the write of its
\* lease to the answer.
Renewing(a, n) == \E i \in DOMAIN a : a[i].id = n /\ (Requeues(a[i]) \/ Tells(a[i]))
OneRenewal ==
    \A c, d \in Client, n \in Token : Renewing(agenda[c], n) /\ Renewing(agenda[d], n) => c = d

\* Tokens that have, had or are about to have a lease, and children.
Leased(n) ==
    \/ leases[n] # None \/ acked[n] # 0
    \/ \E x \in Thread : \E i \in DOMAIN agenda[x] : Extending(agenda[x][i], n)
Child(n) ==
    \/ \E p \in Token : <<p, n>> \in parents
    \/ \E x \in Thread : \E i \in DOMAIN agenda[x] : agenda[x][i].do = "index" /\ agenda[x][i].id = n
Unleased == {n \in Token : n <= issued /\ ~Leased(n)}

\* No token with a lease is a child: a checker ends it only for its own lease.
LeasedApart ==
    \A n \in Token : (Leased(n) \/ Child(n) => n <= issued) /\ ~(Leased(n) /\ Child(n))

\* The owner was told no more than the lease and the newest queue say.
ToldFits ==
    \A n \in Token :
        /\ acked[n] <= now + Ttl
        /\ leases[n] # None => acked[n] <= leases[n].expire
        /\ managers \in Manager => (queue[managers][n] = None \/ acked[n] <= queue[managers][n])

\* The agenda of a request: a new priority comes first, and it is not before what
\* the owner was told or is about to be.
RenewFits(a, i, ack, ls, q, t) ==
    LET n == a[i].id IN
    /\ Requeues(a[i]) => i = 1 /\ ack[n] <= a[i].priority
    /\ Tells(a[i]) =>
          /\ a[i].expire <= t + Ttl
          /\ ls[n] # None => a[i].expire <= ls[n].expire
          /\ IF Requeues(a[1]) /\ a[1].id = n THEN a[i].expire <= a[1].priority
             ELSE q[n] = None \/ a[i].expire <= q[n]
ClientFits(a, ack, ls, q, t) ==
    \A i \in DOMAIN a : a[i].id \in Token => RenewFits(a, i, ack, ls, q, t)

\* The agenda of a checker: what it ends has no lease, or was due.
DueIn(q, n, t) == q[n] # None /\ q[n] <= t
CheckerFits(a, q, t, F) ==
    \A i \in DOMAIN a :
        /\ a[i].do = "pop" => i = Len(a)
        /\ a[i].id \in Token =>
              /\ a[i].do = "expire" => DueIn(q, a[i].id, t)
              /\ a[i].do \in {"tree", "revoke"} => a[i].id \in F \/ DueIn(q, a[i].id, t)

OnTimeInv ==
    /\ TypeInv /\ ThreadsFit /\ LeasedApart /\ ToldFits
    /\ \A c \in Client : ClientFits(agenda[c], acked, leases, queue[managers], now)
    /\ \A e \in Manager : CheckerFits(agenda[e], queue[e], now, Unleased)

LEMMA CheckerStays ==
    ASSUME NEW a, NEW q, NEW q2, NEW t \in Nat, NEW t2 \in Nat, NEW F, NEW F2,
           CheckerFits(a, q, t, F), t <= t2, F \subseteq F2,
           \A n \in Token : q2[n] = q[n] /\ q[n] \in Nat \cup {None}
    PROVE  CheckerFits(a, q2, t2, F2)
<1>1. \A n \in Token : DueIn(q, n, t) => DueIn(q2, n, t2)
  BY DEF DueIn
<1> QED BY <1>1 DEF CheckerFits

\* What the agenda a has to do with did not change, or its lease was extended.
KeptFor(a, ack, ack2, ls, ls2, q, q2, t) ==
    \A n \in Token : Renewing(a, n) =>
        /\ ack2[n] = ack[n] /\ q2[n] \in {q[n], None}
        /\ ls2[n] \in {ls[n], None} \/ ls2[n].expire = t + Ttl

LEMMA ClientStays ==
    ASSUME NEW a \in Seq(Tasks), NEW ack, NEW ack2, NEW ls, NEW ls2, NEW q, NEW q2,
           NEW t \in Nat, NEW t2 \in Nat, ClientFits(a, ack, ls, q, t), t <= t2,
           KeptFor(a, ack, ack2, ls, ls2, q, q2, t)
    PROVE  ClientFits(a, ack2, ls2, q2, t2)
<1> SUFFICES ASSUME NEW i \in DOMAIN a, a[i].id \in Token PROVE RenewFits(a, i, ack2, ls2, q2, t2)
  BY DEF ClientFits
<1>1. RenewFits(a, i, ack, ls, q, t)
  BY DEF ClientFits
<1>2. a[i] \in Tasks
  OBVIOUS
<1> DEFINE n == a[i].id
<1>3. CASE Requeues(a[i])
  <2>1. ack2[n] = ack[n]
    BY <1>3 DEF Renewing, KeptFor
  <2>2. ~Tells(a[i])
    BY <1>3 DEF Tells, Requeues
  <2> QED BY <1>1, <1>3, <2>1, <2>2 DEF RenewFits
<1>4. CASE Tells(a[i])
  <2>1. /\ q2[n] \in {q[n], None}
        /\ ls2[n] \in {ls[n], None} \/ ls2[n].expire = t + Ttl
    BY <1>4 DEF Renewing, KeptFor
  <2>2. ~Requeues(a[i])
    BY <1>4 DEF Tells, Requeues
  <2>3. a[i].expire \in Nat
    BY <1>2, <1>4, TaskFields, Numbers DEF Tells
  <2>4. a[i].expire <= t + Ttl
    BY <1>1, <1>4 DEF RenewFits
  <2>5. a[i].expire <= t2 + Ttl
    BY <2>3, <2>4, BoundsAssumption
  <2>6. ls2[n] # None => a[i].expire <= ls2[n].expire
    BY <1>1, <1>4, <2>1, <2>4 DEF RenewFits
  <2>7. IF Requeues(a[1]) /\ a[1].id = n THEN a[i].expire <= a[1].priority
        ELSE q2[n] = None \/ a[i].expire <= q2[n]
    BY <1>1, <1>4, <2>1 DEF RenewFits
  <2> QED BY <2>2, <2>5, <2>6, <2>7 DEF RenewFits
<1>5. CASE ~Requeues(a[i]) /\ ~Tells(a[i])
  BY <1>1, <1>5 DEF RenewFits
<1> QED BY <1>3, <1>4, <1>5

\* A task that neither puts a token in the queue nor answers for it.
Plain(k) == k.id \in Token => ~Requeues(k) /\ ~Tells(k)

\* A thread goes on with such tasks.
LEMMA ShiftClient ==
    ASSUME NEW a \in Seq(Tasks), a # <<>>, NEW s \in Seq(Tasks), NEW b, b = s \o Tail(a),
           NEW ack, NEW ls, NEW q, NEW t, ClientFits(a, ack, ls, q, t),
           a[1].id \in Token => ~Requeues(a[1]), \A i \in DOMAIN s : Plain(s[i])
    PROVE  ClientFits(b, ack, ls, q, t)
<1>0. /\ \A i \in DOMAIN b : (i \in DOMAIN s /\ b[i] = s[i]) \/ \E j \in DOMAIN a : j > 1 /\ b[i] = a[j]
      /\ b \in Seq(Tasks) /\ DOMAIN b = 1 .. Len(b) /\ Len(b) \in Nat
  <2>1. \A i \in DOMAIN b : (i \in DOMAIN s /\ b[i] = s[i]) \/ \E j \in DOMAIN a : j > 1 /\ b[i] = a[j]
    BY ShiftBack
  <2>2. b \in Seq(Tasks)
    BY Shift
  <2>3. DOMAIN b = 1 .. Len(b) /\ Len(b) \in Nat
    BY <2>2, LenProperties
  <2> QED BY <2>1, <2>2, <2>3
<1>1. \A i \in DOMAIN b : b[i].id \in Token => ~Requeues(b[i])
  <2> SUFFICES ASSUME NEW i \in DOMAIN b, b[i].id \in Token, Requeues(b[i]) PROVE FALSE
    OBVIOUS
  <2>1. PICK j \in DOMAIN a : j > 1 /\ b[i] = a[j]
    BY <1>0 DEF Plain
  <2>2. RenewFits(a, j, ack, ls, q, t)
    BY <2>1 DEF ClientFits
  <2> QED BY <2>1, <2>2 DEF RenewFits
<1> SUFFICES ASSUME NEW i \in DOMAIN b, b[i].id \in Token PROVE RenewFits(b, i, ack, ls, q, t)
  BY DEF ClientFits
<1> DEFINE n == b[i].id
<1>2. CASE i \in DOMAIN s /\ b[i] = s[i]
  BY <1>1, <1>2 DEF RenewFits, Plain
<1>3. ASSUME NEW j \in DOMAIN a, j > 1, b[i] = a[j] PROVE RenewFits(b, i, ack, ls, q, t)
  <2>1. RenewFits(a, j, ack, ls, q, t)
    BY <1>3 DEF ClientFits
  <2>2. 1 \in DOMAIN b
    BY <1>0
  <2>3. ~(Requeues(b[1]) /\ b[1].id = n) /\ ~(Requeues(a[1]) /\ a[1].id = n)
    BY <1>1, <2>2
  <2>5. ~Requeues(b[i])
    BY <1>1
  <2>6. Tells(b[i]) => /\ b[i].expire <= t + Ttl
                       /\ ls[n] # None => b[i].expire <= ls[n].expire
                       /\ q[n] = None \/ b[i].expire <= q[n]
    BY <1>3, <2>1, <2>3 DEF RenewFits
  <2> QED BY <2>3, <2>5, <2>6 DEF RenewFits
<1> QED BY <1>0, <1>2, <1>3

\* What a checker may go on with.
CheckerTask(k, q, t, F) ==
    /\ k.do # "pop"
    /\ k.id \in Token => /\ k.do = "expire" => DueIn(q, k.id, t)
                         /\ k.do \in {"tree", "revoke"} => k.id \in F \/ DueIn(q, k.id, t)

LEMMA ShiftChecker ==
    ASSUME NEW a \in Seq(Tasks), a # <<>>, NEW s \in Seq(Tasks), NEW b, b = s \o Tail(a),
           NEW q, NEW t, NEW F, CheckerFits(a, q, t, F),
           \A i \in DOMAIN s : CheckerTask(s[i], q, t, F)
    PROVE  CheckerFits(b, q, t, F)
<1>0. /\ Len(a) \in Nat \ {0} /\ Len(s) \in Nat /\ Len(b) = Len(s) + Len(a) - 1
      /\ DOMAIN a = 1 .. Len(a) /\ DOMAIN b = 1 .. Len(b)
      /\ \A i \in DOMAIN b :
            \/ i \in DOMAIN s /\ b[i] = s[i]
            \/ /\ i > Len(s) /\ i - Len(s) + 1 \in DOMAIN a
               /\ b[i] = a[i - Len(s) + 1]
  BY Shift
<1> SUFFICES ASSUME NEW i \in DOMAIN b
             PROVE  /\ b[i].do = "pop" => i = Len(b)
                    /\ b[i].id \in Token =>
                          /\ b[i].do = "expire" => DueIn(q, b[i].id, t)
                          /\ b[i].do \in {"tree", "revoke"} => b[i].id \in F \/ DueIn(q, b[i].id, t)
  BY DEF CheckerFits
<1>1. CASE i \in DOMAIN s /\ b[i] = s[i]
  BY <1>1 DEF CheckerTask
<1>2. CASE i > Len(s) /\ i - Len(s) + 1 \in DOMAIN a /\ b[i] = a[i - Len(s) + 1]
  <2> DEFINE j == i - Len(s) + 1
  <2>1. j \in DOMAIN a /\ b[i] = a[j] /\ (j = Len(a) => i = Len(b))
    BY <1>0, <1>2
  <2> HIDE DEF j
  <2> QED BY <2>1 DEF CheckerFits
<1> QED BY <1>0, <1>1, <1>2

LinksIn(a, n) == \E i \in DOMAIN a : a[i].do = "index" /\ a[i].id = n

\* Which tokens have a lease and which are children, after a step of x.
LEMMA ApartTurn ==
    ASSUME OnTimeInv, TypeInv', NEW x \in Thread, \A y \in Thread \ {x} : agenda'[y] = agenda[y],
           issued <= issued',
           \A n \in Token : leases'[n] = None \/ leases'[n] = leases[n] \/ Leased(n),
           \A n \in Token : acked'[n] = acked[n] \/ Leased(n),
           \A n \in Token, p \in Token : <<p, n>> \in parents' => Child(n),
           \A n \in Token, i \in DOMAIN agenda'[x] : Extending(agenda'[x][i], n) =>
              \/ Leased(n)
              \/ n > issued /\ n <= issued' /\ ~LinksIn(agenda'[x], n),
           \A n \in Token, i \in DOMAIN agenda'[x] :
              agenda'[x][i].do = "index" /\ agenda'[x][i].id = n => Child(n) \/ (n > issued /\ n <= issued')
    PROVE  LeasedApart' /\ Unleased \subseteq Unleased'
<1>0. issued \in Nat /\ issued' \in Nat /\ Token \subseteq Nat
  <2>1. issued \in 1 .. MaxTokens /\ issued' \in 1 .. MaxTokens
    BY DEF OnTimeInv, TypeInv, TypeOK
  <2> QED BY <2>1, Numbers, BoundsAssumption
<1>1. ASSUME NEW n \in Token, Leased(n)'
      PROVE  \/ Leased(n)
             \/ n > issued /\ n <= issued' /\ ~LinksIn(agenda'[x], n)
  <2>1. CASE leases'[n] # None \/ acked'[n] # 0
    BY <2>1 DEF Leased
  <2>2. ASSUME NEW y \in Thread, NEW i \in DOMAIN agenda'[y], Extending(agenda'[y][i], n)
        PROVE  \/ Leased(n)
               \/ n > issued /\ n <= issued' /\ ~LinksIn(agenda'[x], n)
    <3>1. CASE y = x
      BY <2>2, <3>1
    <3>2. CASE y # x
      BY <2>2, <3>2 DEF Leased
    <3> QED BY <3>1, <3>2
  <2>3. \/ leases'[n] # None \/ acked'[n] # 0
        \/ \E y \in Thread : \E i \in DOMAIN agenda'[y] : Extending(agenda'[y][i], n)
    BY <1>1 DEF Leased, Extending, Requeues, Tells
  <2> QED BY <2>1, <2>2, <2>3
<1>2. ASSUME NEW n \in Token, Child(n)'
      PROVE  \/ Child(n)
             \/ n > issued /\ n <= issued' /\ LinksIn(agenda'[x], n)
  <2>1. CASE \E p \in Token : <<p, n>> \in parents'
    BY <2>1
  <2>2. ASSUME NEW y \in Thread, NEW i \in DOMAIN agenda'[y], agenda'[y][i].do = "index",
               agenda'[y][i].id = n
        PROVE  \/ Child(n)
               \/ n > issued /\ n <= issued' /\ LinksIn(agenda'[x], n)
    <3>1. CASE y = x
      BY <2>2, <3>1 DEF LinksIn
    <3>2. CASE y # x
      BY <2>2, <3>2 DEF Child
    <3> QED BY <3>1, <3>2
  <2>3. \/ \E p \in Token : <<p, n>> \in parents'
        \/ \E y \in Thread : \E i \in DOMAIN agenda'[y] :
              agenda'[y][i].do = "index" /\ agenda'[y][i].id = n
    BY <1>2 DEF Child
  <2> QED BY <2>1, <2>2, <2>3
<1>3. \A n \in Token : (Leased(n) \/ Child(n) => n <= issued) /\ ~(Leased(n) /\ Child(n))
  BY DEF OnTimeInv, LeasedApart
<1>4. ASSUME NEW n \in Token
      PROVE  (Leased(n)' \/ Child(n)' => n <= issued') /\ ~(Leased(n)' /\ Child(n)')
  <2>1. (Leased(n)' \/ Child(n)') => n <= issued'
    BY <1>0, <1>1, <1>2, <1>3
  <2>2. ASSUME Leased(n)', Child(n)' PROVE FALSE
    BY <1>0, <1>1, <1>2, <1>3, <2>2
  <2> QED BY <2>1, <2>2
<1>5. LeasedApart'
  BY <1>4 DEF LeasedApart
<1>6. ASSUME NEW n \in Unleased PROVE n \in Unleased'
  <2>1. n \in Token /\ n <= issued /\ ~Leased(n)
    BY DEF Unleased
  <2>2. n <= issued' /\ ~Leased(n)'
    BY <1>0, <1>1, <2>1
  <2> QED BY <2>1, <2>2 DEF Unleased
<1> QED BY <1>5, <1>6

LEMMA ShiftParts ==
    ASSUME NEW a \in Seq(Tasks), a # <<>>, NEW s \in Seq(Tasks), NEW b, b = s \o Tail(a)
    PROVE  \A i \in DOMAIN b : (i \in DOMAIN s /\ b[i] = s[i]) \/ \E j \in DOMAIN a : b[i] = a[j]
BY ShiftBack

LEMMA OnTimeTypes ==
    ASSUME OnTimeInv
    PROVE  /\ TypeOK /\ now \in Nat /\ managers \in 0 .. MaxManagers
           /\ agenda \in [Thread -> Seq(Tasks)]
           /\ \A n \in Token : acked[n] \in Nat
           /\ \A n \in Token : leases[n] # None => leases[n].expire \in Nat
           /\ \A e \in Manager, n \in Token : queue[e][n] \in Nat \cup {None}
<1>1. TypeOK
  BY DEF OnTimeInv, TypeInv
<1>2. ASSUME NEW n \in Token, leases[n] # None PROVE leases[n].expire \in Nat
  <2>1. leases[n] \in LeaseEntry
    BY <1>1, <1>2, Numbers DEF TypeOK
  <2> QED BY <2>1, Numbers DEF LeaseEntry
<1>3. \A n \in Token : acked[n] \in Nat
  BY <1>1, Numbers DEF TypeOK
<1>4. ASSUME NEW e \in Manager, NEW n \in Token PROVE queue[e][n] \in Nat \cup {None}
  <2>1. queue[e] \in [Lease -> Expiry \cup {None}]
    BY <1>1 DEF TypeOK
  <2>2. queue[e][n] \in Expiry \cup {None}
    BY <2>1, Numbers
  <2> QED BY <2>2, Numbers
<1>5. agenda \in [Thread -> Seq(Tasks)] /\ managers \in 0 .. MaxManagers
  BY <1>1 DEF TypeOK
<1> QED BY <1>1, <1>2, <1>3, <1>4, <1>5, ExpiryOK

\* A step of x that leaves the queues, the clock and what was told alone, and
\* may write or drop leases.
LEMMA LeaseTurn ==
    ASSUME OnTimeInv, TypeInv', ThreadsFit', NEW x \in Thread,
           \A y \in Thread \ {x} : agenda'[y] = agenda[y], issued <= issued',
           LeasedApart', Unleased \subseteq Unleased',
           acked' = acked, now' = now, managers' = managers,
           \A e \in Manager, n \in Token : queue'[e][n] = queue[e][n],
           \A n \in Token : leases'[n] \in {None, leases[n]} \/ leases'[n].expire = now + Ttl,
           x \in Client => ClientFits(agenda'[x], acked, leases', queue[managers], now),
           x \in Manager => CheckerFits(agenda'[x], queue[x], now, Unleased)
    PROVE  OnTimeInv'
<1>0. /\ TypeOK /\ now \in Nat /\ managers \in 0 .. MaxManagers
      /\ agenda \in [Thread -> Seq(Tasks)]
      /\ \A n \in Token : acked[n] \in Nat
      /\ \A n \in Token : leases[n] # None => leases[n].expire \in Nat
      /\ \A e \in Manager, n \in Token : queue[e][n] \in Nat \cup {None}
  BY OnTimeTypes
<1>1. ToldFits'
  <2>1. ToldFits
    BY DEF OnTimeInv
  <2>2. ASSUME NEW n \in Token, leases'[n] # None PROVE acked[n] <= leases'[n].expire
    BY <2>1, <2>2 DEF ToldFits
  <2> QED BY <2>1, <2>2 DEF ToldFits
<1>2. ASSUME NEW c \in Client PROVE ClientFits(agenda'[c], acked', leases', queue'[managers'], now')
  <2>1. c \in Thread /\ agenda[c] \in Seq(Tasks)
    BY <1>0, Numbers
  <2>2. managers \in Manager \/ agenda[c] = <<>>
    BY DEF OnTimeInv, ThreadsFit
  <2>3. managers' \in Manager \/ agenda'[c] = <<>>
    BY DEF ThreadsFit
  <2>4. CASE agenda'[c] = <<>>
    BY <2>4 DEF ClientFits
  <2>5. CASE managers \in Manager
    <3>1. \A n \in Token : queue'[managers][n] = queue[managers][n]
      BY <2>5
    <3>2. ASSUME NEW a \in Seq(Tasks), NEW ls, ClientFits(a, acked, ls, queue[managers], now),
                 \A n \in Token : leases'[n] \in {None, ls[n]} \/ leases'[n].expire = now + Ttl
          PROVE  ClientFits(a, acked, leases', queue'[managers], now)
      <4>1. KeptFor(a, acked, acked, ls, leases', queue[managers], queue'[managers], now)
        BY <3>1, <3>2 DEF KeptFor
      <4>2. now <= now
        BY <1>0
      <4> QED BY <1>0, <3>2, <4>1, <4>2, ClientStays
    <3>3. CASE c = x
      <4>1. agenda'[x] \in Seq(Tasks)
        BY DEF TypeInv, TypeOK
      <4>2. \A n \in Token : leases'[n] \in {None, leases'[n]} \/ leases'[n].expire = now + Ttl
        OBVIOUS
      <4> QED BY <3>2, <3>3, <4>1, <4>2
    <3>4. CASE c # x
      <4>1. ClientFits(agenda[c], acked, leases, queue[managers], now)
        BY DEF OnTimeInv
      <4>2. agenda'[c] = agenda[c]
        BY <2>1, <3>4
      <4> QED BY <2>1, <3>2, <4>1, <4>2
    <3> QED BY <3>3, <3>4
  <2> QED BY <2>3, <2>4, <2>5
<1>3. ASSUME NEW e \in Manager PROVE CheckerFits(agenda'[e], queue'[e], now', Unleased')
  <2>1. CheckerFits(agenda'[e], queue[e], now, Unleased)
    BY Numbers DEF OnTimeInv
  <2> QED BY <1>0, <2>1, CheckerStays
<1> QED BY <1>1, <1>2, <1>3 DEF OnTimeInv

\* What a thread may go on with when the step is of no interest here.
CalmTask(k, x) ==
    /\ k.do \notin {"pop", "index", "expire"} /\ \A n \in Token : ~Extending(k, n)
    /\ x \in Manager /\ k.do \in {"tree", "revoke"} => k.id \in Unleased \/ DueIn(queue[x], k.id, now)

\* A step that has to do with no lease of a token.
CalmFrame ==
    /\ \A n \in Token : leases'[n] \in {None, leases[n]}
    /\ \A n \in Token, p \in Token : <<p, n>> \in parents' => Child(n)
    /\ issued <= issued' /\ acked' = acked /\ now' = now /\ managers' = managers /\ status' = status
    /\ \A e \in Manager, n \in Token : queue'[e][n] = queue[e][n]

\* From an agenda whose tasks are old or calm, no new lease and no new child.
LEMMA CalmApart ==
    ASSUME OnTimeInv, TypeInv', NEW x \in Thread, \A y \in Thread \ {x} : agenda'[y] = agenda[y],
           CalmFrame,
           \A i \in DOMAIN agenda'[x] : \/ CalmTask(agenda'[x][i], x)
                                        \/ \E j \in DOMAIN agenda[x] : agenda'[x][i] = agenda[x][j]
    PROVE  LeasedApart' /\ Unleased \subseteq Unleased'
<1>1. ASSUME NEW n \in Token, NEW i \in DOMAIN agenda'[x], Extending(agenda'[x][i], n) PROVE Leased(n)
  <2>1. ~CalmTask(agenda'[x][i], x)
    BY <1>1 DEF CalmTask
  <2> QED BY <1>1, <2>1 DEF Leased
<1>2. ASSUME NEW n \in Token, NEW i \in DOMAIN agenda'[x], agenda'[x][i].do = "index",
             agenda'[x][i].id = n
      PROVE  Child(n)
  <2>1. ~CalmTask(agenda'[x][i], x)
    BY <1>2 DEF CalmTask
  <2> QED BY <1>2, <2>1 DEF Child
<1>3. issued <= issued'
  BY DEF CalmFrame
<1>4. \A n \in Token : leases'[n] = None \/ leases'[n] = leases[n] \/ Leased(n)
  BY DEF CalmFrame
<1>5. \A n \in Token : acked'[n] = acked[n] \/ Leased(n)
  BY DEF CalmFrame
<1>6. \A n \in Token, p \in Token : <<p, n>> \in parents' => Child(n)
  BY DEF CalmFrame
<1> QED BY <1>1, <1>2, <1>3, <1>4, <1>5, <1>6, ApartTurn

LEMMA CalmThen ==
    ASSUME OnTimeInv, TypeInv', NEW x \in Thread, agenda[x] # <<>>, NEW s \in Seq(Tasks), Then(x, s),
           x \in Client /\ Task(x).id \in Token => ~Requeues(Task(x)),
           \A i \in DOMAIN s : CalmTask(s[i], x), CalmFrame, looping' = looping
    PROVE  OnTimeInv'
<1>0. /\ TypeOK /\ agenda \in [Thread -> Seq(Tasks)] /\ now \in Nat
      /\ \A n \in Token : acked[n] \in Nat
  BY OnTimeTypes
<1>1. /\ agenda'[x] = s \o Tail(agenda[x]) /\ \A y \in Thread \ {x} : agenda'[y] = agenda[y]
      /\ agenda[x][1] = Task(x) /\ agenda[x] \in Seq(Tasks)
  BY <1>0, ThenAgenda, HeadTask
<1>2. \A i \in DOMAIN agenda'[x] : \/ CalmTask(agenda'[x][i], x)
                                   \/ \E j \in DOMAIN agenda[x] : agenda'[x][i] = agenda[x][j]
  <2>1. \A i \in DOMAIN agenda'[x] :
           \/ i \in DOMAIN s /\ agenda'[x][i] = s[i]
           \/ \E j \in DOMAIN agenda[x] : agenda'[x][i] = agenda[x][j]
    BY <1>1, ShiftParts
  <2> QED BY <2>1
<1>3. LeasedApart' /\ Unleased \subseteq Unleased'
  BY <1>1, <1>2, CalmApart
<1>4. ThreadsFit'
  <2>1. /\ \A y \in Thread : agenda'[y] # <<>> => agenda[y] # <<>>
        /\ status' = status /\ managers' = managers
    BY <1>1 DEF CalmFrame
  <2> QED BY <2>1, Numbers DEF OnTimeInv, ThreadsFit
<1>5. ASSUME x \in Client PROVE ClientFits(agenda'[x], acked, leases', queue[managers], now)
  <2>1. ClientFits(agenda[x], acked, leases, queue[managers], now)
    BY <1>5 DEF OnTimeInv
  <2>2. \A i \in DOMAIN s : Plain(s[i])
    BY DEF CalmTask, Extending, Plain
  <2>3. ClientFits(agenda'[x], acked, leases, queue[managers], now)
    BY <1>1, <1>5, <2>1, <2>2, ShiftClient
  <2>4. agenda'[x] \in Seq(Tasks)
    BY DEF TypeInv, TypeOK
  <2>5. \A n \in Token : leases'[n] \in {leases[n], None}
    BY DEF CalmFrame
  <2>6. KeptFor(agenda'[x], acked, acked, leases, leases', queue[managers], queue[managers], now)
    BY <2>5 DEF KeptFor
  <2>7. now <= now
    BY <1>0
  <2> QED BY <1>0, <2>3, <2>4, <2>6, <2>7, ClientStays
<1>6. ASSUME x \in Manager PROVE CheckerFits(agenda'[x], queue[x], now, Unleased)
  <2>1. CheckerFits(agenda[x], queue[x], now, Unleased)
    BY <1>6 DEF OnTimeInv
  <2>2. \A i \in DOMAIN s : CheckerTask(s[i], queue[x], now, Unleased)
    BY <1>6 DEF CalmTask, CheckerTask
  <2> QED BY <1>1, <2>1, <2>2, ShiftChecker
<1>7. \A n \in Token : leases'[n] \in {None, leases[n]} \/ leases'[n].expire = now + Ttl
  BY DEF CalmFrame
<1>8. /\ issued <= issued' /\ acked' = acked /\ now' = now /\ managers' = managers
      /\ \A e \in Manager, n \in Token : queue'[e][n] = queue[e][n]
  BY DEF CalmFrame
<1> QED BY <1>1, <1>3, <1>4, <1>5, <1>6, <1>7, <1>8, LeaseTurn

\* A request or the turn of a checker ends.
LEMMA CalmDrop ==
    ASSUME OnTimeInv, TypeInv', NEW x \in Thread, Drop(x), CalmFrame, looping \subseteq looping' \cup {x}
    PROVE  OnTimeInv'
<1>0. TypeOK /\ agenda \in [Thread -> Seq(Tasks)]
  BY OnTimeTypes
<1>1. agenda'[x] = <<>> /\ \A y \in Thread \ {x} : agenda'[y] = agenda[y]
  BY <1>0, DropAgenda
<1>2. LeasedApart' /\ Unleased \subseteq Unleased'
  BY <1>1, CalmApart
<1>3. ThreadsFit'
  <2>1. status' = status /\ managers' = managers
    BY DEF CalmFrame
  <2> QED BY <1>1, <2>1, Numbers DEF OnTimeInv, ThreadsFit
<1>4. /\ ClientFits(agenda'[x], acked, leases', queue[managers], now)
      /\ CheckerFits(agenda'[x], queue[x], now, Unleased)
  BY <1>1 DEF ClientFits, CheckerFits
<1>5. \A n \in Token : leases'[n] \in {None, leases[n]} \/ leases'[n].expire = now + Ttl
  BY DEF CalmFrame
<1>6. /\ issued <= issued' /\ acked' = acked /\ now' = now /\ managers' = managers
      /\ \A e \in Manager, n \in Token : queue'[e][n] = queue[e][n]
  BY DEF CalmFrame
<1> QED BY <1>1, <1>2, <1>3, <1>4, <1>5, <1>6, LeaseTurn

LEMMA CalmKinds ==
    ASSUME NEW x, NEW k, k.do \notin {"pop", "index", "expire", "renewal", "lease", "enqueue", "reply"},
           x \in Client \/ k.do \notin {"tree", "revoke"}
    PROVE  CalmTask(k, x)
BY Numbers DEF CalmTask, Extending, Requeues, Tells

LEMMA CalmSecret ==
    ASSUME NEW x, NEW l \in SecretLease, NEW p PROVE CalmTask(Enqueue(l, p), x)
BY Numbers DEF CalmTask, Extending, Requeues, Tells, Enqueue

LEMMA CalmStill ==
    ASSUME OnTimeInv, UNCHANGED <<leases, parents, issued, acked, now, managers, status, queue>>
    PROVE  CalmFrame
<1>1. issued <= issued'
  <2>1. issued \in 1 .. MaxTokens
    BY DEF OnTimeInv, TypeInv, TypeOK
  <2> QED BY <2>1, BoundsAssumption
<1>2. \A n \in Token, p \in Token : <<p, n>> \in parents' => Child(n)
  BY DEF Child
<1> QED BY <1>1, <1>2 DEF CalmFrame

LEMMA FewCalm ==
    ASSUME NEW x
    PROVE  /\ \A i \in DOMAIN <<>> : CalmTask(<<>>[i], x)
           /\ \A k : CalmTask(k, x) => \A i \in DOMAIN <<k>> : CalmTask(<<k>>[i], x)
           /\ \A k, m : CalmTask(k, x) /\ CalmTask(m, x) => \A i \in DOMAIN <<k, m>> : CalmTask(<<k, m>>[i], x)
           /\ \A k, m, r : CalmTask(k, x) /\ CalmTask(m, x) /\ CalmTask(r, x) =>
                 \A i \in DOMAIN <<k, m, r>> : CalmTask(<<k, m, r>>[i], x)
OBVIOUS

LEMMA CalmNone ==
    ASSUME OnTimeInv, TypeInv', NEW x \in Thread, agenda[x] # <<>>, Then(x, <<>>),
           x \in Client /\ Task(x).id \in Token => ~Requeues(Task(x)), CalmFrame, looping' = looping
    PROVE  OnTimeInv'
<1> DEFINE s == <<>>
<1>1. s \in Seq(Tasks) /\ \A i \in DOMAIN s : CalmTask(s[i], x)
  OBVIOUS
<1>2. Then(x, s)
  OBVIOUS
<1> HIDE DEF s
<1> QED BY <1>1, <1>2, CalmThen

LEMMA CalmOne ==
    ASSUME OnTimeInv, TypeInv', NEW x \in Thread, agenda[x] # <<>>, NEW k \in Tasks, Then(x, <<k>>),
           x \in Client /\ Task(x).id \in Token => ~Requeues(Task(x)), CalmTask(k, x), CalmFrame,
           looping' = looping
    PROVE  OnTimeInv'
<1> DEFINE s == <<k>>
<1>1. s \in Seq(Tasks) /\ \A i \in DOMAIN s : CalmTask(s[i], x)
  OBVIOUS
<1>2. Then(x, s)
  OBVIOUS
<1> HIDE DEF s
<1> QED BY <1>1, <1>2, CalmThen

LEMMA CalmTwo ==
    ASSUME OnTimeInv, TypeInv', NEW x \in Thread, agenda[x] # <<>>, NEW k \in Tasks, NEW m \in Tasks,
           Then(x, <<k, m>>), x \in Client /\ Task(x).id \in Token => ~Requeues(Task(x)),
           CalmTask(k, x), CalmTask(m, x), CalmFrame, looping' = looping
    PROVE  OnTimeInv'
<1> DEFINE s == <<k, m>>
<1>1. s \in Seq(Tasks) /\ \A i \in DOMAIN s : CalmTask(s[i], x)
  OBVIOUS
<1>2. Then(x, s)
  OBVIOUS
<1> HIDE DEF s
<1> QED BY <1>1, <1>2, CalmThen

LEMMA CheckOnTime == ASSUME OnTimeInv, TypeInv', NEW x \in Client, Check(x) PROVE OnTimeInv'
<1>0. TypeOK /\ x \in Thread
  BY Numbers, OnTimeTypes
<1>1. agenda[x] # <<>> /\ Task(x).do = "check" /\ Task(x).id \in Token
  BY <1>0, CheckScript
<1>2. CalmFrame /\ looping' = looping /\ ~Requeues(Task(x))
  <2>1. UNCHANGED <<leases, parents, issued, acked, now, managers, status, queue, looping>>
    BY DEF Check, storageVars, checkVars, boundVars, toldVars
  <2> QED BY <1>1, <2>1, CalmStill DEF Requeues
<1> DEFINE t == Task(x).id
           r == T("revoke", t)
           u == UseTask(t, tokens[t])
<1>3. CASE Drop(x)
  BY <1>0, <1>2, <1>3, CalmDrop
<1>4. CASE Then(x, <<>>)
  BY <1>0, <1>1, <1>2, <1>4, CalmNone
<1>5. CASE Then(x, <<r>>)
  <2>1. r \in Tasks /\ r.do = "revoke"
    BY <1>1, TaskMade DEF OnToken
  <2>2. CalmTask(r, x)
    BY <2>1, CalmKinds
  <2> HIDE DEF r
  <2> QED BY <1>0, <1>1, <1>2, <1>5, <2>1, <2>2, CalmOne
<1>6. CASE tokens[t] # None /\ tokens[t].num_uses \in Nat \ {0, 1} /\ Then(x, <<u>>)
  <2>1. u \in Tasks /\ u.do = "use"
    <3>0. tokens[t] \in TokenEntry
      BY <1>0, <1>1, <1>6 DEF TypeOK
    <3>1. u \in Tasks
      BY <1>1, <1>6, <3>0, UseTyped
    <3> QED BY <3>1 DEF UseTask
  <2>2. CalmTask(u, x)
    BY <2>1, CalmKinds
  <2> HIDE DEF u
  <2> QED BY <1>0, <1>1, <1>2, <1>6, <2>1, <2>2, CalmOne
<1> QED BY <1>0, <1>3, <1>4, <1>5, <1>6, CheckScript

LEMMA ShortOnTime ==
    ASSUME OnTimeInv, TypeInv', NEW x \in Thread,
           Put(x) \/ CreateParent(x) \/ CreateIndexByToken(x) \/ RemoveIndexByToken(x)
    PROVE  OnTimeInv'
<1>0. TypeOK
  BY OnTimeTypes
<1>1. CalmFrame /\ looping' = looping
  <2>1. UNCHANGED <<leases, parents, issued, acked, now, managers, status, queue, looping>>
    BY DEF Put, CreateParent, CreateIndexByToken, RemoveIndexByToken, storageVars, checkVars,
           boundVars, toldVars
  <2> QED BY <2>1, CalmStill
<1>2. /\ agenda[x] # <<>> /\ Task(x).do \in {"use", "put", "parent", "tie", "unindex"}
      /\ Drop(x) \/ Then(x, <<>>)
  BY <1>0, PutScript, ParentScript, TieScript, UntieScript
<1>3. ~Requeues(Task(x))
  BY <1>2 DEF Requeues
<1> QED BY <1>1, <1>2, <1>3, CalmNone, CalmDrop

LEMMA LinkOnTime ==
    ASSUME OnTimeInv, TypeInv', NEW x \in Thread, CreateIndex(x) \/ RevokeParent(x) PROVE OnTimeInv'
<1>0. TypeOK
  BY OnTimeTypes
<1>1. /\ agenda[x] # <<>> /\ Task(x).do \in {"index", "unparent"} /\ Then(x, <<>>)
      /\ Task(x).id \in Token
  BY <1>0, LinkScript, UnlinkScript
<1>2. /\ UNCHANGED <<leases, issued, acked, now, managers, status, queue, looping>>
      /\ \A n, p : <<p, n>> \in parents' => <<p, n>> \in parents \/ (Task(x).do = "index" /\ n = Task(x).id)
  <2>1. CASE CreateIndex(x)
    <3>1. Task(x).do = "index"
      BY <1>0, <2>1, LinkScript
    <3> QED BY <2>1, <3>1 DEF CreateIndex, checkVars, boundVars, toldVars
  <2>2. CASE RevokeParent(x)
    BY <2>2 DEF RevokeParent, checkVars, boundVars, toldVars
  <2> QED BY <2>1, <2>2
<1>3. \A n \in Token, p \in Token : <<p, n>> \in parents' => Child(n)
  <2>1. 1 \in DOMAIN agenda[x] /\ agenda[x][1] = Task(x)
    BY <1>0, <1>1, HeadTask DEF TypeOK
  <2> QED BY <1>2, <2>1 DEF Child
<1>4. CalmFrame
  <2>1. issued <= issued'
    <3>1. issued \in 1 .. MaxTokens
      BY <1>0 DEF TypeOK
    <3> QED BY <1>2, <3>1, BoundsAssumption
  <2> QED BY <1>2, <1>3, <2>1 DEF CalmFrame
<1>5. ~Requeues(Task(x))
  BY <1>1 DEF Requeues
<1> QED BY <1>1, <1>2, <1>4, <1>5, CalmNone

LEMMA RevokeOnTime == ASSUME OnTimeInv, TypeInv', NEW x \in Thread, Revoke(x) PROVE OnTimeInv'
<1>0. TypeOK
  BY OnTimeTypes
<1>1. /\ agenda[x] # <<>> /\ Task(x).do = "revoke" /\ Task(x).id \in Token
      /\ T("secrets", Task(x).id) \in Tasks
  BY <1>0, RevokeScript
<1>2. CalmFrame /\ looping' = looping /\ ~Requeues(Task(x))
  <2>1. UNCHANGED <<leases, parents, issued, acked, now, managers, status, queue, looping>>
    BY DEF Revoke, checkVars, boundVars, toldVars
  <2> QED BY <1>1, <2>1, CalmStill DEF Requeues
<1> DEFINE t == Task(x).id
           g == T("secrets", t)
           u == UnlinkTask(t, tokens[t].parent)
<1>3. g.do = "secrets" /\ u.do = "unparent"
  BY DEF T, UnlinkTask
<1>4. CalmTask(g, x) /\ CalmTask(u, x)
  <2> HIDE DEF g, u
  <2> QED BY <1>3, CalmKinds
<1>5. \/ Then(x, <<>>)
      \/ Then(x, <<g>>)
      \/ u \in Tasks /\ Then(x, <<u, g>>)
  BY <1>0, RevokeScript
<1>6. g \in Tasks
  BY <1>1
<1> HIDE DEF g, u
<1> QED BY <1>1, <1>2, <1>4, <1>5, <1>6, CalmNone, CalmOne, CalmTwo

LEMMA TreeOnTime == ASSUME OnTimeInv, TypeInv', NEW x \in Thread, RevokeTree(x) PROVE OnTimeInv'
<1>0. TypeOK
  BY OnTimeTypes
<1>1. agenda[x] # <<>> /\ Task(x).do = "tree" /\ Task(x).id \in Token
  BY <1>0, TreeScript
<1> DEFINE t == Task(x).id
<1>2. PICK s \in Seq(Tasks) :
         /\ Then(x, s)
         /\ \A i \in DOMAIN s : s[i] = T("revoke", t) \/ \E n \in ChildrenOf(t) : s[i] = T("tree", n)
  BY <1>0, TreeScript
<1>3. CalmFrame /\ looping' = looping /\ ~Requeues(Task(x))
  <2>1. UNCHANGED <<leases, parents, issued, acked, now, managers, status, queue, looping>>
    BY DEF RevokeTree, storageVars, checkVars, boundVars, toldVars
  <2> QED BY <1>1, <2>1, CalmStill DEF Requeues
<1>4. \A n, do : T(do, n).do = do /\ T(do, n).id = n
  BY DEF T
<1>5. ASSUME x \in Manager PROVE t \in Unleased \/ DueIn(queue[x], t, now)
  <2>1. CheckerFits(agenda[x], queue[x], now, Unleased)
    BY <1>5 DEF OnTimeInv
  <2>2. 1 \in DOMAIN agenda[x] /\ agenda[x][1] = Task(x)
    BY <1>0, <1>1, HeadTask DEF TypeOK
  <2> QED BY <1>1, <2>1, <2>2 DEF CheckerFits
<1>6. ASSUME NEW n \in ChildrenOf(t) PROVE n \in Unleased
  <2>1. n \in Token /\ Child(n)
    BY <1>1 DEF ChildrenOf, Child
  <2>2. ~Leased(n) /\ n <= issued
    BY <2>1 DEF OnTimeInv, LeasedApart
  <2> QED BY <2>1, <2>2 DEF Unleased
<1>7. ASSUME NEW i \in DOMAIN s PROVE CalmTask(s[i], x)
  <2>1. s[i].do \in {"tree", "revoke"} /\ s[i].id \in {t} \cup ChildrenOf(t)
    BY <1>2, <1>4
  <2>2. \A n \in Token : ~Extending(s[i], n)
    BY <2>1 DEF Extending, Requeues, Tells
  <2>3. x \in Manager => s[i].id \in Unleased \/ DueIn(queue[x], s[i].id, now)
    BY <1>5, <1>6, <2>1
  <2> QED BY <2>1, <2>2, <2>3 DEF CalmTask
<1> QED BY <1>1, <1>2, <1>3, <1>7, CalmThen

LEMMA ByTokenOnTime == ASSUME OnTimeInv, TypeInv', NEW x \in Thread, RevokeByToken(x) PROVE OnTimeInv'
<1>0. TypeOK
  BY OnTimeTypes
<1>1. agenda[x] # <<>> /\ Task(x).do = "secrets" /\ Task(x).id \in Token
  BY <1>0, ByTokenScript
<1>2. PICK s \in Seq(Tasks) : Then(x, s) /\ SecretsGone(s, Task(x).id)
  BY <1>0, ByTokenScript
<1>3. CalmFrame /\ looping' = looping /\ ~Requeues(Task(x))
  <2>1. UNCHANGED <<leases, parents, issued, acked, now, managers, status, queue, looping>>
    BY DEF RevokeByToken, storageVars, checkVars, boundVars, toldVars
  <2> QED BY <1>1, <2>1, CalmStill DEF Requeues
<1>4. ASSUME NEW i \in DOMAIN s PROVE CalmTask(s[i], x)
  <2>1. PICK l \in SecretLease : \/ s[i] = T("drop", l)
                                 \/ s[i] = UntieTask(l, Task(x).id)
                                 \/ s[i] = Enqueue(l, 0)
    BY <1>2 DEF SecretsGone
  <2>2. T("drop", l).do = "drop" /\ UntieTask(l, Task(x).id).do = "unindex"
    BY DEF T, UntieTask
  <2>3. s[i].do \in {"drop", "unindex"} \/ s[i] = Enqueue(l, 0)
    BY <2>1, <2>2
  <2> QED BY <2>3, CalmKinds, CalmSecret
<1> QED BY <1>1, <1>2, <1>3, <1>4, CalmThen

LEMMA DeleteOnTime == ASSUME OnTimeInv, TypeInv', NEW x \in Thread, DeleteLeaseEntry(x) PROVE OnTimeInv'
<1>0. TypeOK
  BY OnTimeTypes
<1>1. /\ agenda[x] # <<>> /\ Task(x).do = "drop" /\ Task(x).id \in Lease
      /\ leases' = [leases EXCEPT ![Task(x).id] = None] /\ Then(x, <<>>)
  BY <1>0, DeleteScript
<1>2. UNCHANGED <<parents, issued, acked, now, managers, status, queue, looping>>
  BY DEF DeleteLeaseEntry, checkVars, boundVars, toldVars
<1>3. \A n \in Token : leases'[n] \in {None, leases[n]}
  <2>1. DOMAIN leases = Lease
    BY <1>0 DEF TypeOK
  <2> QED BY <1>1, <2>1, Numbers
<1>4. CalmFrame
  <2>1. issued <= issued'
    <3>1. issued \in 1 .. MaxTokens
      BY <1>0 DEF TypeOK
    <3> QED BY <1>2, <3>1, BoundsAssumption
  <2>2. \A n \in Token, p \in Token : <<p, n>> \in parents' => Child(n)
    BY <1>2 DEF Child
  <2> QED BY <1>2, <1>3, <2>1, <2>2 DEF CalmFrame
<1>5. ~Requeues(Task(x))
  BY <1>1 DEF Requeues
<1> QED BY <1>1, <1>2, <1>4, <1>5, CalmNone

LEMMA FailOnTime == ASSUME OnTimeInv, TypeInv', NEW x \in Thread, Fail(x) PROVE OnTimeInv'
<1>1. UNCHANGED <<leases, parents, issued, acked, now, managers, status, queue>>
  BY DEF Fail, storageVars, boundVars, toldVars
<1>2. Drop(x) /\ looping \subseteq looping' \cup {x}
  BY DEF Fail, Abort
<1> QED BY <1>1, <1>2, CalmStill, CalmDrop

LEMMA SecretOnTime == ASSUME OnTimeInv, TypeInv', NEW x \in Thread, RegisterSecret(x) PROVE OnTimeInv'
<1>0. TypeOK
  BY OnTimeTypes
<1>1. /\ agenda[x] # <<>> /\ Task(x).do = "secret" /\ Task(x).id \in Token
      /\ NextSecret \in SecretLease
      /\ leases' = [leases EXCEPT ![NextSecret] = SecretLeaseOf(Task(x).id)]
      /\ Then(x, <<TieTask(NextSecret, Task(x).id), Enqueue(NextSecret, now + SecretTtl)>>)
  BY <1>0, SecretScript
<1>2. UNCHANGED <<parents, issued, acked, now, managers, status, queue, looping>>
  BY DEF RegisterSecret, checkVars, toldVars
<1>3. \A n \in Token : leases'[n] = leases[n]
  <2>1. DOMAIN leases = Lease
    BY <1>0 DEF TypeOK
  <2> QED BY <1>1, <2>1, Numbers
<1>4. CalmFrame
  <2>1. issued <= issued'
    <3>1. issued \in 1 .. MaxTokens
      BY <1>0 DEF TypeOK
    <3> QED BY <1>2, <3>1, BoundsAssumption
  <2>2. \A n \in Token, p \in Token : <<p, n>> \in parents' => Child(n)
    BY <1>2 DEF Child
  <2> QED BY <1>2, <1>3, <2>1, <2>2 DEF CalmFrame
<1>5. ~Requeues(Task(x))
  BY <1>1 DEF Requeues
<1> DEFINE k == TieTask(NextSecret, Task(x).id)
           m == Enqueue(NextSecret, now + SecretTtl)
<1>6. k \in Tasks /\ m \in Tasks
  BY <1>0, <1>1, TaskMade, ExpiryOK, Numbers DEF TieTask
<1>7. CalmTask(k, x) /\ CalmTask(m, x)
  <2>1. k.do = "tie"
    BY DEF TieTask
  <2>2. CalmTask(k, x)
    <3> HIDE DEF k
    <3> QED BY <2>1, CalmKinds
  <2> QED BY <1>1, <2>2, CalmSecret
<1> HIDE DEF k, m
<1> QED BY <1>1, <1>2, <1>4, <1>5, <1>6, <1>7, CalmTwo DEF k, m

LEMMA ExpireOnTime == ASSUME OnTimeInv, TypeInv', NEW e \in Manager, CheckerRevoke(e) PROVE OnTimeInv'
<1>0. TypeOK /\ e \in Thread /\ e \notin Client
  BY OnTimeTypes, Numbers
<1> DEFINE l == Task(e).id
           d == T("drop", l)
           r == T("tree", l)
           u == UntieTask(l, leases[l].token)
<1>1. agenda[e] # <<>> /\ Task(e).do = "expire" /\ l \in Lease /\ d \in Tasks
  BY <1>0, ExpireScript
<1>2. CalmFrame /\ looping' = looping
  <2>1. UNCHANGED <<leases, parents, issued, acked, now, managers, status, queue, looping>>
    BY DEF CheckerRevoke, storageVars, checkVars, boundVars, toldVars
  <2> QED BY <2>1, CalmStill
<1>3. d.do = "drop" /\ r.do = "tree" /\ r.id = l /\ u.do = "unindex"
  BY DEF T, UntieTask
<1>4. CalmTask(d, e) /\ CalmTask(u, e)
  <2> HIDE DEF d, u
  <2> QED BY <1>3, CalmKinds
<1>5. ASSUME l \in Token PROVE CalmTask(r, e)
  <2>1. CheckerFits(agenda[e], queue[e], now, Unleased)
    BY DEF OnTimeInv
  <2>2. 1 \in DOMAIN agenda[e] /\ agenda[e][1] = Task(e)
    BY <1>0, <1>1, HeadTask DEF TypeOK
  <2>3. DueIn(queue[e], l, now)
    BY <1>1, <1>5, <2>1, <2>2 DEF CheckerFits
  <2> QED BY <1>3, <2>3 DEF CalmTask, Extending, Requeues, Tells
<1>6. \/ Then(e, <<>>)
      \/ l \in Token /\ r \in Tasks /\ Then(e, <<r, d>>)
      \/ u \in Tasks /\ Then(e, <<d, u>>)
  BY <1>0, ExpireScript
<1> HIDE DEF d, r, u, l
<1> QED BY <1>0, <1>1, <1>2, <1>4, <1>5, <1>6, CalmNone, CalmTwo

\* The tasks of a request when it comes in.
LEMMA RequestOnTime == ASSUME OnTimeInv, TypeInv', NEW c \in Client, Request(c) PROVE OnTimeInv'
<1>0. TypeOK /\ c \in Thread /\ c \notin Manager
  BY OnTimeTypes, Numbers
<1>1. PICK s \in Seq(Tasks) : Started(c, s) /\ Call(c, s)
  BY <1>0, RequestScript
<1>2. /\ status = "ready" /\ agenda'[c] = s /\ \A y \in Thread \ {c} : agenda'[y] = agenda[y]
      /\ UNCHANGED <<storageVars, status, managers, checkVars, now, boundVars, toldVars>>
  BY <1>0, <1>1, CallTasks
<1>3. CalmFrame /\ looping' = looping
  <2>1. UNCHANGED <<leases, parents, issued, acked, now, managers, status, queue, looping>>
    BY <1>2 DEF storageVars, checkVars, boundVars, toldVars
  <2> QED BY <2>1, CalmStill
<1>4. \A i \in DOMAIN s : CalmTask(s[i], c)
  <2>1. \A do, n : do \in {"check", "token", "renew", "tree", "revoke", "secret"} => CalmTask(T(do, n), c)
    BY CalmKinds DEF T
  <2>2. \A n, z : CalmTask(CreateTask(n, z), c)
    BY CalmKinds DEF CreateTask
  <2>3. \A n, z : CalmTask(RevokeReply(n, z), c)
    BY <1>0 DEF CalmTask, RevokeReply, Extending, Requeues, Tells
  <2>4. CASE s = <<T("token", None)>>
    BY <2>1, <2>4, FewCalm
  <2>5. ASSUME NEW t \in held, NEW req \in TokenReq,
               \/ s = <<T("check", t), CreateTask(t, req)>>
               \/ s = <<T("check", t), CreateTask(t, req), T("token", t)>>
        PROVE  \A i \in DOMAIN s : CalmTask(s[i], c)
    BY <2>1, <2>2, <2>5, FewCalm
  <2>6. ASSUME NEW t \in held, NEW u \in held,
               \/ s = <<T("check", t), T("renew", u), T("token", None)>>
               \/ s = <<T("check", t), T("tree", u), RevokeReply(u, Tree(u))>>
               \/ s = <<T("check", t), T("revoke", u)>>
               \/ s = <<T("check", t), T("secret", t)>>
        PROVE  \A i \in DOMAIN s : CalmTask(s[i], c)
    BY <2>1, <2>3, <2>6, FewCalm
  <2> QED BY <1>1, <2>4, <2>5, <2>6 DEF Started
<1>5. LeasedApart' /\ Unleased \subseteq Unleased'
  BY <1>0, <1>2, <1>3, <1>4, CalmApart
<1>6. ThreadsFit'
  <2>1. status' = status /\ managers' = managers
    BY <1>3 DEF CalmFrame
  <2> QED BY <1>0, <1>2, <1>3, <2>1, Numbers DEF OnTimeInv, ThreadsFit
<1>7. ClientFits(agenda'[c], acked, leases', queue[managers], now)
  <2>1. \A i \in DOMAIN s : s[i].id \in Token => ~Requeues(s[i]) /\ ~Tells(s[i])
    BY <1>4 DEF CalmTask, Extending
  <2> QED BY <1>2, <2>1 DEF ClientFits, RenewFits
<1>8. \A n \in Token : leases'[n] \in {None, leases[n]} \/ leases'[n].expire = now + Ttl
  BY <1>3 DEF CalmFrame
<1>9. /\ issued <= issued' /\ acked' = acked /\ now' = now /\ managers' = managers
      /\ \A e \in Manager, n \in Token : queue'[e][n] = queue[e][n]
  BY <1>3 DEF CalmFrame
<1> QED BY <1>0, <1>2, <1>5, <1>6, <1>7, <1>8, <1>9, LeaseTurn

\* A request that goes on with tasks of a new token, or about to extend a lease.
LEMMA NewThen ==
    ASSUME OnTimeInv, TypeInv', NEW x \in Client, agenda[x] # <<>>, NEW s \in Seq(Tasks), Then(x, s),
           ~Requeues(Task(x)), \A i \in DOMAIN s : Plain(s[i]),
           UNCHANGED <<leases, parents, acked, now, managers, status, queue, looping>>,
           issued <= issued',
           \A n \in Token, i \in DOMAIN s : Extending(s[i], n) =>
              \/ Leased(n)
              \/ n > issued /\ n <= issued' /\ \A j \in DOMAIN s : s[j].do # "index",
           \A n \in Token, i \in DOMAIN s : s[i].do = "index" /\ s[i].id = n => n > issued /\ n <= issued'
    PROVE  OnTimeInv'
<1>0. /\ TypeOK /\ x \in Thread /\ x \notin Manager /\ agenda \in [Thread -> Seq(Tasks)]
  BY OnTimeTypes, Numbers
<1>1. /\ agenda'[x] = s \o Tail(agenda[x]) /\ \A y \in Thread \ {x} : agenda'[y] = agenda[y]
      /\ agenda[x][1] = Task(x) /\ agenda[x] \in Seq(Tasks)
  BY <1>0, ThenAgenda, HeadTask
<1>2. \A i \in DOMAIN agenda'[x] :
         \/ i \in DOMAIN s /\ agenda'[x][i] = s[i]
         \/ \E j \in DOMAIN agenda[x] : agenda'[x][i] = agenda[x][j]
  BY <1>1, ShiftParts
<1>3. ASSUME NEW n \in Token, NEW i \in DOMAIN agenda'[x], Extending(agenda'[x][i], n)
      PROVE  \/ Leased(n)
             \/ n > issued /\ n <= issued' /\ ~LinksIn(agenda'[x], n)
  <2>1. CASE \E j \in DOMAIN agenda[x] : agenda'[x][i] = agenda[x][j]
    BY <1>0, <1>3, <2>1 DEF Leased
  <2>2. CASE i \in DOMAIN s /\ agenda'[x][i] = s[i]
    <3> SUFFICES ASSUME ~Leased(n), LinksIn(agenda'[x], n) PROVE FALSE
      BY <1>3, <2>2
    <3>1. n > issued /\ \A j \in DOMAIN s : s[j].do # "index"
      BY <1>3, <2>2
    <3>2. Child(n)
      BY <1>0, <1>2, <3>1 DEF LinksIn, Child
    <3>3. n <= issued
      BY <3>2 DEF OnTimeInv, LeasedApart
    <3>4. n \in Nat /\ issued \in Nat
      <4>1. issued \in 1 .. MaxTokens
        BY <1>0 DEF TypeOK
      <4> QED BY <4>1, Numbers, BoundsAssumption
    <3> QED BY <3>1, <3>3, <3>4
  <2> QED BY <1>2, <2>1, <2>2
<1>4. ASSUME NEW n \in Token, NEW i \in DOMAIN agenda'[x], agenda'[x][i].do = "index",
             agenda'[x][i].id = n
      PROVE  Child(n) \/ (n > issued /\ n <= issued')
  <2>1. CASE \E j \in DOMAIN agenda[x] : agenda'[x][i] = agenda[x][j]
    BY <1>0, <1>4, <2>1 DEF Child
  <2>2. CASE i \in DOMAIN s /\ agenda'[x][i] = s[i]
    BY <1>4, <2>2
  <2> QED BY <1>2, <2>1, <2>2
<1>5. LeasedApart' /\ Unleased \subseteq Unleased'
  <2>1. \A n \in Token, p \in Token : <<p, n>> \in parents' => Child(n)
    BY DEF Child
  <2>2. \A n \in Token : leases'[n] = None \/ leases'[n] = leases[n] \/ Leased(n)
    OBVIOUS
  <2>3. \A n \in Token : acked'[n] = acked[n] \/ Leased(n)
    OBVIOUS
  <2> QED BY <1>0, <1>1, <1>3, <1>4, <2>1, <2>2, <2>3, ApartTurn
<1>6. ThreadsFit'
  <2>1. \A y \in Thread : agenda'[y] # <<>> => agenda[y] # <<>>
    BY <1>1
  <2> QED BY <2>1, Numbers DEF OnTimeInv, ThreadsFit
<1>7. ClientFits(agenda'[x], acked, leases', queue[managers], now)
  <2>1. ClientFits(agenda[x], acked, leases, queue[managers], now)
    BY DEF OnTimeInv
  <2>2. ClientFits(agenda'[x], acked, leases, queue[managers], now)
    BY <1>1, <2>1, ShiftClient
  <2>3. leases' = leases
    OBVIOUS
  <2> QED BY <2>2, <2>3
<1>8. \A n \in Token : leases'[n] \in {None, leases[n]} \/ leases'[n].expire = now + Ttl
  OBVIOUS
<1>9. \A e \in Manager, n \in Token : queue'[e][n] = queue[e][n]
  OBVIOUS
<1> QED BY <1>0, <1>1, <1>5, <1>6, <1>7, <1>8, <1>9, LeaseTurn

LEMMA ShiftWhole ==
    ASSUME NEW a \in Seq(Tasks), a # <<>>, NEW s \in Seq(Tasks), NEW b, b = s \o Tail(a)
    PROVE  /\ \A i \in DOMAIN s : i \in DOMAIN b /\ b[i] = s[i]
           /\ \A i \in DOMAIN b : \/ i \in DOMAIN s /\ b[i] = s[i]
                                  \/ \E j \in DOMAIN a : j > 1 /\ b[i] = a[j]
<1>1. \A i \in DOMAIN s : i \in DOMAIN b /\ b[i] = s[i]
  BY ShiftFirst
<1>2. \A i \in DOMAIN b : \/ i \in DOMAIN s /\ b[i] = s[i]
                         \/ \E j \in DOMAIN a : j > 1 /\ b[i] = a[j]
  BY ShiftBack
<1> QED BY <1>1, <1>2

\* A task in the place of the first one, and one at the end.
LEMMA ShiftRound ==
    ASSUME NEW a \in Seq(Tasks), a # <<>>, NEW k \in Tasks, NEW m \in Tasks,
           NEW b, b = <<k>> \o Tail(a) \o <<m>>
    PROVE  /\ 1 \in DOMAIN b /\ b[1] = k
           /\ \A i \in DOMAIN b : i = 1 \/ b[i] = m \/ \E j \in DOMAIN a : j > 1 /\ b[i] = a[j]
<1> DEFINE c == <<k>> \o Tail(a)
<1>1. /\ c \in Seq(Tasks) /\ Len(c) = Len(a) /\ Len(a) \in Nat \ {0}
      /\ DOMAIN c = 1 .. Len(a) /\ DOMAIN a = 1 .. Len(a)
      /\ c[1] = k /\ \A i \in 2 .. Len(a) : c[i] = a[i]
  OBVIOUS
<1>2. b = c \o <<m>>
  OBVIOUS
<1> HIDE DEF c
<1>3. /\ DOMAIN b = 1 .. Len(a) + 1 /\ \A i \in 1 .. Len(a) : b[i] = c[i]
      /\ b[Len(a) + 1] = m
  BY <1>1, <1>2
<1>4. 1 \in DOMAIN b /\ b[1] = k
  BY <1>1, <1>3
<1>5. ASSUME NEW i \in DOMAIN b PROVE i = 1 \/ b[i] = m \/ \E j \in DOMAIN a : j > 1 /\ b[i] = a[j]
  <2>1. i = 1 \/ i = Len(a) + 1 \/ (i \in 2 .. Len(a) /\ i \in DOMAIN a /\ i > 1)
    BY <1>1, <1>3, <1>5
  <2>2. CASE i \in 2 .. Len(a) /\ i \in DOMAIN a /\ i > 1
    <3>1. b[i] = a[i]
      BY <1>1, <1>3, <2>2
    <3> QED BY <2>2, <3>1
  <2> QED BY <1>3, <2>1, <2>2
<1> QED BY <1>4, <1>5

LEMMA CreateOnTime == ASSUME OnTimeInv, TypeInv', NEW x \in Client, HandleCreate(x) PROVE OnTimeInv'
<1>0. TypeOK /\ x \in Thread /\ issued \in Nat
  <2>1. TypeOK
    BY OnTimeTypes
  <2>2. issued \in 1 .. MaxTokens
    BY <2>1 DEF TypeOK
  <2> QED BY <2>1, <2>2, Numbers, BoundsAssumption
<1>1. agenda[x] # <<>> /\ Task(x).do = "create" /\ Task(x).id \in Token /\ Task(x).req \in TokenReq
  BY <1>0, CreateScript
<1>2. UNCHANGED <<leases, parents, acked, now, managers, status, queue, looping>>
  BY DEF HandleCreate, storageVars, checkVars
<1>3. ~Requeues(Task(x))
  BY <1>1 DEF Requeues
<1> DEFINE t == Task(x).id
           req == Task(x).req
           n == issued + 1
           p == ParentFor(t, req)
           e == NewEntry(p, req)
           k == T("parent", p)
           m == LinkTask(n, p)
           r == PutTask(n, e)
<1>4. \/ Drop(x) /\ issued' = issued
      \/ /\ issued < MaxTokens /\ issued' = n
         /\ \/ p = None /\ Then(x, <<r>>)
            \/ p # None /\ Then(x, <<k, m, r>>)
  BY <1>0, CreateScript
<1>5. CASE Drop(x) /\ issued' = issued
  BY <1>0, <1>2, <1>5, CalmStill, CalmDrop
<1>6. k.do = "parent" /\ m.do = "index" /\ m.id = n /\ r.do = "put"
  BY DEF T, LinkTask, PutTask
<1>7. /\ Plain(k) /\ Plain(m) /\ Plain(r)
      /\ \A i \in Token : ~Extending(k, i) /\ ~Extending(m, i) /\ ~Extending(r, i)
  <2> HIDE DEF k, m, r
  <2> QED BY <1>6 DEF Plain, Extending, Requeues, Tells
<1>8. ASSUME issued < MaxTokens, issued' = n, NEW s \in Seq(Tasks), Then(x, s),
             \A i \in DOMAIN s : s[i] \in {k, m, r}
      PROVE  OnTimeInv'
  <2>1. \A i \in DOMAIN s : Plain(s[i]) /\ \A j \in Token : ~Extending(s[i], j)
    BY <1>7, <1>8
  <2>2. ASSUME NEW j \in Token, NEW i \in DOMAIN s, s[i].do = "index", s[i].id = j
        PROVE  j > issued /\ j <= issued'
    <3>1. s[i] = m
      BY <1>6, <1>8, <2>2
    <3>2. j = n
      BY <1>6, <2>2, <3>1
    <3> QED BY <1>0, <1>8, <3>2
  <2>3. issued <= issued'
    BY <1>0, <1>8
  <2> QED BY <1>1, <1>2, <1>3, <1>8, <2>1, <2>2, <2>3, NewThen
<1>9. p \in Token \cup {None}
  BY <1>1 DEF ParentFor
<1>10. issued < MaxTokens => n \in Token
  BY <1>0, BoundsAssumption DEF Token
<1>11. issued < MaxTokens => r \in Tasks
  BY <1>1, <1>9, <1>10, NewTyped
<1>12. issued < MaxTokens /\ p # None => k \in Tasks /\ m \in Tasks
  BY <1>1, <1>9, <1>10, NewTyped, TaskMade DEF OnToken
<1>13. CASE issued < MaxTokens /\ issued' = n /\ p = None /\ Then(x, <<r>>)
  <2>1. r \in Tasks
    BY <1>13, <1>11
  <2> DEFINE s == <<r>>
  <2>2. s \in Seq(Tasks) /\ Then(x, s) /\ \A i \in DOMAIN s : s[i] \in {k, m, r}
    <3> HIDE DEF r, k, m
    <3> QED BY <1>13, <2>1
  <2> HIDE DEF s
  <2> QED BY <1>8, <1>13, <2>2
<1>14. CASE issued < MaxTokens /\ issued' = n /\ p # None /\ Then(x, <<k, m, r>>)
  <2>1. k \in Tasks /\ m \in Tasks /\ r \in Tasks
    BY <1>14, <1>11, <1>12
  <2> DEFINE s == <<k, m, r>>
  <2>2. s \in Seq(Tasks) /\ Then(x, s) /\ \A i \in DOMAIN s : s[i] \in {k, m, r}
    <3> HIDE DEF r, k, m
    <3> QED BY <1>14, <2>1
  <2> HIDE DEF s
  <2> QED BY <1>8, <1>14, <2>2
<1> QED BY <1>4, <1>5, <1>13, <1>14

LEMMA PostRouteOnTime == ASSUME OnTimeInv, TypeInv', NEW x \in Client, PostRoute(x) PROVE OnTimeInv'
<1>0. TypeOK /\ x \in Thread /\ issued \in Nat
  <2>1. TypeOK
    BY OnTimeTypes
  <2>2. issued \in 1 .. MaxTokens
    BY <2>1 DEF TypeOK
  <2> QED BY <2>1, <2>2, Numbers, BoundsAssumption
<1> DEFINE n == issued + 1
           k == T("lease", n)
<1>1. agenda[x] # <<>> /\ Task(x).do = "token" /\ n \in Token /\ issued' = n /\ Then(x, <<k>>)
  BY <1>0, PostRouteScript
<1>2. UNCHANGED <<leases, parents, acked, now, managers, status, queue, looping>>
  BY DEF PostRoute, checkVars
<1>3. k \in Tasks /\ k.do = "lease" /\ k.id = n
  BY <1>1, TaskMade DEF OnToken
<1>4. Plain(k) /\ \A j : Extending(k, j) => j = n
  <2> HIDE DEF k
  <2> QED BY <1>3 DEF Plain, Extending, Requeues, Tells
<1> DEFINE s == <<k>>
<1>5. s \in Seq(Tasks) /\ Then(x, s) /\ \A i \in DOMAIN s : s[i] = k
  <2> HIDE DEF k
  <2> QED BY <1>1, <1>3
<1>6. ~Requeues(Task(x)) /\ issued <= issued' /\ n > issued /\ n <= issued'
  BY <1>0, <1>1 DEF Requeues
<1> HIDE DEF s, k
<1>7. \A j \in Token, i \in DOMAIN s : Extending(s[i], j) =>
              \/ Leased(j)
              \/ j > issued /\ j <= issued' /\ \A m \in DOMAIN s : s[m].do # "index"
  BY <1>3, <1>4, <1>5, <1>6
<1>8. \A j \in Token, i \in DOMAIN s : s[i].do = "index" /\ s[i].id = j => j > issued /\ j <= issued'
  BY <1>3, <1>5
<1>9. \A i \in DOMAIN s : Plain(s[i])
  BY <1>4, <1>5
<1> QED BY <1>1, <1>2, <1>5, <1>6, <1>7, <1>8, <1>9, NewThen

LEMMA RenewOnTime == ASSUME OnTimeInv, TypeInv', NEW x \in Client, RenewToken(x) PROVE OnTimeInv'
<1>0. TypeOK /\ x \in Thread /\ issued \in Nat
  <2>1. TypeOK
    BY OnTimeTypes
  <2>2. issued \in 1 .. MaxTokens
    BY <2>1 DEF TypeOK
  <2> QED BY <2>1, <2>2, Numbers, BoundsAssumption
<1> DEFINE n == Task(x).id
           k == T("renewal", n)
<1>1. agenda[x] # <<>> /\ Task(x).do = "renew" /\ n \in Token
  BY <1>0, RenewScript
<1>2. UNCHANGED <<leases, parents, acked, now, managers, status, queue, looping, issued>>
  BY DEF RenewToken, storageVars, checkVars, boundVars, toldVars
<1>3. CASE Drop(x)
  BY <1>0, <1>2, <1>3, CalmStill, CalmDrop
<1>4. CASE leases[n] # None /\ Then(x, <<k>>)
  <2>1. k \in Tasks /\ k.do = "renewal" /\ k.id = n
    BY <1>1, TaskMade DEF OnToken
  <2>2. Plain(k) /\ \A j : Extending(k, j) => j = n
    <3> HIDE DEF k
    <3> QED BY <2>1 DEF Plain, Extending, Requeues, Tells
  <2> DEFINE s == <<k>>
  <2>3. s \in Seq(Tasks) /\ Then(x, s) /\ \A i \in DOMAIN s : s[i] = k
    <3> HIDE DEF k
    <3> QED BY <1>4, <2>1
  <2>4. ~Requeues(Task(x)) /\ issued <= issued' /\ Leased(n)
    BY <1>0, <1>1, <1>2, <1>4 DEF Requeues, Leased
  <2> HIDE DEF s, k
  <2>5. \A j \in Token, i \in DOMAIN s : Extending(s[i], j) =>
              \/ Leased(j)
              \/ j > issued /\ j <= issued' /\ \A m \in DOMAIN s : s[m].do # "index"
    BY <2>2, <2>3, <2>4
  <2>6. \A j \in Token, i \in DOMAIN s : s[i].do = "index" /\ s[i].id = j => j > issued /\ j <= issued'
    BY <2>1, <2>3
  <2>7. \A i \in DOMAIN s : Plain(s[i])
    BY <2>2, <2>3
  <2> QED BY <1>1, <1>2, <2>3, <2>4, <2>5, <2>6, <2>7, NewThen
<1> QED BY <1>0, <1>3, <1>4, RenewScript

\* The agenda of a request that has extended the lease of n to t + Ttl.
RenewAgenda(a, b, n, op, t) ==
    /\ 1 \in DOMAIN b /\ b[1] = Enqueue(n, t + Ttl)
    /\ \A i \in DOMAIN b : \/ i = 1
                           \/ b[i] = Reply(op, n, t + Ttl)
                           \/ \E j \in DOMAIN a : j > 1 /\ b[i] = a[j]

LEMMA ExtendClient ==
    ASSUME NEW a \in Seq(Tasks), a # <<>>, NEW b \in Seq(Tasks), NEW ack, NEW ls, NEW ls2, NEW q,
           NEW t \in Nat, ClientFits(a, ack, ls, q, t), ~Requeues(a[1]),
           NEW n \in Token, NEW op \in {"token", "renew"}, ack[n] <= t + Ttl,
           RenewAgenda(a, b, n, op, t), ls2[n].expire = t + Ttl, \A m \in Token \ {n} : ls2[m] = ls[m]
    PROVE  ClientFits(b, ack, ls2, q, t)
<1>0. /\ 1 \in DOMAIN b /\ b[1] = Enqueue(n, t + Ttl)
      /\ \A i \in DOMAIN b : \/ i = 1
                             \/ b[i] = Reply(op, n, t + Ttl)
                             \/ \E j \in DOMAIN a : j > 1 /\ b[i] = a[j]
  BY DEF RenewAgenda
<1> SUFFICES ASSUME NEW i \in DOMAIN b, b[i].id \in Token PROVE RenewFits(b, i, ack, ls2, q, t)
  BY DEF ClientFits
<1>1. Requeues(b[1]) /\ b[1].id = n /\ b[1].priority = t + Ttl /\ ~Tells(b[1])
  BY <1>0 DEF Requeues, Tells, Enqueue
<1>2. t + Ttl \in Nat
  BY BoundsAssumption
<1>3. CASE i = 1
  BY <1>1, <1>3 DEF RenewFits
<1>4. CASE b[i] = Reply(op, n, t + Ttl)
  <2>1. b[i].id = n /\ b[i].expire = t + Ttl /\ ~Requeues(b[i])
    BY <1>4 DEF Reply, Requeues
  <2> QED BY <1>1, <1>2, <2>1 DEF RenewFits
<1>5. ASSUME NEW j \in DOMAIN a, j > 1, b[i] = a[j] PROVE RenewFits(b, i, ack, ls2, q, t)
  <2>1. RenewFits(a, j, ack, ls, q, t)
    BY <1>5 DEF ClientFits
  <2>2. ~Requeues(b[i])
    BY <1>5, <2>1 DEF RenewFits
  <2>3. ASSUME Tells(b[i])
        PROVE  /\ b[i].expire <= t + Ttl
               /\ ls2[b[i].id] # None => b[i].expire <= ls2[b[i].id].expire
               /\ b[i].id # n => q[b[i].id] = None \/ b[i].expire <= q[b[i].id]
    BY <1>5, <2>1, <2>3 DEF RenewFits
  <2> QED BY <1>1, <2>2, <2>3 DEF RenewFits
<1> QED BY <1>0, <1>3, <1>4, <1>5

LEMMA ExtendOnTime ==
    ASSUME OnTimeInv, TypeInv', NEW x \in Client, agenda[x] # <<>>, Task(x).do \in {"lease", "renewal"},
           NEW n \in Token, n = Task(x).id, NEW op \in {"token", "renew"},
           leases' = [leases EXCEPT ![n] = TokenLease(n)],
           UNCHANGED <<parents, acked, now, managers, status, queue, looping, issued>>,
           \A y \in Thread \ {x} : agenda'[y] = agenda[y],
           RenewAgenda(agenda[x], agenda'[x], n, op, now)
    PROVE  OnTimeInv'
<1>a. /\ 1 \in DOMAIN agenda'[x] /\ agenda'[x][1] = Enqueue(n, now + Ttl)
      /\ \A i \in DOMAIN agenda'[x] : \/ i = 1
                                      \/ agenda'[x][i] = Reply(op, n, now + Ttl)
                                      \/ \E j \in DOMAIN agenda[x] : j > 1 /\ agenda'[x][i] = agenda[x][j]
  BY DEF RenewAgenda
<1>0. /\ TypeOK /\ x \in Thread /\ x \notin Manager /\ issued \in Nat /\ now \in Nat
      /\ agenda[x] \in Seq(Tasks) /\ agenda'[x] \in Seq(Tasks)
  <2>1. TypeOK /\ now \in Nat
    BY OnTimeTypes
  <2>2. issued \in 1 .. MaxTokens /\ x \in Thread
    BY <2>1, Numbers DEF TypeOK
  <2>3. agenda[x] \in Seq(Tasks) /\ agenda'[x] \in Seq(Tasks)
    BY <2>1, <2>2 DEF TypeInv, TypeOK
  <2> QED BY <2>1, <2>2, <2>3, Numbers, BoundsAssumption
<1>1. Leased(n)
  <2>1. 1 \in DOMAIN agenda[x] /\ agenda[x][1] = Task(x)
    BY <1>0, HeadTask DEF TypeOK
  <2> QED BY <1>0, <2>1 DEF Leased, Extending
<1>2. leases'[n].expire = now + Ttl /\ \A m \in Token \ {n} : leases'[m] = leases[m]
  <2>1. DOMAIN leases = Lease
    BY <1>0 DEF TypeOK
  <2> QED BY <2>1, Numbers DEF TokenLease
<1>3. LeasedApart' /\ Unleased \subseteq Unleased'
  <2>1. ASSUME NEW m \in Token, NEW i \in DOMAIN agenda'[x], Extending(agenda'[x][i], m) PROVE Leased(m)
    <3>1. CASE \E j \in DOMAIN agenda[x] : j > 1 /\ agenda'[x][i] = agenda[x][j]
      BY <1>0, <2>1, <3>1 DEF Leased
    <3>2. CASE agenda'[x][i] = Enqueue(n, now + Ttl) \/ agenda'[x][i] = Reply(op, n, now + Ttl)
      <4>1. agenda'[x][i].id = n
        BY <3>2 DEF Enqueue, Reply
      <4> QED BY <1>1, <2>1, <4>1 DEF Extending
    <3> QED BY <1>a, <3>1, <3>2
  <2>2. ASSUME NEW m \in Token, NEW i \in DOMAIN agenda'[x], agenda'[x][i].do = "index", agenda'[x][i].id = m
        PROVE  Child(m)
    <3>1. agenda'[x][i] # Enqueue(n, now + Ttl) /\ agenda'[x][i] # Reply(op, n, now + Ttl)
      BY <2>2 DEF Enqueue, Reply
    <3> QED BY <1>a, <1>0, <2>2, <3>1 DEF Child
  <2>3. \A m \in Token, p \in Token : <<p, m>> \in parents' => Child(m)
    BY DEF Child
  <2>4. \A m \in Token : leases'[m] = None \/ leases'[m] = leases[m] \/ Leased(m)
    BY <1>1, <1>2
  <2>5. \A m \in Token : acked'[m] = acked[m] \/ Leased(m)
    OBVIOUS
  <2>6. issued <= issued'
    BY <1>0
  <2> QED BY <1>0, <2>1, <2>2, <2>3, <2>4, <2>5, <2>6, ApartTurn
<1>4. ThreadsFit'
  <2>1. \A y \in Thread : agenda'[y] # <<>> => agenda[y] # <<>>
    BY <1>0
  <2> QED BY <2>1, Numbers DEF OnTimeInv, ThreadsFit
<1>5. ClientFits(agenda'[x], acked, leases', queue[managers], now)
  <2>1. ClientFits(agenda[x], acked, leases, queue[managers], now)
    BY DEF OnTimeInv
  <2>2. acked[n] <= now + Ttl
    BY DEF OnTimeInv, ToldFits
  <2>3. ~Requeues(agenda[x][1])
    BY <1>0, HeadTask DEF Requeues, TypeOK
  <2> DEFINE a == agenda[x]
             b == agenda'[x]
             q == queue[managers]
             ls == leases'
  <2>4. a \in Seq(Tasks) /\ a # <<>> /\ b \in Seq(Tasks) /\ RenewAgenda(a, b, n, op, now)
    BY <1>0
  <2>5. /\ ClientFits(a, acked, leases, q, now) /\ ~Requeues(a[1])
        /\ ls[n].expire = now + Ttl /\ \A m \in Token \ {n} : ls[m] = leases[m]
    BY <1>2, <2>1, <2>3
  <2>6. ASSUME NEW l2, l2[n].expire = now + Ttl, \A m \in Token \ {n} : l2[m] = leases[m]
        PROVE  ClientFits(b, acked, l2, q, now)
    <3> HIDE DEF a, b, q, ls
    <3> QED BY <1>0, <2>2, <2>4, <2>5, <2>6, ExtendClient
  <2> QED BY <2>5, <2>6
<1>6. \A m \in Token : leases'[m] \in {None, leases[m]} \/ leases'[m].expire = now + Ttl
  BY <1>2
<1>7. issued <= issued' /\ \A e \in Manager, m \in Token : queue'[e][m] = queue[e][m]
  BY <1>0
<1> QED BY <1>0, <1>3, <1>4, <1>5, <1>6, <1>7, LeaseTurn

LEMMA RegisterOnTime == ASSUME OnTimeInv, TypeInv', NEW x \in Client, RegisterAuth(x) PROVE OnTimeInv'
<1>0. TypeOK /\ x \in Thread
  BY OnTimeTypes, Numbers
<1> DEFINE n == Task(x).id
           k == Enqueue(n, now + Ttl)
           m == Reply("token", n, now + Ttl)
<1>1. /\ agenda[x] # <<>> /\ Task(x).do = "lease" /\ n \in Token
      /\ leases' = [leases EXCEPT ![n] = TokenLease(n)] /\ Then(x, <<k, m>>)
  BY <1>0, RegisterScript
<1>2. UNCHANGED <<parents, acked, now, managers, status, queue, looping, issued>>
  BY DEF RegisterAuth, checkVars, boundVars, toldVars
<1>3. k \in Tasks /\ m \in Tasks
  BY <1>0, <1>1, TaskMade, ExpiryOK, Numbers
<1> DEFINE s == <<k, m>>
<1>4. s \in Seq(Tasks) /\ Then(x, s) /\ s[1] = k /\ 1 \in DOMAIN s /\ \A i \in DOMAIN s : i = 1 \/ s[i] = m
  <2> HIDE DEF k, m
  <2> QED BY <1>1, <1>3
<1> HIDE DEF s
<1>5. /\ agenda'[x] = s \o Tail(agenda[x]) /\ \A y \in Thread \ {x} : agenda'[y] = agenda[y]
      /\ agenda[x] \in Seq(Tasks)
  BY <1>0, <1>1, <1>4, ThenAgenda DEF TypeOK
<1>6. /\ \A i \in DOMAIN s : i \in DOMAIN agenda'[x] /\ agenda'[x][i] = s[i]
      /\ \A i \in DOMAIN agenda'[x] : \/ i \in DOMAIN s /\ agenda'[x][i] = s[i]
                                      \/ \E j \in DOMAIN agenda[x] : j > 1 /\ agenda'[x][i] = agenda[x][j]
  BY <1>1, <1>4, <1>5, ShiftWhole
<1>7. /\ 1 \in DOMAIN agenda'[x] /\ agenda'[x][1] = k
      /\ \A i \in DOMAIN agenda'[x] : \/ i = 1 \/ agenda'[x][i] = m
                                      \/ \E j \in DOMAIN agenda[x] : j > 1 /\ agenda'[x][i] = agenda[x][j]
  BY <1>4, <1>6
<1>8. RenewAgenda(agenda[x], agenda'[x], n, "token", now)
  BY <1>7 DEF RenewAgenda
<1> QED BY <1>1, <1>2, <1>5, <1>8, ExtendOnTime

LEMMA PersistOnTime == ASSUME OnTimeInv, TypeInv', NEW x \in Client, RenewPersist(x) PROVE OnTimeInv'
<1>0. TypeOK /\ x \in Thread
  BY OnTimeTypes, Numbers
<1> DEFINE n == Task(x).id
           k == Enqueue(n, now + Ttl)
           m == Reply("renew", n, now + Ttl)
           a == agenda[x]
           b == agenda'[x]
<1>1. /\ a # <<>> /\ Task(x).do = "renewal" /\ n \in Token
      /\ leases' = [leases EXCEPT ![n] = TokenLease(n)] /\ k \in Tasks /\ m \in Tasks
      /\ b = <<k>> \o Tail(a) \o <<m>> /\ \A y \in Thread \ {x} : agenda'[y] = agenda[y]
  BY <1>0, PersistScript
<1>2. UNCHANGED <<parents, acked, now, managers, status, queue, looping, issued>>
  BY DEF RenewPersist, checkVars, boundVars, toldVars
<1>3. a \in Seq(Tasks)
  BY <1>0 DEF TypeOK
<1>4. /\ 1 \in DOMAIN b /\ b[1] = k
      /\ \A i \in DOMAIN b : i = 1 \/ b[i] = m \/ \E j \in DOMAIN a : j > 1 /\ b[i] = a[j]
  <2> HIDE DEF a, b, k, m
  <2> QED BY <1>1, <1>3, ShiftRound
<1>5. RenewAgenda(agenda[x], agenda'[x], n, "renew", now)
  BY <1>4 DEF RenewAgenda
<1> QED BY <1>1, <1>2, <1>5, ExtendOnTime

\* The agenda after its first task.
LEMMA ShiftOne ==
    ASSUME NEW a \in Seq(Tasks), a # <<>>, NEW b, b = <<>> \o Tail(a)
    PROVE  /\ \A i \in DOMAIN b : \E j \in DOMAIN a : j > 1 /\ b[i] = a[j]
           /\ Len(a) = 1 => b = <<>>
<1> DEFINE s == <<>>
<1>1. s \in Seq(Tasks) /\ b = s \o Tail(a) /\ DOMAIN s = {}
  OBVIOUS
<1> HIDE DEF s
<1>2. \A i \in DOMAIN b : \/ i \in DOMAIN s /\ b[i] = s[i]
                          \/ \E j \in DOMAIN a : j > 1 /\ b[i] = a[j]
  BY <1>1, ShiftWhole
<1>3. Len(a) = 1 => Tail(a) = <<>>
  OBVIOUS
<1> QED BY <1>1, <1>2, <1>3

\* b is what is left of a after its first task.
Later(a, b) ==
    /\ 1 \in DOMAIN b \/ b = <<>>
    /\ \A i \in DOMAIN b : \E j \in DOMAIN a : j > 1 /\ b[i] = a[j]

\* A new priority is in the queue.
LEMMA EnqueueClient ==
    ASSUME NEW a \in Seq(Tasks), a # <<>>, NEW b, Later(a, b),
           NEW ack, NEW ls, NEW q, NEW q2, NEW t, ClientFits(a, ack, ls, q, t),
           Requeues(a[1]), NEW l \in Token, a[1].id = l,
           q2[l] = a[1].priority, \A m \in Token \ {l} : q2[m] = q[m]
    PROVE  ClientFits(b, ack, ls, q2, t)
<1>0. /\ 1 \in DOMAIN b \/ b = <<>>
      /\ \A i \in DOMAIN b : \E j \in DOMAIN a : j > 1 /\ b[i] = a[j]
  BY DEF Later
<1>1. ASSUME NEW i \in DOMAIN b, b[i].id \in Token PROVE ~Requeues(b[i])
  <2>1. PICK j \in DOMAIN a : j > 1 /\ b[i] = a[j]
    BY <1>0
  <2>2. RenewFits(a, j, ack, ls, q, t)
    BY <1>1, <2>1 DEF ClientFits
  <2> QED BY <2>1, <2>2 DEF RenewFits
<1> SUFFICES ASSUME NEW i \in DOMAIN b, b[i].id \in Token PROVE RenewFits(b, i, ack, ls, q2, t)
  BY DEF ClientFits
<1>2. PICK j \in DOMAIN a : j > 1 /\ b[i] = a[j]
  BY <1>0
<1>3. RenewFits(a, j, ack, ls, q, t)
  BY <1>2 DEF ClientFits
<1>4. ~(Requeues(b[1]) /\ b[1].id = b[i].id)
  BY <1>0, <1>1
<1>5. ASSUME Tells(b[i])
      PROVE  /\ b[i].expire <= t + Ttl
             /\ ls[b[i].id] # None => b[i].expire <= ls[b[i].id].expire
             /\ q2[b[i].id] = None \/ b[i].expire <= q2[b[i].id]
  BY <1>2, <1>3, <1>5 DEF RenewFits
<1>6. ~Requeues(b[i])
  BY <1>1
<1> QED BY <1>4, <1>5, <1>6 DEF RenewFits

\* A client was told of a token that the agenda is not about to put in a queue.
LEMMA AckClient ==
    ASSUME NEW a, NEW ack, NEW ack2, NEW ls, NEW q, NEW t, ClientFits(a, ack, ls, q, t),
           \A i \in DOMAIN a : a[i].id \in Token /\ Requeues(a[i]) => ack2[a[i].id] = ack[a[i].id]
    PROVE  ClientFits(a, ack2, ls, q, t)
BY DEF ClientFits, RenewFits

\* A step of x that makes its agenda shorter makes no lease and no child.
LEMMA ShorterApart ==
    ASSUME OnTimeInv, TypeInv', NEW x \in Thread, \A y \in Thread \ {x} : agenda'[y] = agenda[y],
           \A i \in DOMAIN agenda'[x] : \E j \in DOMAIN agenda[x] : agenda'[x][i] = agenda[x][j],
           UNCHANGED <<leases, parents, issued>>, \A n \in Token : acked'[n] = acked[n] \/ Leased(n)
    PROVE  LeasedApart' /\ Unleased \subseteq Unleased'
<1>1. ASSUME NEW n \in Token, NEW i \in DOMAIN agenda'[x], Extending(agenda'[x][i], n) PROVE Leased(n)
  BY <1>1 DEF Leased
<1>2. ASSUME NEW n \in Token, NEW i \in DOMAIN agenda'[x], agenda'[x][i].do = "index",
             agenda'[x][i].id = n
      PROVE  Child(n)
  BY <1>2 DEF Child
<1>3. issued <= issued'
  <2>1. issued \in 1 .. MaxTokens
    BY DEF OnTimeInv, TypeInv, TypeOK
  <2> QED BY <2>1, BoundsAssumption
<1>4. \A n \in Token : leases'[n] = None \/ leases'[n] = leases[n] \/ Leased(n)
  OBVIOUS
<1>5. \A n \in Token, p \in Token : <<p, n>> \in parents' => Child(n)
  BY DEF Child
<1> QED BY <1>1, <1>2, <1>3, <1>4, <1>5, ApartTurn

LEMMA QueueOnTime ==
    ASSUME OnTimeInv, OneRenewal, TypeInv', NEW x \in Thread, RegisterLeaseEntry(x) PROVE OnTimeInv'
<1>0. /\ TypeOK /\ agenda \in [Thread -> Seq(Tasks)] /\ now \in Nat
      /\ \A n \in Token : acked[n] \in Nat
      /\ \A e \in Manager, n \in Token : queue[e][n] \in Nat \cup {None}
      /\ ThreadsFit /\ ToldFits
  BY OnTimeTypes DEF OnTimeInv
<1> DEFINE l == Task(x).id
           p == Task(x).priority
<1>1. /\ agenda[x] # <<>> /\ Task(x).do = "enqueue" /\ l \in Lease /\ p \in Expiry
      /\ QueueOf(x) \notin looping /\ Then(x, <<>>)
      /\ queue' = [queue EXCEPT ![QueueOf(x)] = [@ EXCEPT ![l] = p]]
  BY <1>0, QueueScript
<1>2. UNCHANGED <<leases, parents, issued, acked, now, managers, status, looping>>
  BY DEF RegisterLeaseEntry, storageVars, boundVars, toldVars
<1>3. /\ x \in Client /\ QueueOf(x) = managers /\ managers \in Manager /\ agenda[managers] = <<>>
      /\ x \notin Manager
  BY <1>0, <1>1, Numbers DEF Thread, ThreadsFit, QueueOf
<1>4. /\ queue'[managers][l] = p
      /\ \A n \in Token \ {l} : queue'[managers][n] = queue[managers][n]
      /\ \A e \in Manager \ {managers} : queue'[e] = queue[e]
  <2>1. DOMAIN queue = Manager /\ DOMAIN queue[managers] = Lease
    BY <1>0, <1>3 DEF TypeOK
  <2> QED BY <1>1, <1>3, <2>1, Numbers
<1>5. CASE l \notin Token
  <2>1. \A e \in Manager, n \in Token : queue'[e][n] = queue[e][n]
    BY <1>4, <1>5
  <2>2. issued <= issued'
    <3>1. issued \in 1 .. MaxTokens
      BY <1>0 DEF TypeOK
    <3> QED BY <1>2, <3>1, BoundsAssumption
  <2>3. \A n \in Token, m \in Token : <<m, n>> \in parents' => Child(n)
    BY <1>2 DEF Child
  <2>4. CalmFrame
    BY <1>2, <2>1, <2>2, <2>3 DEF CalmFrame
  <2> QED BY <1>1, <1>2, <1>5, <2>4, CalmNone
<1>6. CASE l \in Token
  <2>1. /\ agenda'[x] = <<>> \o Tail(agenda[x]) /\ \A y \in Thread \ {x} : agenda'[y] = agenda[y]
        /\ agenda[x][1] = Task(x) /\ agenda[x] \in Seq(Tasks) /\ 1 \in DOMAIN agenda[x]
    <3>1. <<>> \in Seq(Tasks)
      OBVIOUS
    <3> QED BY <1>0, <1>1, <3>1, ThenAgenda, HeadTask
  <2>2. \A i \in DOMAIN agenda'[x] : \E j \in DOMAIN agenda[x] : j > 1 /\ agenda'[x][i] = agenda[x][j]
    BY <1>1, <2>1, ShiftOne
  <2>3. Requeues(agenda[x][1]) /\ agenda[x][1].id = l /\ agenda[x][1].priority = p
    BY <1>1, <2>1 DEF Requeues
  <2>4. ClientFits(agenda[x], acked, leases, queue[managers], now)
    BY <1>3 DEF OnTimeInv
  <2>5. acked[l] <= p
    <3>1. RenewFits(agenda[x], 1, acked, leases, queue[managers], now)
      BY <1>6, <2>1, <2>3, <2>4 DEF ClientFits
    <3> QED BY <2>3, <3>1 DEF RenewFits
  <2>6. LeasedApart' /\ Unleased \subseteq Unleased'
    <3>1. \A n \in Token : acked'[n] = acked[n] \/ Leased(n)
      BY <1>2
    <3> QED BY <1>2, <2>1, <2>2, <3>1, ShorterApart
  <2>7. ThreadsFit'
    <3>1. \A y \in Thread : agenda'[y] # <<>> => agenda[y] # <<>>
      BY <1>1, <2>1
    <3> QED BY <1>0, <1>2, <3>1, Numbers DEF ThreadsFit
  <2>8. ToldFits'
    <3>1. \A n \in Token : queue'[managers][n] = None \/ acked[n] <= queue'[managers][n]
      BY <1>0, <1>3, <1>4, <2>5 DEF ToldFits
    <3> QED BY <1>0, <1>2, <3>1 DEF ToldFits
  <2>9. ASSUME NEW c \in Client PROVE ClientFits(agenda'[c], acked', leases', queue'[managers'], now')
    <3> DEFINE q2 == queue'[managers]
               b == agenda'[c]
    <3>1. CASE c = x
      <4>1. 1 \in DOMAIN b \/ b = <<>>
        <5>1. b \in Seq(Tasks)
          BY <3>1 DEF TypeInv, TypeOK
        <5> HIDE DEF b
        <5> QED BY <5>1
      <4> DEFINE a == agenda[x]
                 q == queue[managers]
      <4>2. q2[l] = a[1].priority /\ \A m \in Token \ {l} : q2[m] = q[m]
        BY <1>4, <2>3
      <4>3. Later(a, b)
        BY <2>2, <3>1, <4>1 DEF Later
      <4>5. a \in Seq(Tasks) /\ a # <<>> /\ ClientFits(a, acked, leases, q, now) /\ Requeues(a[1]) /\ a[1].id = l
        BY <1>1, <2>1, <2>3, <2>4
      <4> HIDE DEF a, b, q, q2, l
      <4>4. ClientFits(b, acked, leases, q2, now)
        BY <1>6, <4>2, <4>3, <4>5, EnqueueClient
      <4> QED BY <1>2, <4>4 DEF b, q2
    <3>2. CASE c # x
      <4>1. agenda[c] \in Seq(Tasks) /\ b = agenda[c]
        BY <1>0, <2>1, <3>2, Numbers
      <4>2. ClientFits(agenda[c], acked, leases, queue[managers], now)
        BY DEF OnTimeInv
      <4>3. Renewing(agenda[x], l)
        BY <2>1, <2>3 DEF Renewing
      <4>4. ~Renewing(agenda[c], l)
        BY <1>3, <1>6, <3>2, <4>3 DEF OneRenewal
      <4>5. KeptFor(agenda[c], acked, acked, leases, leases, queue[managers], q2, now)
        BY <1>4, <4>4 DEF KeptFor
      <4>6. now <= now
        BY <1>0
      <4> HIDE DEF q2
      <4>7. ClientFits(agenda[c], acked, leases, q2, now)
        BY <1>0, <4>1, <4>2, <4>5, <4>6, ClientStays
      <4> QED BY <1>2, <4>1, <4>7 DEF q2
    <3> QED BY <3>1, <3>2
  <2>10. ASSUME NEW e \in Manager PROVE CheckerFits(agenda'[e], queue'[e], now', Unleased')
    <3>1. agenda'[e] = agenda[e]
      BY <1>3, <2>1, Numbers
    <3>2. CASE e = managers
      BY <1>3, <3>1, <3>2 DEF CheckerFits
    <3>3. CASE e # managers
      <4>1. CheckerFits(agenda[e], queue[e], now, Unleased)
        BY DEF OnTimeInv
      <4>2. \A n \in Token : queue'[e][n] = queue[e][n] /\ queue[e][n] \in Nat \cup {None}
        BY <1>0, <1>4, <3>3
      <4>3. now <= now
        BY <1>0
      <4>4. CheckerFits(agenda[e], queue'[e], now, Unleased')
        BY <1>0, <2>6, <4>1, <4>2, <4>3, CheckerStays
      <4> QED BY <1>2, <3>1, <4>4
    <3> QED BY <3>2, <3>3
  <2> QED BY <2>6, <2>7, <2>8, <2>9, <2>10 DEF OnTimeInv
<1> QED BY <1>5, <1>6

LEMMA AnswerOnTime ==
    ASSUME OnTimeInv, OneRenewal, TypeInv', NEW x \in Client, Answer(x) PROVE OnTimeInv'
<1>0. /\ TypeOK /\ agenda \in [Thread -> Seq(Tasks)] /\ now \in Nat
      /\ \A n \in Token : acked[n] \in Nat
      /\ \A e \in Manager, n \in Token : queue[e][n] \in Nat \cup {None}
      /\ ThreadsFit /\ ToldFits /\ x \in Thread /\ x \notin Manager
  BY OnTimeTypes, Numbers DEF OnTimeInv
<1> DEFINE n == Task(x).id
           p == Task(x).expire
<1>1. /\ agenda[x] # <<>> /\ Task(x).do = "reply" /\ n \in Token /\ Then(x, <<>>)
      /\ Task(x).op # "revoke" => p \in Expiry
      /\ acked' = IF Task(x).op = "revoke" THEN acked ELSE [acked EXCEPT ![n] = p]
  BY <1>0, AnswerScript
<1>2. UNCHANGED <<leases, parents, issued, queue, now, managers, status, looping>>
  BY DEF Answer, storageVars, boundVars, checkVars
<1>3. CASE Task(x).op = "revoke"
  <2>1. CalmFrame
    BY <1>1, <1>2, <1>3, CalmStill
  <2>2. ~Requeues(Task(x))
    BY <1>1 DEF Requeues
  <2> QED BY <1>0, <1>1, <1>2, <2>1, <2>2, CalmNone
<1>4. CASE Task(x).op # "revoke"
  <2>1. /\ agenda'[x] = <<>> \o Tail(agenda[x]) /\ \A y \in Thread \ {x} : agenda'[y] = agenda[y]
        /\ agenda[x][1] = Task(x) /\ agenda[x] \in Seq(Tasks) /\ 1 \in DOMAIN agenda[x]
    <3>1. <<>> \in Seq(Tasks)
      OBVIOUS
    <3> QED BY <1>0, <1>1, <3>1, ThenAgenda, HeadTask
  <2>2. \A i \in DOMAIN agenda'[x] : \E j \in DOMAIN agenda[x] : j > 1 /\ agenda'[x][i] = agenda[x][j]
    BY <1>1, <2>1, ShiftOne
  <2>3. /\ Tells(agenda[x][1]) /\ ~Requeues(agenda[x][1])
        /\ agenda[x][1].id = n /\ agenda[x][1].expire = p
    BY <1>1, <1>4, <2>1 DEF Requeues, Tells
  <2>4. ClientFits(agenda[x], acked, leases, queue[managers], now)
    BY DEF OnTimeInv
  <2>5. /\ p <= now + Ttl
        /\ leases[n] # None => p <= leases[n].expire
        /\ queue[managers][n] = None \/ p <= queue[managers][n]
    <3>1. RenewFits(agenda[x], 1, acked, leases, queue[managers], now)
      BY <1>1, <2>1, <2>3, <2>4 DEF ClientFits
    <3> QED BY <2>3, <3>1 DEF RenewFits
  <2>6. acked'[n] = p /\ \A m \in Token \ {n} : acked'[m] = acked[m]
    BY <1>0, <1>1, <1>4 DEF TypeOK
  <2>7. LeasedApart' /\ Unleased \subseteq Unleased'
    <3>1. Leased(n)
      BY <1>0, <2>1, <2>3 DEF Leased, Extending
    <3>2. \A m \in Token : acked'[m] = acked[m] \/ Leased(m)
      BY <2>6, <3>1
    <3>3. \A i \in DOMAIN agenda'[x] : \E j \in DOMAIN agenda[x] : agenda'[x][i] = agenda[x][j]
      BY <2>2
    <3> QED BY <1>0, <1>2, <2>1, <3>2, <3>3, ShorterApart
  <2>8. ThreadsFit'
    <3>1. \A y \in Thread : agenda'[y] # <<>> => agenda[y] # <<>>
      BY <1>1, <2>1
    <3> QED BY <1>0, <1>2, <3>1, Numbers DEF ThreadsFit
  <2>9. ToldFits'
    <3>1. \A m \in Token :
             /\ acked'[m] <= now + Ttl
             /\ leases[m] # None => acked'[m] <= leases[m].expire
             /\ managers \in Manager => (queue[managers][m] = None \/ acked'[m] <= queue[managers][m])
      <4> TAKE m \in Token
      <4>1. CASE m = n
        BY <2>5, <2>6, <4>1
      <4>2. CASE m # n
        <5>1. acked'[m] = acked[m]
          BY <2>6, <4>2
        <5> QED BY <1>0, <5>1 DEF ToldFits
      <4> QED BY <4>1, <4>2
    <3> QED BY <1>2, <3>1 DEF ToldFits
  <2>10. ASSUME NEW c \in Client PROVE ClientFits(agenda'[c], acked', leases', queue'[managers'], now')
    <3> DEFINE q == queue[managers]
               b == agenda'[c]
               ack == acked'
    <3>1. ClientFits(b, acked, leases, q, now) /\ \A i \in DOMAIN b : b[i].id = n => ~Requeues(b[i])
      <4>1. CASE c = x
        <5>1. ClientFits(b, acked, leases, q, now)
          <6> DEFINE s == <<>>
          <6>1. s \in Seq(Tasks) /\ agenda'[x] = s \o Tail(agenda[x]) /\ \A i \in DOMAIN s : Plain(s[i])
            BY <2>1
          <6> HIDE DEF s
          <6>2. ClientFits(agenda'[x], acked, leases, q, now)
            BY <1>1, <2>1, <2>3, <2>4, <6>1, ShiftClient
          <6> QED BY <4>1, <6>2
        <5>2. ASSUME NEW i \in DOMAIN b, b[i].id = n, Requeues(b[i]) PROVE FALSE
          <6>1. PICK j \in DOMAIN agenda[x] : j > 1 /\ b[i] = agenda[x][j]
            BY <2>2, <4>1
          <6>2. RenewFits(agenda[x], j, acked, leases, q, now)
            BY <1>1, <2>4, <5>2, <6>1 DEF ClientFits
          <6> QED BY <5>2, <6>1, <6>2 DEF RenewFits
        <5> QED BY <5>1, <5>2
      <4>2. CASE c # x
        <5>1. b = agenda[c]
          BY <2>1, <4>2, Numbers
        <5>2. Renewing(agenda[x], n)
          BY <2>1, <2>3 DEF Renewing
        <5>3. ~Renewing(agenda[c], n)
          BY <1>1, <4>2, <5>2 DEF OneRenewal
        <5>4. ClientFits(agenda[c], acked, leases, q, now)
          BY DEF OnTimeInv
        <5> QED BY <5>1, <5>3, <5>4 DEF Renewing
      <4> QED BY <4>1, <4>2
    <3>2. \A i \in DOMAIN b : b[i].id \in Token /\ Requeues(b[i]) => ack[b[i].id] = acked[b[i].id]
      BY <2>6, <3>1
    <3> HIDE DEF b, ack
    <3>3. ClientFits(b, ack, leases, q, now)
      BY <3>1, <3>2, AckClient
    <3> QED BY <1>2, <3>3 DEF b, ack
  <2>11. ASSUME NEW e \in Manager PROVE CheckerFits(agenda'[e], queue'[e], now', Unleased')
    <3>1. agenda'[e] = agenda[e]
      BY <1>0, <2>1, Numbers
    <3>2. CheckerFits(agenda[e], queue[e], now, Unleased)
      BY DEF OnTimeInv
    <3>3. now <= now
      BY <1>0
    <3>4. CheckerFits(agenda[e], queue[e], now, Unleased')
      BY <1>0, <2>7, <3>2, <3>3, CheckerStays
    <3> QED BY <1>2, <3>1, <3>4
  <2> QED BY <2>7, <2>8, <2>9, <2>10, <2>11 DEF OnTimeInv
<1> QED BY <1>3, <1>4

LEMMA NextOnTime == ASSUME OnTimeInv, TypeInv', NEW e \in Manager, CheckerNext(e) PROVE OnTimeInv'
<1>0. TypeOK /\ e \in Thread /\ e \notin Client /\ now \in Nat
  BY OnTimeTypes, Numbers
<1>1. e \in looping /\ \A y \in Thread \ {e} : agenda'[y] = agenda[y]
  BY <1>0, NextScript
<1>2. UNCHANGED <<leases, parents, issued, acked, now, managers, status, queue, looping>>
  BY DEF CheckerNext, storageVars, checkVars, boundVars, toldVars
<1>3. PICK l \in Due(e, now) :
         /\ T("expire", l) \in Tasks /\ T("pop", l) \in Tasks
         /\ agenda'[e] = <<T("expire", l), T("pop", l)>> \/ agenda'[e] = <<T("pop", l)>>
  BY <1>0, NextScript
<1>4. DueIn(queue[e], l, now)
  BY <1>3 DEF Due, DueIn
<1> DEFINE b == agenda'[e]
<1>5. /\ \A i \in DOMAIN b : \/ b[i] = T("pop", l) /\ i = Len(b)
                             \/ b[i] = T("expire", l)
  <2> DEFINE k == T("expire", l)
             m == T("pop", l)
  <2>1. b = <<k, m>> \/ b = <<m>>
    BY <1>3
  <2> HIDE DEF b, k, m
  <2>2. ASSUME NEW i \in DOMAIN b PROVE (b[i] = m /\ i = Len(b)) \/ b[i] = k
    <3>1. CASE b = <<k, m>>
      <4>1. i \in {1, 2} /\ Len(b) = 2 /\ b[1] = k /\ b[2] = m
        BY <2>2, <3>1
      <4> QED BY <4>1
    <3>2. CASE b = <<m>>
      BY <2>2, <3>2
    <3> QED BY <2>1, <3>1, <3>2
  <2> QED BY <2>2 DEF b, k, m
<1>6. CheckerFits(b, queue[e], now, Unleased)
  <2> HIDE DEF b
  <2> QED BY <1>4, <1>5 DEF CheckerFits, T
<1>7. ASSUME NEW i \in DOMAIN b PROVE b[i].do \in {"pop", "expire"}
  BY <1>5, <1>7 DEF T
<1>8. LeasedApart' /\ Unleased \subseteq Unleased'
  <2>1. \A n \in Token, i \in DOMAIN agenda'[e] : ~Extending(agenda'[e][i], n)
    BY <1>7 DEF Extending, Requeues, Tells
  <2>2. \A n \in Token, i \in DOMAIN agenda'[e] : agenda'[e][i].do # "index"
    BY <1>7
  <2>3. issued <= issued'
    <3>1. issued \in 1 .. MaxTokens
      BY <1>0 DEF TypeOK
    <3> QED BY <1>2, <3>1, BoundsAssumption
  <2>4. \A n \in Token : leases'[n] = None \/ leases'[n] = leases[n] \/ Leased(n)
    BY <1>2
  <2>5. \A n \in Token : acked'[n] = acked[n] \/ Leased(n)
    BY <1>2
  <2>6. \A n \in Token, p \in Token : <<p, n>> \in parents' => Child(n)
    BY <1>2 DEF Child
  <2> QED BY <1>0, <1>1, <2>1, <2>2, <2>3, <2>4, <2>5, <2>6, ApartTurn
<1>9. ThreadsFit'
  <2>1. ThreadsFit
    BY DEF OnTimeInv
  <2> QED BY <1>0, <1>1, <1>2, <2>1, Numbers DEF ThreadsFit
<1>10. /\ issued <= issued'
       /\ \A n \in Token : leases'[n] \in {None, leases[n]} \/ leases'[n].expire = now + Ttl
       /\ \A y \in Manager, n \in Token : queue'[y][n] = queue[y][n]
  <2>1. issued \in 1 .. MaxTokens
    BY <1>0 DEF TypeOK
  <2> QED BY <1>2, <2>1, BoundsAssumption
<1> QED BY <1>0, <1>1, <1>2, <1>6, <1>8, <1>9, <1>10, LeaseTurn

LEMMA PopOnTime == ASSUME OnTimeInv, TypeInv', NEW e \in Manager, CheckerPop(e) PROVE OnTimeInv'
<1>0. /\ TypeOK /\ e \in Thread /\ e \notin Client /\ now \in Nat
      /\ agenda \in [Thread -> Seq(Tasks)]
      /\ \A d \in Manager, n \in Token : queue[d][n] \in Nat \cup {None}
      /\ ThreadsFit /\ ToldFits
  BY OnTimeTypes, Numbers DEF OnTimeInv
<1>a. now <= now
  BY <1>0
<1> DEFINE l == Task(e).id
<1>1. /\ agenda[e] # <<>> /\ Task(e).do = "pop" /\ l \in Lease /\ Then(e, <<>>)
      /\ queue' = [queue EXCEPT ![e] = [@ EXCEPT ![l] = None]]
  BY <1>0, PopScript
<1>2. UNCHANGED <<leases, parents, issued, acked, now, managers, status, looping>>
  BY DEF CheckerPop, storageVars, boundVars, toldVars
<1>3. /\ agenda'[e] = <<>> \o Tail(agenda[e]) /\ \A y \in Thread \ {e} : agenda'[y] = agenda[y]
      /\ agenda[e][1] = Task(e) /\ agenda[e] \in Seq(Tasks) /\ 1 \in DOMAIN agenda[e]
  <2>1. <<>> \in Seq(Tasks)
    OBVIOUS
  <2> QED BY <1>0, <1>1, <2>1, ThenAgenda, HeadTask
<1>4. agenda'[e] = <<>>
  <2>1. CheckerFits(agenda[e], queue[e], now, Unleased)
    BY DEF OnTimeInv
  <2>2. 1 = Len(agenda[e])
    BY <1>1, <1>3, <2>1 DEF CheckerFits
  <2> QED BY <1>1, <1>3, <2>2, ShiftOne
<1>5. /\ \A n \in Token : queue'[e][n] \in {queue[e][n], None}
      /\ \A d \in Manager \ {e} : queue'[d] = queue[d]
  <2>1. DOMAIN queue = Manager /\ DOMAIN queue[e] = Lease
    BY <1>0 DEF TypeOK
  <2> QED BY <1>1, <2>1, Numbers
<1>6. LeasedApart' /\ Unleased \subseteq Unleased'
  <2>1. \A i \in DOMAIN agenda'[e] : \E j \in DOMAIN agenda[e] : agenda'[e][i] = agenda[e][j]
    BY <1>4
  <2>2. \A n \in Token : acked'[n] = acked[n] \/ Leased(n)
    BY <1>2
  <2> QED BY <1>0, <1>2, <1>3, <2>1, <2>2, ShorterApart
<1>7. ThreadsFit'
  BY <1>0, <1>2, <1>3, <1>4, Numbers DEF ThreadsFit
<1>8. managers \in Manager => \A n \in Token : queue'[managers][n] \in {queue[managers][n], None}
  BY <1>5
<1>9. ToldFits'
  BY <1>0, <1>2, <1>8 DEF ToldFits
<1>10. ASSUME NEW c \in Client PROVE ClientFits(agenda'[c], acked', leases', queue'[managers'], now')
  <2>1. agenda'[c] = agenda[c] /\ agenda[c] \in Seq(Tasks)
    BY <1>0, <1>3, Numbers
  <2>2. ClientFits(agenda[c], acked, leases, queue[managers], now)
    BY DEF OnTimeInv
  <2>3. CASE agenda[c] = <<>>
    BY <2>1, <2>3 DEF ClientFits
  <2>4. CASE agenda[c] # <<>>
    <3> DEFINE q2 == queue'[managers]
    <3>1. KeptFor(agenda[c], acked, acked, leases, leases, queue[managers], q2, now)
      BY <1>0, <1>8, <2>4 DEF KeptFor, ThreadsFit
    <3> HIDE DEF q2
    <3>2. ClientFits(agenda[c], acked, leases, q2, now)
      BY <1>0, <1>a, <2>1, <2>2, <3>1, ClientStays
    <3> QED BY <1>2, <2>1, <3>2 DEF q2
  <2> QED BY <2>3, <2>4
<1>11. ASSUME NEW d \in Manager PROVE CheckerFits(agenda'[d], queue'[d], now', Unleased')
  <2>1. CASE d = e
    BY <1>4, <2>1 DEF CheckerFits
  <2>2. CASE d # e
    <3>1. agenda'[d] = agenda[d] /\ queue'[d] = queue[d]
      BY <1>3, <1>5, <2>2, Numbers
    <3>2. CheckerFits(agenda[d], queue[d], now, Unleased)
      BY DEF OnTimeInv
    <3>3. CheckerFits(agenda[d], queue[d], now, Unleased')
      BY <1>0, <1>a, <1>6, <3>2, CheckerStays
    <3> QED BY <1>2, <3>1, <3>3
  <2> QED BY <2>1, <2>2
<1> QED BY <1>6, <1>7, <1>9, <1>10, <1>11 DEF OnTimeInv

LEMMA EmptyFits ==
    ASSUME NEW ack, NEW ls, NEW q, NEW t, NEW F
    PROVE  ClientFits(<<>>, ack, ls, q, t) /\ CheckerFits(<<>>, q, t, F)
BY DEF ClientFits, CheckerFits

\* A step that changes at most the status, a lock and the clock.
LEMMA StillOnTime ==
    ASSUME OnTimeInv, TypeInv', ThreadsFit',
           UNCHANGED <<leases, parents, issued, acked, agenda, managers, queue>>,
           now' = now \/ now' = now + 1
    PROVE  OnTimeInv'
<1>0. /\ TypeOK /\ now \in Nat /\ agenda \in [Thread -> Seq(Tasks)]
      /\ \A n \in Token : acked[n] \in Nat
      /\ \A e \in Manager, n \in Token : queue[e][n] \in Nat \cup {None}
      /\ LeasedApart /\ ToldFits
  BY OnTimeTypes DEF OnTimeInv
<1>1. now' \in Nat /\ now <= now'
  BY <1>0
<1>2. LeasedApart' /\ Unleased' = Unleased
  BY <1>0 DEF LeasedApart, Unleased, Leased, Child, Extending, Requeues, Tells
<1>3. ToldFits'
  <2>1. \A n \in Token : acked[n] <= now' + Ttl
    BY <1>0, <1>1, BoundsAssumption DEF ToldFits
  <2> QED BY <1>0, <2>1 DEF ToldFits
<1>4. ASSUME NEW c \in Client PROVE ClientFits(agenda'[c], acked', leases', queue'[managers'], now')
  <2>1. agenda[c] \in Seq(Tasks)
    BY <1>0, Numbers
  <2>2. ClientFits(agenda[c], acked, leases, queue[managers], now)
    BY DEF OnTimeInv
  <2>3. KeptFor(agenda[c], acked, acked, leases, leases, queue[managers], queue[managers], now)
    BY DEF KeptFor
  <2>4. ClientFits(agenda[c], acked, leases, queue[managers], now')
    BY <1>0, <1>1, <2>1, <2>2, <2>3, ClientStays
  <2> QED BY <2>4
<1>5. ASSUME NEW e \in Manager PROVE CheckerFits(agenda'[e], queue'[e], now', Unleased')
  <2>1. CheckerFits(agenda[e], queue[e], now, Unleased)
    BY DEF OnTimeInv
  <2>2. CheckerFits(agenda[e], queue[e], now', Unleased)
    BY <1>0, <1>1, <2>1, CheckerStays
  <2> QED BY <1>2, <2>2
<1> QED BY <1>2, <1>3, <1>4, <1>5 DEF OnTimeInv

LEMMA VaultOnTime ==
    ASSUME OnTimeInv, TypeInv', Seal \/ Open \/ Tick \/ UNCHANGED vars PROVE OnTimeInv'
<1>1. /\ UNCHANGED <<leases, parents, issued, acked, agenda, managers, queue, looping>>
      /\ now' = now \/ now' = now + 1
  BY DEF Seal, Open, Tick, vars, storageVars, checkVars, boundVars, toldVars
<1>2. ThreadsFit
  BY DEF OnTimeInv
<1>3. ThreadsFit'
  <2>1. CASE Seal
    BY <1>1, <1>2, <2>1 DEF Seal, ThreadsFit
  <2>2. CASE Open
    BY <1>1, <1>2, <2>2 DEF Open, ThreadsFit
  <2>3. CASE Tick \/ UNCHANGED vars
    <3>1. status' = status
      BY <2>3 DEF Tick, vars
    <3> QED BY <1>1, <1>2, <3>1 DEF ThreadsFit
  <2> QED BY <2>1, <2>2, <2>3
<1> QED BY <1>1, <1>3, StillOnTime

LEMMA LockOnTime ==
    ASSUME OnTimeInv, TypeInv', NEW e \in Manager, CheckerLock(e) \/ CheckerUnlock(e) PROVE OnTimeInv'
<1>1. UNCHANGED <<leases, parents, issued, acked, agenda, managers, queue, now, status>>
  BY DEF CheckerLock, CheckerUnlock, storageVars, boundVars, toldVars
<1>2. looping \subseteq looping' \cup {e} /\ (agenda[e] # <<>> => e \in looping')
  <2>1. CASE CheckerLock(e)
    BY <2>1 DEF CheckerLock
  <2>2. CASE CheckerUnlock(e)
    BY <2>2 DEF CheckerUnlock
  <2> QED BY <2>1, <2>2
<1>3. ThreadsFit'
  BY <1>1, <1>2 DEF OnTimeInv, ThreadsFit
<1> QED BY <1>1, <1>3, StillOnTime

\* The new queue is made from the leases; no request and no new checker is at work.
LEMMA UnsealOnTime == ASSUME OnTimeInv, TypeInv', Unseal PROVE OnTimeInv'
<1>0. /\ TypeOK /\ now \in Nat /\ managers \in Nat
      /\ \A e \in Manager, n \in Token : queue[e][n] \in Nat \cup {None}
      /\ LeasedApart /\ ToldFits /\ ThreadsFit
  <2>1. managers \in 0 .. MaxManagers
    BY OnTimeTypes
  <2> QED BY <2>1, OnTimeTypes, BoundsAssumption DEF OnTimeInv
<1>a. now <= now
  BY <1>0
<1>1. UNCHANGED <<leases, parents, issued, acked, agenda, now, looping>>
  BY DEF Unseal, storageVars, boundVars, toldVars
<1> DEFINE m == managers + 1
<1>2. /\ status = "open" /\ status' = "ready" /\ managers' = m
      /\ queue' = [queue EXCEPT ![m] = Restored]
  BY DEF Unseal
<1>3. m \in Manager /\ \A c \in Client : agenda[c] = <<>>
  <2>1. managers < MaxManagers
    BY <1>2 DEF OnTimeInv, TypeInv
  <2> QED BY <1>0, <1>2, <2>1, BoundsAssumption DEF Manager, ThreadsFit
<1>4. agenda[m] = <<>>
  <2>1. m \notin looping
    BY <1>0 DEF TypeOK
  <2> QED BY <1>0, <1>3, <2>1 DEF ThreadsFit
<1>5. queue'[m] = Restored /\ \A e \in Manager \ {m} : queue'[e] = queue[e]
  BY <1>0, <1>2, <1>3 DEF TypeOK
<1>6. LeasedApart' /\ Unleased' = Unleased
  BY <1>0, <1>1 DEF LeasedApart, Unleased, Leased, Child, Extending, Requeues, Tells
<1>7. ThreadsFit'
  BY <1>0, <1>1, <1>2, <1>3 DEF ThreadsFit
<1>8. ToldFits'
  <2>1. \A n \in Token : Restored[n] = None \/ acked[n] <= Restored[n]
    BY <1>0, Numbers DEF ToldFits, Restored
  <2> QED BY <1>0, <1>1, <1>2, <1>3, <1>5, <2>1 DEF ToldFits
<1>9. ASSUME NEW c \in Client PROVE ClientFits(agenda'[c], acked', leases', queue'[managers'], now')
  BY <1>1, <1>3 DEF ClientFits
<1>10. ASSUME NEW e \in Manager PROVE CheckerFits(agenda'[e], queue'[e], now', Unleased')
  <2>1. CASE e = m
    BY <1>1, <1>4, <2>1 DEF CheckerFits
  <2>2. CASE e # m
    <3>1. CheckerFits(agenda[e], queue[e], now, Unleased)
      BY DEF OnTimeInv
    <3> QED BY <1>1, <1>5, <1>6, <2>2, <3>1
  <2> QED BY <2>1, <2>2
<1> QED BY <1>6, <1>7, <1>8, <1>9, <1>10 DEF OnTimeInv

LEMMA CrashOnTime == ASSUME OnTimeInv, TypeInv', Crash PROVE OnTimeInv'
<1>0. LeasedApart /\ ToldFits
  BY DEF OnTimeInv
<1>1. UNCHANGED <<leases, parents, issued, acked, now>> /\ managers' = 0 /\ status' = "sealed"
  BY DEF Crash, storageVars, boundVars, toldVars
<1>2. \A x \in Thread : agenda'[x] = <<>>
  BY DEF Crash
<1>3. \A n \in Token : (Leased(n)' => Leased(n)) /\ (Child(n)' => Child(n))
  <2>1. \A x \in Thread : \A i \in DOMAIN agenda'[x] : FALSE
    BY <1>2
  <2>2. ASSUME NEW n \in Token, Leased(n)' PROVE Leased(n)
    BY <1>1, <2>1, <2>2 DEF Leased
  <2>3. ASSUME NEW n \in Token, Child(n)' PROVE Child(n)
    BY <1>1, <2>1, <2>3 DEF Child
  <2> QED BY <2>2, <2>3
<1>4. LeasedApart'
  BY <1>0, <1>1, <1>3 DEF LeasedApart
<1>5. ThreadsFit'
  BY <1>1, <1>2, Numbers DEF ThreadsFit
<1>6. ToldFits'
  <2>1. 0 \notin Manager
    BY BoundsAssumption DEF Manager
  <2> QED BY <1>0, <1>1, <2>1 DEF ToldFits
<1>7. ASSUME NEW c \in Client PROVE ClientFits(agenda'[c], acked', leases', queue'[managers'], now')
  BY <1>2, Numbers, EmptyFits
<1>8. ASSUME NEW e \in Manager PROVE CheckerFits(agenda'[e], queue'[e], now', Unleased')
  BY <1>2, Numbers, EmptyFits
<1> QED BY <1>4, <1>5, <1>6, <1>7, <1>8 DEF OnTimeInv

LEMMA OnTimeInit == Init => OnTimeInv
<1> SUFFICES ASSUME Init PROVE OnTimeInv
  OBVIOUS
<1>1. TypeInv
  BY TypeInit
<1>2. \A x \in Thread : agenda[x] = <<>>
  BY DEF Init
<1>3. ThreadsFit
  BY <1>2, Numbers DEF Init, ThreadsFit
<1>4. LeasedApart
  <2>1. \A n \in Token : leases[n] = None /\ acked[n] = 0
    BY Numbers DEF Init
  <2>2. parents = {}
    BY DEF Init
  <2> QED BY <1>2, <2>1, <2>2 DEF LeasedApart, Leased, Child
<1>5. ToldFits
  <2>1. \A n \in Token : leases[n] = None /\ acked[n] = 0
    BY Numbers DEF Init
  <2>2. managers \notin Manager /\ now = 0
    BY BoundsAssumption DEF Init, Manager
  <2> QED BY <2>1, <2>2, BoundsAssumption DEF ToldFits
<1>6. \A c \in Client : ClientFits(agenda[c], acked, leases, queue[managers], now)
  BY <1>2, Numbers, EmptyFits
<1>7. \A e \in Manager : CheckerFits(agenda[e], queue[e], now, Unleased)
  BY <1>2, Numbers, EmptyFits
<1> QED BY <1>1, <1>3, <1>4, <1>5, <1>6, <1>7 DEF OnTimeInv

LEMMA OnTimeStep == OnTimeInv /\ OneRenewal /\ [Next]_vars => OnTimeInv'
<1> SUFFICES ASSUME OnTimeInv, OneRenewal, [Next]_vars PROVE OnTimeInv'
  OBVIOUS
<1>0. TypeInv' /\ Client \subseteq Thread /\ Manager \subseteq Thread
  BY TypeStep, Numbers DEF OnTimeInv
<1>1. ASSUME NEW x \in Thread, RevokeStep(x) PROVE OnTimeInv'
  BY <1>0, <1>1, TreeOnTime, RevokeOnTime, LinkOnTime, ByTokenOnTime, DeleteOnTime, ShortOnTime,
     QueueOnTime DEF RevokeStep
<1>2. ASSUME NEW c \in Client, RequestStep(c) PROVE OnTimeInv'
  BY <1>0, <1>1, <1>2, CheckOnTime, ShortOnTime, CreateOnTime, LinkOnTime, PostRouteOnTime, RegisterOnTime,
     RenewOnTime, PersistOnTime, SecretOnTime, AnswerOnTime DEF RequestStep
<1>3. ASSUME NEW e \in Manager, CheckerStep(e) PROVE OnTimeInv'
  BY <1>0, <1>1, <1>3, LockOnTime, NextOnTime, ExpireOnTime, PopOnTime DEF CheckerStep
<1>4. ASSUME NEW c \in Client, Request(c) PROVE OnTimeInv'
  BY <1>0, <1>4, RequestOnTime
<1>5. ASSUME NEW x \in Thread, Fail(x) PROVE OnTimeInv'
  BY <1>0, <1>5, FailOnTime
<1>6. CASE Seal \/ Open \/ Tick \/ UNCHANGED vars
  BY <1>0, <1>6, VaultOnTime
<1>7. CASE Unseal \/ Crash
  BY <1>0, <1>7, UnsealOnTime, CrashOnTime
<1> QED BY <1>2, <1>3, <1>4, <1>5, <1>6, <1>7 DEF Next

LEMMA OnTimeUse == OnTimeInv => CheckerOnTime
<1> SUFFICES ASSUME OnTimeInv, NEW e \in Manager, e = managers, Doing(e, "revoke"), now < acked[Task(e).id]
             PROVE  FALSE
  BY DEF CheckerOnTime, TooEarly
<1>0. /\ TypeOK /\ now \in Nat /\ e \in Thread
      /\ \A n \in Token : acked[n] \in Nat
      /\ \A d \in Manager, n \in Token : queue[d][n] \in Nat \cup {None}
  BY OnTimeTypes, Numbers
<1> DEFINE n == Task(e).id
<1>1. /\ 1 \in DOMAIN agenda[e] /\ agenda[e][1] = Task(e) /\ Task(e).do = "revoke" /\ n \in Token
  BY <1>0, DoingFacts, TaskFields DEF OnToken
<1>2. n \in Unleased \/ DueIn(queue[e], n, now)
  <2>1. CheckerFits(agenda[e], queue[e], now, Unleased)
    BY DEF OnTimeInv
  <2> QED BY <1>1, <2>1 DEF CheckerFits
<1>3. CASE n \in Unleased
  <2>1. acked[n] = 0
    BY <1>3 DEF Unleased, Leased
  <2> QED BY <1>0, <2>1
<1>4. CASE DueIn(queue[e], n, now)
  <2>1. acked[n] <= queue[e][n] /\ queue[e][n] <= now /\ queue[e][n] \in Nat
    BY <1>0, <1>1, <1>4 DEF DueIn, OnTimeInv, ToldFits
  <2> QED BY <1>0, <1>1, <2>1
<1> QED BY <1>2, <1>3, <1>4

\* With any number of clients, seals, unseals and crashes, as long as no two
\* requests renew one token at the same time: the checker of the newest manager
\* never deletes a token before the time its owner was told.
THEOREM TokensCheckerOnTime == Spec /\ []OneRenewal => []CheckerOnTime
BY OnTimeInit, OnTimeStep, OnTimeUse, PTL DEF Spec


-----------------------------------------------------------------------------
(* A tree that was revoked is gone *)

\* n is linked to p, or is about to be.
LinkDue(ag, p, n) ==
    \E x \in Thread : \E i \in DOMAIN ag[x] :
        ag[x][i].do = "index" /\ ag[x][i].id = n /\ ag[x][i].parent = p
Linking(p, n) == <<p, n>> \in parents \/ LinkDue(agenda, p, n)

\* A token without a use count, for good: nobody is about to write it.
Fertile(m) ==
    /\ m <= issued
    /\ ~Pending(agenda, "put", m) /\ ~Pending(agenda, "use", m)
    /\ tokens[m] # None => tokens[m].num_uses = 0

\* One that post_route made: no child of it has an id that a client knows,
\* since only root chooses ids.
Tame(m) ==
    /\ Fertile(m)
    /\ tokens[m] # None => tokens[m].parent = None /\ tokens[m].root = FALSE
    /\ \A n \in Token : Linking(m, n) => n \notin held

\* One whose id no client will ever know.
Hails(k) == k.do = "lease" \/ (k.do = "reply" /\ k.op = "token")
Hailed(ag, m) == \E x \in Thread : \E i \in DOMAIN ag[x] : Hails(ag[x][i]) /\ ag[x][i].id = m
Sterile(m) == m <= issued /\ m \notin held /\ ~Hailed(agenda, m)

Leasing(m) == leases[m] # None \/ Pending(agenda, "lease", m) \/ Pending(agenda, "renewal", m)

HeldIssued == \A n \in held : n <= issued

ParentsHeld == \A p, n \in Token : Linking(p, n) => p \in held /\ Fertile(p)

\* What a request works with is held; a use that is to be counted is there.
RequestKnows == \A x \in Thread : \A i \in DOMAIN agenda[x] :
    LET k == agenda[x][i] IN
    /\ k.do \in {"create", "check", "use"} => k.id \in held
    /\ k.do = "use" => k.entry.num_uses # 0 /\ tokens[k.id] # None /\ tokens[k.id].num_uses # 0

LeasedTame == \A m \in Token : Leasing(m) => Tame(m)

\* What a checker works on has a lease of its own or is the child of such a token.
CheckerHas(ag, K, n) ==
    \E e \in Manager : \E i \in DOMAIN ag[e] : ag[e][i].do \in K /\ ag[e][i].id = n
CheckerKnows == \A n \in Token :
    /\ ~CheckerHas(agenda, {"put", "use"}, n)
    /\ CheckerHas(agenda, {"tree", "revoke"}, n) => Tame(n) \/ Sterile(n)
    /\ CheckerHas(agenda, {"unparent"}, n) => Sterile(n)

KinInv ==
    /\ TreeInv /\ OnTimeInv
    /\ HeldIssued /\ ParentsHeld /\ RequestKnows /\ LeasedTame /\ CheckerKnows

\* What the links lead to from the tokens in P.
Closed(S, links) == \A p \in S, n \in Token : <<p, n>> \in links => n \in S
Below(P, links) ==
    {n \in Token : \A S \in SUBSET Token : P \subseteq S /\ Closed(S, links) => n \in S}
Kids(m, links) == {n \in Token : <<m, n>> \in links}

\* The task k leads to a revocation of n.
Reaches(k, n, links) ==
    \/ k.do = "revoke" /\ k.id = n
    \/ k.do = "tree" /\ n \in Below({k.id}, links)
Ahead(a, i, n, links) == \E j \in DOMAIN a : j < i /\ Reaches(a[j], n, links)

\* What is stored below a token goes before the token; its link goes when
\* nothing is stored below it.
Swept(a, i, toks, links) ==
    /\ a[i].do = "revoke" =>
          \A n \in Below(Kids(a[i].id, links), links) : toks[n] # None => Ahead(a, i, n, links)
    /\ a[i].do = "unparent" => \A n \in Below({a[i].id}, links) : toks[n] = None

SweepTasks == {"check", "use", "tree", "revoke", "unparent", "secrets", "drop", "unindex", "enqueue"}
Confirms(k) == k.do = "reply" /\ k.op = "revoke"

\* The agenda of a revocation: what is stored of the tree goes before the answer.
Sweeps(a, toks, links, top) ==
    \A k \in DOMAIN a : Confirms(a[k]) =>
        /\ k = Len(a)
        /\ \A n \in a[k].tree : n <= top /\ (toks[n] # None => Ahead(a, k, n, links))
        /\ \A i \in DOMAIN a : i < k => a[i].do \in SweepTasks /\ Swept(a, i, toks, links)

GoneForGood == \A n \in revoked : n <= issued /\ tokens[n] = None /\ ~Pending(agenda, "put", n)

SweepInv ==
    /\ KinInv /\ GoneForGood
    /\ \A c \in Client : Sweeps(agenda[c], tokens, parents, issued)

\* What a step of x may add to its agenda.
Fresh(k, x) ==
    /\ k.do = "put" => x \in Client /\ k.id = issued + 1 /\ issued' = issued + 1
    /\ k.do = "use" => /\ x \in Client /\ k.id \in held /\ k.entry.num_uses # 0
                       /\ tokens[k.id] # None /\ tokens[k.id].num_uses # 0
                       /\ tokens'[k.id] = tokens[k.id]
    /\ k.do \in {"create", "check"} => k.id \in held
    /\ k.do = "index" => /\ k.id = issued + 1 /\ issued' = issued + 1
                         /\ k.parent \in held /\ Fertile(k.parent)
                         /\ k.id \in held' => tokens[k.parent] # None /\ tokens[k.parent].root = TRUE
    /\ k.do = "lease" => k.id = issued + 1 /\ issued' = issued + 1 /\ \A n \in Token : n = k.id => Tame(n)'
    /\ k.do = "renewal" => leases[k.id] # None
    /\ k.do = "reply" /\ Hails(k) => Hailed(agenda, k.id)
    /\ Confirms(k) => agenda[x] = <<>>
    /\ x \in Manager =>
          /\ k.do \in {"tree", "revoke"} => Tame(k.id) \/ Sterile(k.id)
          /\ k.do = "unparent" => Sterile(k.id)

\* What a step of x does to a token that it changes.
Writes(x, n) ==
    \/ Doing(x, "revoke") /\ Task(x).id = n /\ tokens'[n] = None
    \/ (Doing(x, "use") \/ Doing(x, "put")) /\ Task(x).id = n /\ tokens'[n] = Task(x).entry
    \/ n = issued + 1

Adds(x) ==
    \A y \in Thread : \A i \in DOMAIN agenda'[y] :
        \/ \E j \in DOMAIN agenda[y] : agenda'[y][i] = agenda[y][j]
        \/ y = x /\ Fresh(agenda'[y][i], x)

StepOf(x) ==
    /\ Adds(x)
    /\ \A n \in Token : tokens'[n] = tokens[n] \/ Writes(x, n)
    /\ \A p, n \in Token : <<p, n>> \in parents' => Linking(p, n)
    /\ \A m \in Token : leases'[m] # None => Leasing(m)
    /\ issued' \in {issued, issued + 1}
    /\ held \subseteq held'
    /\ \A n \in held' : n \in held \/ Hailed(agenda, n) \/ (n = issued + 1 /\ issued' = n)

LEMMA KinNumbers ==
    ASSUME TypeOK PROVE issued \in Nat /\ Token \subseteq Nat /\ held \subseteq Token
<1>1. issued \in 1 .. MaxTokens /\ held \subseteq Token
  BY DEF TypeOK
<1> QED BY <1>1, Numbers, BoundsAssumption

\* A task of a kind that is due after the step was due before, or is new.
LEMMA StillDue ==
    ASSUME NEW x \in Thread, StepOf(x), NEW n
    PROVE  /\ \A do : Pending(agenda', do, n) =>
                 \/ Pending(agenda, do, n)
                 \/ \E k : k.do = do /\ k.id = n /\ Fresh(k, x)
           /\ Hailed(agenda', n) => Hailed(agenda, n) \/ \E k : Hails(k) /\ k.id = n /\ Fresh(k, x)
           /\ \A p : LinkDue(agenda', p, n) =>
                 \/ LinkDue(agenda, p, n)
                 \/ \E k : k.do = "index" /\ k.id = n /\ k.parent = p /\ Fresh(k, x)
           /\ \A K : CheckerHas(agenda', K, n) =>
                 \/ CheckerHas(agenda, K, n)
                 \/ x \in Manager /\ \E k : k.do \in K /\ k.id = n /\ Fresh(k, x)
<1>1. \A y \in Thread : \A i \in DOMAIN agenda'[y] :
          \/ \E j \in DOMAIN agenda[y] : agenda'[y][i] = agenda[y][j]
          \/ y = x /\ Fresh(agenda'[y][i], x)
  BY DEF StepOf, Adds
<1>2. ASSUME NEW do, Pending(agenda', do, n)
      PROVE  Pending(agenda, do, n) \/ \E k : k.do = do /\ k.id = n /\ Fresh(k, x)
  <2>1. PICK y \in Thread : \E i \in DOMAIN agenda'[y] : agenda'[y][i].do = do /\ agenda'[y][i].id = n
    BY <1>2 DEF Pending
  <2>2. PICK i \in DOMAIN agenda'[y] : agenda'[y][i].do = do /\ agenda'[y][i].id = n
    BY <2>1
  <2>3. (\E j \in DOMAIN agenda[y] : agenda'[y][i] = agenda[y][j]) \/ Fresh(agenda'[y][i], x)
    BY <1>1
  <2> QED BY <2>2, <2>3 DEF Pending
<1>3. ASSUME Hailed(agenda', n)
      PROVE  Hailed(agenda, n) \/ \E k : Hails(k) /\ k.id = n /\ Fresh(k, x)
  <2>1. PICK y \in Thread : \E i \in DOMAIN agenda'[y] : Hails(agenda'[y][i]) /\ agenda'[y][i].id = n
    BY <1>3 DEF Hailed
  <2>2. PICK i \in DOMAIN agenda'[y] : Hails(agenda'[y][i]) /\ agenda'[y][i].id = n
    BY <2>1
  <2>3. (\E j \in DOMAIN agenda[y] : agenda'[y][i] = agenda[y][j]) \/ Fresh(agenda'[y][i], x)
    BY <1>1
  <2> QED BY <2>2, <2>3 DEF Hailed
<1>4. ASSUME NEW p, LinkDue(agenda', p, n)
      PROVE  LinkDue(agenda, p, n) \/ \E k : k.do = "index" /\ k.id = n /\ k.parent = p /\ Fresh(k, x)
  <2>1. PICK y \in Thread : \E i \in DOMAIN agenda'[y] :
            agenda'[y][i].do = "index" /\ agenda'[y][i].id = n /\ agenda'[y][i].parent = p
    BY <1>4 DEF LinkDue
  <2>2. PICK i \in DOMAIN agenda'[y] :
            agenda'[y][i].do = "index" /\ agenda'[y][i].id = n /\ agenda'[y][i].parent = p
    BY <2>1
  <2>3. (\E j \in DOMAIN agenda[y] : agenda'[y][i] = agenda[y][j]) \/ Fresh(agenda'[y][i], x)
    BY <1>1
  <2> QED BY <2>2, <2>3 DEF LinkDue
<1>5. ASSUME NEW K, CheckerHas(agenda', K, n)
      PROVE  \/ CheckerHas(agenda, K, n)
             \/ x \in Manager /\ \E k : k.do \in K /\ k.id = n /\ Fresh(k, x)
  <2>1. PICK y \in Manager : \E i \in DOMAIN agenda'[y] : agenda'[y][i].do \in K /\ agenda'[y][i].id = n
    BY <1>5 DEF CheckerHas
  <2>2. PICK i \in DOMAIN agenda'[y] : agenda'[y][i].do \in K /\ agenda'[y][i].id = n
    BY <2>1
  <2>3. y \in Thread
    BY Numbers
  <2>4. \/ \E j \in DOMAIN agenda[y] : agenda'[y][i] = agenda[y][j]
        \/ y = x /\ Fresh(agenda'[y][i], x)
    BY <1>1, <2>3
  <2> QED BY <2>2, <2>4 DEF CheckerHas
<1> QED BY <1>2, <1>3, <1>4, <1>5

\* Who is about to be written, and by whom.
LEMMA WriteDue ==
    ASSUME TypeOK, NEW x \in Thread, NEW n \in Token, Writes(x, n)
    PROVE  \/ Doing(x, "revoke") /\ Task(x).id = n /\ tokens'[n] = None /\ Pending(agenda, "revoke", n)
           \/ /\ Doing(x, "use") /\ Task(x).id = n /\ tokens'[n] = Task(x).entry
              /\ Pending(agenda, "use", n)
           \/ /\ Doing(x, "put") /\ Task(x).id = n /\ tokens'[n] = Task(x).entry
              /\ Pending(agenda, "put", n)
           \/ n = issued + 1
<1>1. ASSUME NEW do, Doing(x, do), Task(x).id = n PROVE Pending(agenda, do, n)
  BY <1>1, DoingFacts DEF Pending
<1> QED BY <1>1 DEF Writes

LEMMA StillFertile ==
    ASSUME TypeOK, NEW x \in Thread, StepOf(x), NEW m \in Token, Fertile(m)
    PROVE  Fertile(m)' /\ tokens'[m] \in {tokens[m], None}
<1>0. issued \in Nat /\ m \in Nat /\ issued' \in {issued, issued + 1}
  BY KinNumbers DEF StepOf
<1>1. m <= issued' /\ m # issued + 1
  BY <1>0 DEF Fertile
<1>2. ~Pending(agenda', "put", m)
  <2>1. ASSUME NEW k, k.do = "put", k.id = m, Fresh(k, x) PROVE FALSE
    BY <1>1, <2>1 DEF Fresh
  <2> QED BY <2>1, StillDue DEF Fertile
<1>3. ~Pending(agenda', "use", m)
  <2>1. ASSUME NEW k, k.do = "use", k.id = m, Fresh(k, x) PROVE FALSE
    BY <2>1 DEF Fresh, Fertile
  <2> QED BY <2>1, StillDue DEF Fertile
<1>4. tokens'[m] \in {tokens[m], None}
  <2>1. tokens'[m] = tokens[m] \/ Writes(x, m)
    BY DEF StepOf
  <2> QED BY <1>1, <2>1, WriteDue DEF Fertile
<1> QED BY <1>1, <1>2, <1>3, <1>4 DEF Fertile

\* A token that a client is about to learn of is no child.
LEMMA HailedApart ==
    ASSUME OnTimeInv, NEW n \in Token
    PROVE  /\ Hailed(agenda, n) => n <= issued /\ ~Child(n)
           /\ \A p \in Token : Linking(p, n) => Child(n) /\ n <= issued
<1>1. Hailed(agenda, n) => Leased(n)
  BY DEF Hailed, Hails, Leased, Extending, Tells
<1>2. \A p \in Token : Linking(p, n) => Child(n)
  BY DEF Linking, LinkDue, Child
<1> QED BY <1>1, <1>2 DEF OnTimeInv, LeasedApart

\* What nobody may learn of stays so.
LEMMA StillUnknown ==
    ASSUME OnTimeInv, NEW x \in Thread, StepOf(x), NEW n \in Token, n \notin held, n <= issued,
           ~Hailed(agenda, n)
    PROVE  n \notin held' /\ ~Hailed(agenda', n)
<1>0. issued \in Nat /\ n \in Nat /\ n # issued + 1
  BY KinNumbers DEF OnTimeInv, TypeInv
<1>1. n \notin held'
  BY <1>0 DEF StepOf
<1>2. ASSUME NEW k, Hails(k), k.id = n, Fresh(k, x) PROVE FALSE
  BY <1>0, <1>2 DEF Hails, Fresh
<1> QED BY <1>1, <1>2, StillDue

LEMMA StillSterile ==
    ASSUME OnTimeInv, NEW x \in Thread, StepOf(x), NEW m \in Token, Sterile(m)
    PROVE  Sterile(m)'
<1>0. issued \in Nat /\ m \in Nat /\ issued' \in {issued, issued + 1}
  BY KinNumbers DEF StepOf, OnTimeInv, TypeInv
<1>1. m <= issued'
  BY <1>0 DEF Sterile
<1>2. m \notin held' /\ ~Hailed(agenda', m)
  BY StillUnknown DEF Sterile
<1> QED BY <1>1, <1>2 DEF Sterile

LEMMA StillTame ==
    ASSUME OnTimeInv, NEW x \in Thread, StepOf(x), NEW m \in Token, Tame(m)
    PROVE  Tame(m)'
<1>0. TypeOK
  BY DEF OnTimeInv, TypeInv
<1>1. Fertile(m)' /\ tokens'[m] \in {tokens[m], None}
  BY <1>0, StillFertile DEF Tame
<1>2. ASSUME NEW n \in Token, Linking(m, n)' PROVE n \notin held'
  <2>1. ASSUME Linking(m, n) PROVE n \notin held'
    BY <2>1, HailedApart, StillUnknown DEF Tame
  <2>2. ASSUME NEW k, k.do = "index", k.id = n, k.parent = m, Fresh(k, x) PROVE n \notin held'
    BY <2>2 DEF Fresh, Tame
  <2>3. <<m, n>> \in parents' \/ LinkDue(agenda', m, n)
    BY <1>2 DEF Linking
  <2>4. <<m, n>> \in parents' => Linking(m, n)
    BY DEF StepOf
  <2>5. LinkDue(agenda', m, n) =>
            Linking(m, n) \/ \E k : k.do = "index" /\ k.id = n /\ k.parent = m /\ Fresh(k, x)
    BY StillDue DEF Linking
  <2> QED BY <2>1, <2>2, <2>3, <2>4, <2>5
<1>3. tokens'[m] # None => tokens'[m].parent = None /\ tokens'[m].root = FALSE
  BY <1>1 DEF Tame
<1> QED BY <1>1, <1>2, <1>3 DEF Tame

\* A step keeps what is known of each thread.
LEMMA KinStep ==
    ASSUME KinInv, OneRequest, NEW x \in Thread, StepOf(x), TreeInv', OnTimeInv' PROVE KinInv'
<1>0. /\ TypeOK /\ OnTimeInv /\ TreeInv /\ issued \in Nat /\ Token \subseteq Nat /\ held \subseteq Token
      /\ held' \subseteq Token /\ issued' \in {issued, issued + 1}
  <2>1. TypeOK /\ OnTimeInv /\ TreeInv
    BY DEF KinInv, OnTimeInv, TypeInv
  <2>2. TypeOK'
    BY DEF OnTimeInv, TypeInv
  <2> QED BY <2>1, <2>2, KinNumbers DEF StepOf, TypeOK
<1>1. HeldIssued'
  <2>1. ASSUME NEW n \in held' PROVE n <= issued'
    <3>1. n \in Token /\ (n \in held \/ Hailed(agenda, n) \/ issued' = n)
      BY <1>0 DEF StepOf
    <3>2. n <= issued \/ issued' = n
      BY <1>0, <3>1, HailedApart DEF KinInv, HeldIssued
    <3> QED BY <1>0, <3>1, <3>2
  <2> QED BY <2>1 DEF HeldIssued
<1>2. ParentsHeld'
  <2>1. ASSUME NEW p \in Token, NEW n \in Token, Linking(p, n)' PROVE p \in held' /\ Fertile(p)'
    <3>1. ASSUME p \in held, Fertile(p) PROVE p \in held' /\ Fertile(p)'
      BY <1>0, <3>1, StillFertile DEF StepOf
    <3>2. <<p, n>> \in parents' \/ LinkDue(agenda', p, n)
      BY <2>1 DEF Linking
    <3>3. <<p, n>> \in parents' => Linking(p, n)
      BY DEF StepOf
    <3>4. LinkDue(agenda', p, n) =>
            Linking(p, n) \/ \E k : k.do = "index" /\ k.id = n /\ k.parent = p /\ Fresh(k, x)
      BY StillDue DEF Linking
    <3>5. Linking(p, n) => p \in held /\ Fertile(p)
      BY DEF KinInv, ParentsHeld
    <3>6. ASSUME NEW k, k.do = "index", k.parent = p, Fresh(k, x) PROVE p \in held /\ Fertile(p)
      BY <3>6 DEF Fresh
    <3> QED BY <3>1, <3>2, <3>3, <3>4, <3>5, <3>6
  <2> QED BY <2>1 DEF ParentsHeld
<1>3. LeasedTame'
  <2>1. ASSUME NEW m \in Token, Leasing(m)' PROVE Tame(m)'
    <3>1. Leasing(m) => Tame(m)'
      BY <1>0, StillTame DEF KinInv, LeasedTame
    <3>2. leases'[m] # None => Leasing(m)
      BY DEF StepOf
    <3>3. Pending(agenda', "lease", m) => Leasing(m) \/ Tame(m)'
      <4>1. ASSUME NEW k, k.do = "lease", k.id = m, Fresh(k, x) PROVE Tame(m)'
        BY <4>1 DEF Fresh
      <4> QED BY <4>1, StillDue DEF Leasing
    <3>4. Pending(agenda', "renewal", m) => Leasing(m)
      <4>1. ASSUME NEW k, k.do = "renewal", k.id = m, Fresh(k, x) PROVE Leasing(m)
        BY <4>1 DEF Fresh, Leasing
      <4> QED BY <4>1, StillDue DEF Leasing
    <3> QED BY <2>1, <3>1, <3>2, <3>3, <3>4 DEF Leasing
  <2> QED BY <2>1 DEF LeasedTame
<1>4. CheckerKnows'
  <2>0. x \in Manager => x \notin Client
    BY Numbers
  <2>1. ASSUME NEW n \in Token
        PROVE  /\ ~CheckerHas(agenda', {"put", "use"}, n)
               /\ CheckerHas(agenda', {"tree", "revoke"}, n) => Tame(n)' \/ Sterile(n)'
               /\ CheckerHas(agenda', {"unparent"}, n) => Sterile(n)'
    <3>0. /\ ~CheckerHas(agenda, {"put", "use"}, n)
          /\ CheckerHas(agenda, {"tree", "revoke"}, n) => Tame(n) \/ Sterile(n)
          /\ CheckerHas(agenda, {"unparent"}, n) => Sterile(n)
      BY DEF KinInv, CheckerKnows
    <3>1. ~CheckerHas(agenda', {"put", "use"}, n)
      <4>1. ASSUME x \in Manager, NEW k, k.do \in {"put", "use"}, Fresh(k, x) PROVE FALSE
        BY <2>0, <4>1 DEF Fresh
      <4> QED BY <3>0, <4>1, StillDue
    <3>2. CheckerHas(agenda', {"tree", "revoke"}, n) => Tame(n) \/ Sterile(n)
      <4>1. ASSUME x \in Manager, NEW k, k.do \in {"tree", "revoke"}, k.id = n, Fresh(k, x)
            PROVE  Tame(n) \/ Sterile(n)
        BY <4>1 DEF Fresh
      <4> QED BY <3>0, <4>1, StillDue
    <3>3. CheckerHas(agenda', {"unparent"}, n) => Sterile(n)
      <4>1. ASSUME x \in Manager, NEW k, k.do \in {"unparent"}, k.id = n, Fresh(k, x)
            PROVE  Sterile(n)
        BY <4>1 DEF Fresh
      <4> QED BY <3>0, <4>1, StillDue
    <3>4. (Tame(n) => Tame(n)') /\ (Sterile(n) => Sterile(n)')
      BY <1>0, StillTame, StillSterile
    <3> QED BY <3>1, <3>2, <3>3, <3>4
  <2> QED BY <2>1 DEF CheckerKnows
<1>5. RequestKnows'
  <2>1. ASSUME NEW y \in Thread, NEW j \in DOMAIN agenda[y], agenda[y][j].do = "use"
        PROVE  LET n == agenda[y][j].id IN tokens'[n] # None /\ tokens'[n].num_uses # 0
    <3> DEFINE n == agenda[y][j].id
    <3>1. /\ agenda[y][j].entry.num_uses # 0 /\ tokens[n] # None /\ tokens[n].num_uses # 0
          /\ n \in held /\ n \in Token /\ Pending(agenda, "use", n)
      BY <1>0, <2>1 DEF KinInv, RequestKnows, Pending
    <3>2. y \in Client /\ j = 1 /\ agenda[y] # <<>>
      <4>1. y \notin Manager
        BY <2>1, <3>1 DEF KinInv, CheckerKnows, CheckerHas
      <4>2. agenda[y] # <<>>
        <5>1. CASE agenda[y] = <<>>
          BY <2>1, <5>1
        <5> QED BY <5>1
      <4> QED BY <1>0, <2>1, <4>1, <4>2 DEF Thread, TreeInv, Shapes, OnceFirst
    <3>3. ~Pending(agenda, "put", n) /\ n # issued + 1
      <4>1. ~Pending(agenda, "put", n)
        BY <1>0, <3>1 DEF TreeInv, PutAlone
      <4>2. n <= issued /\ n \in Nat
        BY <1>0, <3>1 DEF KinInv, HeldIssued
      <4> QED BY <1>0, <4>1, <4>2
    <3>4. ASSUME Doing(x, "revoke"), Task(x).id = n PROVE FALSE
      <4>1. agenda[x] # <<>> /\ agenda[x][1].do = "revoke" /\ agenda[x][1].id = n /\ 1 \in DOMAIN agenda[x]
        BY <1>0, <3>4, DoingFacts
      <4>2. CASE x \in Client
        <5>1. x = y
          BY <3>2, <4>1, <4>2 DEF OneRequest
        <5> QED BY <2>1, <3>2, <4>1, <5>1
      <4>3. CASE x \in Manager
        <5>1. Tame(n) \/ Sterile(n)
          BY <3>1, <4>1, <4>3 DEF KinInv, CheckerKnows, CheckerHas
        <5> QED BY <3>1, <5>1 DEF Tame, Fertile, Sterile
      <4> QED BY <4>2, <4>3 DEF Thread
    <3>5. ASSUME Doing(x, "use"), Task(x).id = n, tokens'[n] = Task(x).entry
          PROVE  tokens'[n] # None /\ tokens'[n].num_uses # 0
      <4>1. /\ agenda[x][1].do = "use" /\ agenda[x][1] = Task(x) /\ 1 \in DOMAIN agenda[x]
            /\ Task(x) \in Tasks /\ Task(x).do = "use"
        BY <1>0, <3>5, DoingFacts
      <4>2. Task(x).entry \in TokenEntry
        BY <4>1, TaskFields
      <4>3. Task(x).entry.num_uses # 0
        BY <4>1 DEF KinInv, RequestKnows
      <4> QED BY <3>5, <4>2, <4>3, NoneApart
    <3>6. tokens'[n] = tokens[n] \/ Writes(x, n)
      BY <3>1 DEF StepOf
    <3> HIDE DEF n
    <3>7. tokens'[n] # None /\ tokens'[n].num_uses # 0
      BY <1>0, <3>1, <3>3, <3>4, <3>5, <3>6, WriteDue
    <3> QED BY <3>7 DEF n
  <2>2. ASSUME NEW y \in Thread, NEW i \in DOMAIN agenda'[y]
        PROVE  LET k == agenda'[y][i] IN
               /\ k.do \in {"create", "check", "use"} => k.id \in held'
               /\ k.do = "use" => /\ k.entry.num_uses # 0
                                  /\ tokens'[k.id] # None /\ tokens'[k.id].num_uses # 0
    <3> DEFINE k == agenda'[y][i]
    <3>1. (\E j \in DOMAIN agenda[y] : k = agenda[y][j]) \/ Fresh(k, x)
      BY DEF StepOf, Adds
    <3>2. held \subseteq held'
      BY DEF StepOf
    <3> HIDE DEF k
    <3>3. CASE \E j \in DOMAIN agenda[y] : k = agenda[y][j]
      <4>1. PICK j \in DOMAIN agenda[y] : k = agenda[y][j]
        BY <3>3
      <4>2. /\ k.do \in {"create", "check", "use"} => k.id \in held
            /\ k.do = "use" => k.entry.num_uses # 0
        BY <4>1 DEF KinInv, RequestKnows
      <4>3. k.do = "use" => tokens'[k.id] # None /\ tokens'[k.id].num_uses # 0
        BY <2>1, <4>1
      <4> QED BY <3>2, <4>2, <4>3 DEF k
    <3>4. CASE Fresh(k, x)
      <4>1. /\ k.do \in {"create", "check", "use"} => k.id \in held
            /\ k.do = "use" => /\ k.entry.num_uses # 0
                               /\ tokens'[k.id] # None /\ tokens'[k.id].num_uses # 0
        BY <3>4 DEF Fresh
      <4> QED BY <3>2, <4>1 DEF k
    <3> QED BY <3>1, <3>3, <3>4
  <2> QED BY <2>2 DEF RequestKnows
<1> QED BY <1>1, <1>2, <1>3, <1>4, <1>5 DEF KinInv

-----------------------------------------------------------------------------
(* Each step is one of these *)

LEMMA KinTypes ==
    ASSUME KinInv
    PROVE  /\ TypeOK /\ TreeInv /\ OnTimeInv /\ agenda \in [Thread -> Seq(Tasks)]
           /\ issued \in Nat /\ Token \subseteq Nat /\ held \subseteq Token
BY KinNumbers DEF KinInv, OnTimeInv, TypeInv, TypeOK

\* Tasks that may be added at any time.
FreeTask(k, x) ==
    /\ k.do \notin {"put", "use", "create", "check", "index", "lease", "renewal", "reply"}
    /\ k.do \in {"tree", "revoke", "unparent"} => x \notin Manager

LEMMA FreeFresh ==
    ASSUME NEW k, NEW x, FreeTask(k, x) PROVE Fresh(k, x)
BY DEF FreeTask, Fresh, Confirms

LEMMA AddThen ==
    ASSUME TypeOK, NEW x \in Thread, agenda[x] # <<>>, NEW s \in Seq(Tasks), Then(x, s),
           \A i \in DOMAIN s : Fresh(s[i], x)
    PROVE  Adds(x)
<1>1. agenda'[x] = s \o Tail(agenda[x]) /\ \A y \in Thread \ {x} : agenda'[y] = agenda[y]
  BY ThenAgenda DEF TypeOK
<1>2. agenda[x] \in Seq(Tasks)
  BY DEF TypeOK
<1>3. \A i \in DOMAIN agenda'[x] :
          (i \in DOMAIN s /\ agenda'[x][i] = s[i]) \/ \E j \in DOMAIN agenda[x] : agenda'[x][i] = agenda[x][j]
  BY <1>1, <1>2, ShiftParts
<1>4. ASSUME NEW y \in Thread, NEW i \in DOMAIN agenda'[y]
      PROVE  \/ \E j \in DOMAIN agenda[y] : agenda'[y][i] = agenda[y][j]
             \/ y = x /\ Fresh(agenda'[y][i], x)
  <2>1. CASE y = x
    BY <1>3, <2>1
  <2>2. CASE y # x
    BY <1>1, <2>2
  <2> QED BY <2>1, <2>2
<1> QED BY <1>4 DEF Adds

LEMMA AddNone ==
    ASSUME TypeOK, NEW x \in Thread, agenda[x] # <<>>, Then(x, <<>>) PROVE Adds(x)
<1>1. <<>> \in Seq(Tasks) /\ \A i \in DOMAIN <<>> : Fresh(<<>>[i], x)
  OBVIOUS
<1> QED BY <1>1, AddThen

LEMMA AddOne ==
    ASSUME TypeOK, NEW x \in Thread, agenda[x] # <<>>, NEW k \in Tasks, Then(x, <<k>>), Fresh(k, x)
    PROVE  Adds(x)
<1>1. <<k>> \in Seq(Tasks) /\ DOMAIN <<k>> = {1} /\ <<k>>[1] = k
  OBVIOUS
<1>2. \A i \in DOMAIN <<k>> : Fresh(<<k>>[i], x)
  BY <1>1
<1> QED BY <1>1, <1>2, AddThen

LEMMA AddTwo ==
    ASSUME TypeOK, NEW x \in Thread, agenda[x] # <<>>, NEW k \in Tasks, NEW m \in Tasks,
           Then(x, <<k, m>>), Fresh(k, x), Fresh(m, x)
    PROVE  Adds(x)
<1>1. <<k, m>> \in Seq(Tasks) /\ DOMAIN <<k, m>> = {1, 2} /\ <<k, m>>[1] = k /\ <<k, m>>[2] = m
  OBVIOUS
<1>2. \A i \in DOMAIN <<k, m>> : Fresh(<<k, m>>[i], x)
  BY <1>1
<1> QED BY <1>1, <1>2, AddThen

LEMMA AddDrop ==
    ASSUME TypeOK, NEW x \in Thread, Drop(x) PROVE Adds(x)
<1>1. agenda'[x] = <<>> /\ \A y \in Thread \ {x} : agenda'[y] = agenda[y]
  BY DropAgenda DEF TypeOK
<1>2. ASSUME NEW y \in Thread, NEW i \in DOMAIN agenda'[y]
      PROVE  \E j \in DOMAIN agenda[y] : agenda'[y][i] = agenda[y][j]
  <2>1. CASE y = x
    BY <1>1, <1>2, <2>1
  <2>2. CASE y # x
    BY <1>1, <2>2
  <2> QED BY <2>1, <2>2
<1> QED BY <1>2 DEF Adds

KinFrame ==
    /\ tokens' = tokens /\ issued' = issued /\ held' = held /\ parents' \subseteq parents
    /\ \A m \in Token : leases'[m] # None => Leasing(m)

LEMMA FrameStep ==
    ASSUME KinInv, NEW x \in Thread, Adds(x), KinFrame PROVE StepOf(x)
<1>1. \A p, n \in Token : <<p, n>> \in parents' => Linking(p, n)
  BY DEF KinFrame, Linking
<1> QED BY <1>1 DEF KinFrame, StepOf

LEMMA CheckKin == ASSUME KinInv, NEW x \in Client, Check(x) PROVE StepOf(x)
<1>0. TypeOK /\ x \in Thread /\ x \notin Manager /\ TypeInv
  BY KinTypes, Numbers DEF OnTimeInv
<1> DEFINE t == Task(x).id
           e == tokens[t]
           k == T("revoke", t)
           u == UseTask(t, e)
<1>1. /\ agenda[x] # <<>> /\ Task(x).do = "check" /\ t \in Token
      /\ \/ Drop(x)
         \/ Then(x, <<>>)
         \/ Then(x, <<k>>)
         \/ e # None /\ e.num_uses \in Nat \ {0, 1} /\ Then(x, <<u>>)
      /\ UNCHANGED <<storageVars, status, managers, checkVars, now, boundVars, toldVars>>
  BY <1>0, CheckScript
<1>2. t \in held
  BY <1>0, <1>1, HeadTask, KinTypes DEF KinInv, RequestKnows
<1>3. tokens' = tokens /\ leases' = leases
  BY <1>1 DEF storageVars
<1>4. KinFrame
  BY <1>1, <1>3 DEF KinFrame, Leasing, storageVars, boundVars, toldVars
<1>5. k \in Tasks /\ Fresh(k, x)
  <2>1. k \in Tasks /\ k.do = "revoke"
    BY <1>1, TaskMade DEF OnToken
  <2> QED BY <1>0, <2>1, FreeFresh DEF FreeTask
<1>6. e # None /\ e.num_uses \in Nat \ {0, 1} => u \in Tasks /\ Fresh(u, x)
  <2> SUFFICES ASSUME e # None, e.num_uses \in Nat \ {0, 1} PROVE u \in Tasks /\ Fresh(u, x)
    OBVIOUS
  <2>1. e \in TokenEntry
    BY <1>0, <1>1 DEF TypeOK
  <2>2. u \in Tasks /\ u.do = "use" /\ u.id = t /\ u.entry.num_uses \in Nat \ {0}
    BY <1>1, <2>1, UseTyped
  <2> HIDE DEF u
  <2> QED BY <1>0, <1>2, <1>3, <2>2 DEF Fresh, Hails, Confirms
<1> HIDE DEF k, u
<1>7. Adds(x)
  BY <1>0, <1>1, <1>5, <1>6, AddDrop, AddNone, AddOne
<1> QED BY <1>0, <1>4, <1>7, FrameStep

LEMMA PutKin == ASSUME KinInv, NEW x \in Client, Put(x) PROVE StepOf(x)
<1>0. TypeOK /\ x \in Thread
  BY KinTypes, Numbers
<1>1. agenda[x] # <<>> /\ Task(x).id \in Token /\ Then(x, <<>>)
  BY <1>0, PutScript
<1>2. tokens' = [tokens EXCEPT ![Task(x).id] = Task(x).entry] /\ (Doing(x, "use") \/ Doing(x, "put"))
  BY DEF Put, Stored
<1>3. \A n \in Token : tokens'[n] = tokens[n] \/ Writes(x, n)
  BY <1>0, <1>1, <1>2 DEF TypeOK, Writes
<1>4. parents' = parents /\ leases' = leases /\ issued' = issued /\ held' = held
  BY DEF Put, boundVars, toldVars
<1>5. Adds(x)
  BY <1>0, <1>1, AddNone
<1> QED BY <1>3, <1>4, <1>5 DEF StepOf, Linking, Leasing

\* The steps that only take a task off, or end the request.
LEMMA ShortKin ==
    ASSUME KinInv, NEW x \in Thread,
           \/ CreateParent(x) \/ CreateIndexByToken(x) \/ DeleteLeaseEntry(x)
           \/ RemoveIndexByToken(x) \/ RegisterLeaseEntry(x) \/ RevokeParent(x) \/ Fail(x)
           \/ (x \in Manager /\ CheckerPop(x))
    PROVE  StepOf(x)
<1>0. TypeOK
  BY KinTypes
<1>1. agenda[x] # <<>> /\ (Drop(x) \/ Then(x, <<>>))
  BY <1>0, ParentScript, TieScript, DeleteScript, UntieScript, QueueScript, UnlinkScript, PopScript
     DEF Fail, Abort
<1>2. tokens' = tokens /\ issued' = issued /\ held' = held /\ parents' \subseteq parents
  BY DEF CreateParent, CreateIndexByToken, DeleteLeaseEntry, RemoveIndexByToken, RegisterLeaseEntry,
         RevokeParent, Fail, CheckerPop, storageVars, boundVars, toldVars
<1>3. \A m \in Token : leases'[m] # None => leases[m] # None
  <2>1. CASE DeleteLeaseEntry(x)
    <3>1. leases' = [leases EXCEPT ![Task(x).id] = None]
      BY <1>0, <2>1, DeleteScript
    <3>2. leases \in [Lease -> LeaseEntry \cup {None}]
      BY <1>0 DEF TypeOK
    <3>3. \A m \in Lease : leases'[m] # None => leases[m] # None
      BY <3>1, <3>2
    <3> QED BY <3>3, Numbers
  <2>2. CASE ~DeleteLeaseEntry(x)
    <3>1. leases' = leases
      BY <2>2 DEF CreateParent, CreateIndexByToken, RemoveIndexByToken, RegisterLeaseEntry,
         RevokeParent, Fail, CheckerPop, storageVars
    <3> QED BY <3>1
  <2> QED BY <2>1, <2>2
<1>4. KinFrame
  BY <1>2, <1>3 DEF KinFrame, Leasing
<1>5. Adds(x)
  BY <1>0, <1>1, AddDrop, AddNone
<1> QED BY <1>4, <1>5, FrameStep

LEMMA LinkKin == ASSUME KinInv, NEW x \in Client, CreateIndex(x) PROVE StepOf(x)
<1>0. TypeOK /\ x \in Thread
  BY KinTypes, Numbers
<1> DEFINE n == Task(x).id
           p == Task(x).parent
<1>1. agenda[x] # <<>> /\ Task(x).do = "index" /\ n \in Token /\ p \in Token /\ Then(x, <<>>)
  BY <1>0, LinkScript
<1>2. parents' = parents \cup {<<p, n>>}
  BY DEF CreateIndex
<1>3. LinkDue(agenda, p, n)
  BY <1>0, <1>1, HeadTask DEF LinkDue, TypeOK
<1> HIDE DEF n, p
<1>4. \A q, m \in Token : <<q, m>> \in parents' => Linking(q, m)
  BY <1>2, <1>3 DEF Linking
<1>5. tokens' = tokens /\ leases' = leases /\ issued' = issued /\ held' = held
  BY DEF CreateIndex, boundVars, toldVars
<1>6. Adds(x)
  BY <1>0, <1>1, AddNone
<1> QED BY <1>4, <1>5, <1>6 DEF StepOf, Leasing

LEMMA CreateKin == ASSUME KinInv, NEW x \in Client, HandleCreate(x) PROVE StepOf(x)
<1>0. TypeOK /\ x \in Thread /\ x \notin Manager /\ TreeInv /\ issued \in Nat
  BY KinTypes, Numbers
<1> DEFINE t == Task(x).id
           req == Task(x).req
           n == issued + 1
           p == ParentFor(t, req)
           e == NewEntry(p, req)
           u == T("parent", p)
           l == LinkTask(n, p)
           w == PutTask(n, e)
<1>1. /\ agenda[x] # <<>> /\ Task(x).do = "create" /\ t \in Token /\ req \in TokenReq
      /\ \/ Drop(x) /\ UNCHANGED <<issued, held>>
         \/ /\ Allowed(tokens[t], req)
            /\ issued < MaxTokens /\ issued' = n
            /\ held' = IF req.id THEN held \cup {n} ELSE held
            /\ \/ p = None /\ Then(x, <<w>>)
               \/ p # None /\ Then(x, <<u, l, w>>)
  BY <1>0, CreateScript
<1>2. tokens' = tokens /\ parents' = parents /\ leases' = leases
  BY DEF HandleCreate, storageVars
<1>3. CASE Drop(x) /\ UNCHANGED <<issued, held>>
  <2>1. KinFrame
    BY <1>2, <1>3 DEF KinFrame, Leasing
  <2> QED BY <1>0, <1>3, <2>1, AddDrop, FrameStep
<1>4. CASE /\ Allowed(tokens[t], req)
           /\ issued < MaxTokens /\ issued' = n
           /\ held' = IF req.id THEN held \cup {n} ELSE held
           /\ \/ p = None /\ Then(x, <<w>>)
              \/ p # None /\ Then(x, <<u, l, w>>)
  <2>1. n \in Token /\ n \notin held
    <3>1. n \in Token
      BY <1>0, <1>4, BoundsAssumption DEF TypeOK, Token
    <3>2. \A m \in held : m <= issued
      BY DEF KinInv, HeldIssued
    <3> QED BY <1>0, <3>1, <3>2
  <2>2. /\ t \in held /\ tokens[t] # None /\ tokens[t].num_uses = 0
        /\ req.id => tokens[t].root = TRUE
    <3>1. t \in held
      BY <1>0, <1>1, HeadTask, KinTypes DEF KinInv, RequestKnows
    <3>2. tokens[t] \in TokenEntry
      BY <1>0, <1>1, <1>4 DEF TypeOK, Allowed
    <3> QED BY <1>4, <3>1, <3>2 DEF Allowed, TokenEntry
  <2>3. Fertile(t)
    <3>1. ~Pending(agenda, "put", t)
      BY <1>0, <1>1, <2>2 DEF TreeInv, NotThere
    <3>2. ~Pending(agenda, "use", t)
      BY <2>2 DEF KinInv, RequestKnows, Pending
    <3>3. t <= issued
      BY <2>2 DEF KinInv, HeldIssued
    <3> QED BY <2>2, <3>1, <3>2, <3>3 DEF Fertile
  <2>4. p \in Token \cup {None} /\ (p # None => p = t)
    BY <1>1 DEF ParentFor
  <2>5. w \in Tasks /\ w.do = "put" /\ w.id = n
    BY <1>1, <2>1, <2>4, NewTyped DEF PutTask
  <2>6. Fresh(w, x)
    <3> HIDE DEF w
    <3> QED BY <1>4, <2>5 DEF Fresh, Hails, Confirms
  <2>7. p # None => u \in Tasks /\ Fresh(u, x)
    <3>1. p # None => u \in Tasks /\ u.do = "parent"
      BY <1>1, <2>4, TaskMade DEF OnToken
    <3> HIDE DEF u
    <3> QED BY <3>1, FreeFresh DEF FreeTask
  <2>8. p # None => l \in Tasks /\ Fresh(l, x)
    <3>1. p # None => l \in Tasks /\ l.do = "index" /\ l.id = n /\ l.parent = t
      BY <1>1, <2>1, <2>4, NewTyped DEF LinkTask
    <3>2. n \in held' => tokens[t].root = TRUE
      BY <1>4, <2>1, <2>2
    <3> HIDE DEF l
    <3> QED BY <1>4, <2>2, <2>3, <3>1, <3>2 DEF Fresh, Hails, Confirms
  <2> HIDE DEF w, u, l
  <2>9. Adds(x)
    <3>1. CASE p = None /\ Then(x, <<w>>)
      BY <1>0, <1>1, <2>5, <2>6, <3>1, AddOne
    <3>2. CASE p # None /\ Then(x, <<u, l, w>>)
      <4>1. /\ <<u, l, w>> \in Seq(Tasks) /\ DOMAIN <<u, l, w>> = {1, 2, 3}
            /\ <<u, l, w>>[1] = u /\ <<u, l, w>>[2] = l /\ <<u, l, w>>[3] = w
        BY <2>5, <2>7, <2>8, <3>2
      <4>2. \A i \in DOMAIN <<u, l, w>> : Fresh(<<u, l, w>>[i], x)
        BY <2>6, <2>7, <2>8, <3>2, <4>1
      <4> QED BY <1>0, <1>1, <3>2, <4>1, <4>2, AddThen
    <3> QED BY <1>4, <3>1, <3>2
  <2>10. held \subseteq held' /\ \A m \in held' : m \in held \/ m = n
    BY <1>4
  <2> QED BY <1>2, <1>4, <2>9, <2>10 DEF StepOf, Linking, Leasing
<1> HIDE DEF w, u, l
<1> QED BY <1>1, <1>3, <1>4

LEMMA PostRouteKin == ASSUME KinInv, NEW x \in Client, PostRoute(x) PROVE StepOf(x)
<1>0. TypeOK /\ x \in Thread /\ TreeInv /\ OnTimeInv /\ issued \in Nat
  BY KinTypes, Numbers
<1> DEFINE n == issued + 1
           k == T("lease", n)
<1>1. /\ agenda[x] # <<>> /\ issued < MaxTokens /\ n \in Token /\ issued' = n
      /\ tokens' = [tokens EXCEPT ![n] = PlainEntry] /\ Then(x, <<k>>)
  BY <1>0, PostRouteScript
<1>2. parents' = parents /\ leases' = leases /\ held' = held
  BY DEF PostRoute
<1>3. k \in Tasks /\ k.do = "lease" /\ k.id = n
  BY <1>1, TaskMade DEF OnToken
<1> HIDE DEF k
<1>4. /\ tokens'[n] = PlainEntry
      /\ \A m \in Token : m # n => tokens'[m] = tokens[m]
  BY <1>0, <1>1 DEF TypeOK
<1>5. n \in Nat /\ ~(n <= issued)
  BY <1>0
<1>6. /\ ~Pending(agenda, "put", n) /\ ~Pending(agenda, "use", n)
      /\ \A m \in Token : ~Linking(n, m)
  <2>1. n > issued
    BY <1>0
  <2>2. \A do \in Kinds : ~Pending(agenda, do, n)
    BY <1>0, <1>1, <2>1 DEF TreeInv, NewClean
  <2>3. n \notin held
    BY <1>5 DEF KinInv, HeldIssued
  <2> QED BY <1>1, <2>2, <2>3 DEF KinInv, ParentsHeld, Kinds
<1>7. \A y \in Thread : \A i \in DOMAIN agenda'[y] :
         \/ \E j \in DOMAIN agenda[y] : agenda'[y][i] = agenda[y][j]
         \/ y = x /\ agenda'[y][i] = k
  <2>1. <<k>> \in Seq(Tasks) /\ DOMAIN <<k>> = {1} /\ <<k>>[1] = k
    BY <1>3
  <2>2. agenda'[x] = <<k>> \o Tail(agenda[x]) /\ \A y \in Thread \ {x} : agenda'[y] = agenda[y]
    BY <1>0, <1>1, <2>1, ThenAgenda DEF TypeOK
  <2>3. \A i \in DOMAIN agenda'[x] : agenda'[x][i] = k \/ \E j \in DOMAIN agenda[x] : agenda'[x][i] = agenda[x][j]
    <3>1. agenda[x] \in Seq(Tasks)
      BY <1>0 DEF TypeOK
    <3> QED BY <1>1, <2>1, <2>2, <3>1, ShiftParts
  <2>4. ASSUME NEW y \in Thread, NEW i \in DOMAIN agenda'[y]
        PROVE  \/ \E j \in DOMAIN agenda[y] : agenda'[y][i] = agenda[y][j]
               \/ y = x /\ agenda'[y][i] = k
    <3>1. CASE y = x
      BY <2>3, <3>1
    <3>2. CASE y # x
      BY <2>2, <3>2
    <3> QED BY <3>1, <3>2
  <2> QED BY <2>4
<1>8. \A do : do # "lease" /\ Pending(agenda', do, n) => Pending(agenda, do, n)
  <2>1. ASSUME NEW do, do # "lease", NEW y \in Thread, NEW i \in DOMAIN agenda'[y],
               agenda'[y][i].do = do, agenda'[y][i].id = n
        PROVE  Pending(agenda, do, n)
    <3>1. \E j \in DOMAIN agenda[y] : agenda'[y][i] = agenda[y][j]
      BY <1>3, <1>7, <2>1
    <3> QED BY <2>1, <3>1 DEF Pending
  <2> QED BY <2>1 DEF Pending
<1>9. \A m : LinkDue(agenda', n, m) => LinkDue(agenda, n, m)
  <2>1. ASSUME NEW m, NEW y \in Thread, NEW i \in DOMAIN agenda'[y],
               agenda'[y][i].do = "index", agenda'[y][i].id = m, agenda'[y][i].parent = n
        PROVE  LinkDue(agenda, n, m)
    <3>1. \E j \in DOMAIN agenda[y] : agenda'[y][i] = agenda[y][j]
      BY <1>3, <1>7, <2>1
    <3> QED BY <2>1, <3>1 DEF LinkDue
  <2> QED BY <2>1 DEF LinkDue
<1>10. \A m \in Token : m = n => Tame(m)'
  <2>1. n <= issued' /\ ~Pending(agenda', "put", n) /\ ~Pending(agenda', "use", n)
    BY <1>0, <1>1, <1>6, <1>8
  <2>2. /\ tokens'[n].num_uses = 0 /\ tokens'[n].parent = None /\ tokens'[n].root = FALSE
    BY <1>4 DEF PlainEntry
  <2>3. \A m \in Token : ~(<<n, m>> \in parents' \/ LinkDue(agenda', n, m))
    BY <1>2, <1>6, <1>9 DEF Linking
  <2> HIDE DEF n
  <2> SUFFICES ASSUME NEW m \in Token, m = n PROVE Tame(m)'
    OBVIOUS
  <2>4. Fertile(m)'
    BY <2>1, <2>2 DEF Fertile
  <2>5. \A q \in Token : ~Linking(m, q)'
    BY <2>3 DEF Linking
  <2> QED BY <2>2, <2>4, <2>5 DEF Tame
<1>11. Fresh(k, x)
  BY <1>1, <1>3, <1>10 DEF Fresh, Hails, Confirms
<1>12. Adds(x)
  BY <1>0, <1>1, <1>3, <1>11, AddOne
<1>13. \A m \in Token : tokens'[m] = tokens[m] \/ Writes(x, m)
  BY <1>4 DEF Writes
<1> QED BY <1>1, <1>2, <1>12, <1>13 DEF StepOf, Linking, Leasing

LEMMA LeaseKin ==
    ASSUME KinInv, NEW x \in Thread, Adds(x), NEW n \in Token, Leasing(n), NEW e,
           leases' = [leases EXCEPT ![n] = e],
           tokens' = tokens, parents' = parents, issued' = issued, held' = held
    PROVE  StepOf(x)
<1>1. \A m \in Token : leases'[m] # None => Leasing(m)
  <2>1. leases \in [Lease -> LeaseEntry \cup {None}]
    BY KinTypes DEF TypeOK
  <2>2. \A m \in Lease : m # n => leases'[m] = leases[m]
    BY <2>1
  <2>3. ASSUME NEW m \in Token, leases'[m] # None PROVE Leasing(m)
    BY <2>2, <2>3, Numbers DEF Leasing
  <2> QED BY <2>3
<1>2. KinFrame
  BY <1>1 DEF KinFrame
<1> QED BY <1>2, FrameStep

LEMMA RegisterKin == ASSUME KinInv, NEW x \in Client, RegisterAuth(x) PROVE StepOf(x)
<1>0. TypeOK /\ x \in Thread
  BY KinTypes, Numbers
<1> DEFINE n == Task(x).id
           k == Enqueue(n, now + Ttl)
           m == Reply("token", n, now + Ttl)
<1>1. /\ agenda[x] # <<>> /\ Task(x).do = "lease" /\ n \in Token
      /\ leases' = [leases EXCEPT ![n] = TokenLease(n)] /\ Then(x, <<k, m>>)
  BY <1>0, RegisterScript
<1>2. Hailed(agenda, n) /\ Leasing(n)
  <2>1. agenda[x][1] = Task(x) /\ 1 \in DOMAIN agenda[x]
    BY <1>0, <1>1, HeadTask DEF TypeOK
  <2> QED BY <1>0, <1>1, <2>1 DEF Hailed, Hails, Leasing, Pending
<1>3. k \in Tasks /\ m \in Tasks
  BY <1>0, <1>1, ExpiryOK, TaskMade, Numbers
<1>4. Fresh(k, x)
  BY FreeFresh DEF FreeTask, Enqueue
<1>5. Fresh(m, x)
  <2>1. m.do = "reply" /\ m.op = "token" /\ m.id = n
    BY DEF Reply
  <2> HIDE DEF m
  <2> QED BY <1>2, <2>1 DEF Fresh, Confirms
<1> HIDE DEF k, m
<1>6. Adds(x)
  BY <1>0, <1>1, <1>3, <1>4, <1>5, AddTwo
<1>7. tokens' = tokens /\ parents' = parents /\ issued' = issued /\ held' = held
  BY DEF RegisterAuth, boundVars, toldVars
<1> QED BY <1>0, <1>1, <1>2, <1>6, <1>7, LeaseKin

LEMMA RenewKin == ASSUME KinInv, NEW x \in Client, RenewToken(x) PROVE StepOf(x)
<1>0. TypeOK /\ x \in Thread
  BY KinTypes, Numbers
<1> DEFINE k == T("renewal", Task(x).id)
<1>1. /\ agenda[x] # <<>> /\ Task(x).id \in Token
      /\ Drop(x) \/ (leases[Task(x).id] # None /\ Then(x, <<k>>))
  BY <1>0, RenewScript
<1>2. k \in Tasks /\ k.do = "renewal" /\ k.id = Task(x).id
  BY <1>1, TaskMade DEF OnToken
<1> HIDE DEF k
<1>3. leases[Task(x).id] # None => Fresh(k, x)
  BY <1>2 DEF Fresh, Hails, Confirms
<1>4. Adds(x)
  BY <1>0, <1>1, <1>2, <1>3, AddDrop, AddOne
<1>5. KinFrame
  BY DEF RenewToken, storageVars, boundVars, toldVars, KinFrame, Leasing
<1> QED BY <1>0, <1>4, <1>5, FrameStep

LEMMA PersistKin == ASSUME KinInv, NEW x \in Client, RenewPersist(x) PROVE StepOf(x)
<1>0. TypeOK /\ x \in Thread
  BY KinTypes, Numbers
<1> DEFINE n == Task(x).id
           k == Enqueue(n, now + Ttl)
           m == Reply("renew", n, now + Ttl)
           a == agenda[x]
           b == agenda'[x]
<1>1. /\ a # <<>> /\ Task(x).do = "renewal" /\ n \in Token
      /\ leases' = [leases EXCEPT ![n] = TokenLease(n)] /\ k \in Tasks /\ m \in Tasks
      /\ b = <<k>> \o Tail(a) \o <<m>> /\ \A y \in Thread \ {x} : agenda'[y] = agenda[y]
  BY <1>0, PersistScript
<1>2. a \in Seq(Tasks)
  BY <1>0 DEF TypeOK
<1>3. /\ 1 \in DOMAIN b /\ b[1] = k
      /\ \A i \in DOMAIN b : i = 1 \/ b[i] = m \/ \E j \in DOMAIN a : j > 1 /\ b[i] = a[j]
  <2> HIDE DEF a, b, k, m
  <2> QED BY <1>1, <1>2, ShiftRound
<1>4. Leasing(n)
  <2>1. agenda[x][1] = Task(x) /\ 1 \in DOMAIN agenda[x]
    BY <1>0, <1>1, HeadTask DEF TypeOK
  <2> QED BY <1>0, <1>1, <2>1 DEF Leasing, Pending
<1>5. Fresh(k, x)
  BY FreeFresh DEF FreeTask, Enqueue
<1>6. Fresh(m, x)
  BY DEF Fresh, Hails, Confirms, Reply
<1> HIDE DEF k, m
<1>7. Adds(x)
  <2>1. ASSUME NEW y \in Thread, NEW i \in DOMAIN agenda'[y]
        PROVE  \/ \E j \in DOMAIN agenda[y] : agenda'[y][i] = agenda[y][j]
               \/ y = x /\ Fresh(agenda'[y][i], x)
    <3>1. CASE y = x
      BY <1>3, <1>5, <1>6, <3>1
    <3>2. CASE y # x
      BY <1>1, <3>2
    <3> QED BY <3>1, <3>2
  <2> QED BY <2>1 DEF Adds
<1>8. tokens' = tokens /\ parents' = parents /\ issued' = issued /\ held' = held
  BY DEF RenewPersist, boundVars, toldVars
<1> QED BY <1>0, <1>1, <1>4, <1>7, <1>8, LeaseKin

LEMMA SecretKin == ASSUME KinInv, NEW x \in Client, RegisterSecret(x) PROVE StepOf(x)
<1>0. TypeOK /\ x \in Thread
  BY KinTypes, Numbers
<1> DEFINE k == TieTask(NextSecret, Task(x).id)
           m == Enqueue(NextSecret, now + SecretTtl)
<1>1. /\ agenda[x] # <<>> /\ Task(x).id \in Token /\ NextSecret \in SecretLease
      /\ leases' = [leases EXCEPT ![NextSecret] = SecretLeaseOf(Task(x).id)] /\ Then(x, <<k, m>>)
  BY <1>0, SecretScript
<1>2. k \in Tasks /\ m \in Tasks
  BY <1>0, <1>1, ExpiryOK, TaskMade, Numbers DEF TieTask
<1>3. Fresh(k, x)
  BY FreeFresh DEF FreeTask, TieTask
<1>4. Fresh(m, x)
  BY FreeFresh DEF FreeTask, Enqueue
<1> HIDE DEF k, m
<1>5. Adds(x)
  BY <1>0, <1>1, <1>2, <1>3, <1>4, AddTwo
<1>6. \A n \in Token : leases'[n] = leases[n]
  <2>1. leases \in [Lease -> LeaseEntry \cup {None}]
    BY <1>0 DEF TypeOK
  <2>2. \A n \in Lease : n # NextSecret => leases'[n] = leases[n]
    BY <1>1, <2>1
  <2> QED BY <1>1, <2>2, Numbers
<1>7. KinFrame
  BY <1>6 DEF RegisterSecret, KinFrame, Leasing, toldVars
<1> QED BY <1>0, <1>5, <1>7, FrameStep

\* A child of a token of post_route is one whose id nobody will know.
LEMMA TameKids ==
    ASSUME KinInv, NEW m \in Token, NEW n \in Token, Tame(m) \/ Sterile(m), <<m, n>> \in parents
    PROVE  Sterile(n)
<1>1. Linking(m, n)
  BY DEF Linking
<1>2. m \in held
  BY <1>1 DEF KinInv, ParentsHeld
<1>3. n \notin held
  BY <1>1, <1>2 DEF Tame, Sterile
<1>4. OnTimeInv
  BY KinTypes
<1> QED BY <1>1, <1>3, <1>4, HailedApart DEF Sterile

LEMMA TreeKin == ASSUME KinInv, NEW x \in Thread, RevokeTree(x) PROVE StepOf(x)
<1>0. TypeOK
  BY KinTypes
<1> DEFINE t == Task(x).id
<1>1. agenda[x] # <<>> /\ Task(x).do = "tree" /\ t \in Token
  BY <1>0, TreeScript
<1>2. PICK s \in Seq(Tasks) :
        /\ Then(x, s)
        /\ \A i \in DOMAIN s : s[i] = T("revoke", t) \/ \E n \in ChildrenOf(t) : s[i] = T("tree", n)
  BY <1>0, TreeScript
<1>3. x \in Manager => Tame(t) \/ Sterile(t)
  <2>1. agenda[x][1] = Task(x) /\ 1 \in DOMAIN agenda[x]
    BY <1>0, <1>1, HeadTask DEF TypeOK
  <2> QED BY <1>1, <2>1 DEF KinInv, CheckerKnows, CheckerHas
<1>4. ASSUME NEW i \in DOMAIN s PROVE Fresh(s[i], x)
  <2>1. \A k : k.do \in {"tree", "revoke"} /\ (x \in Manager => Tame(k.id) \/ Sterile(k.id)) => Fresh(k, x)
    BY DEF Fresh, Hails, Confirms
  <2>2. CASE s[i] = T("revoke", t)
    <3>1. s[i].do = "revoke" /\ s[i].id = t
      BY <2>2 DEF T
    <3> QED BY <1>3, <2>1, <3>1
  <2>3. ASSUME NEW n \in ChildrenOf(t), s[i] = T("tree", n) PROVE Fresh(s[i], x)
    <3>1. s[i].do = "tree" /\ s[i].id = n
      BY <2>3 DEF T
    <3>2. n \in Token /\ <<t, n>> \in parents
      BY DEF ChildrenOf
    <3>3. x \in Manager => Sterile(n)
      BY <1>1, <1>3, <3>2, TameKids
    <3> QED BY <2>1, <3>1, <3>3
  <2> QED BY <1>2, <2>2, <2>3
<1>5. Adds(x)
  BY <1>0, <1>1, <1>2, <1>4, AddThen
<1>6. KinFrame
  BY DEF RevokeTree, storageVars, boundVars, toldVars, KinFrame, Leasing
<1> QED BY <1>5, <1>6, FrameStep

LEMMA RevokeKin == ASSUME KinInv, NEW x \in Thread, Revoke(x) PROVE StepOf(x)
<1>0. TypeOK
  BY KinTypes
<1> DEFINE t == Task(x).id
           e == tokens[t]
           u == UnlinkTask(t, e.parent)
           k == T("secrets", t)
<1>1. /\ agenda[x] # <<>> /\ Task(x).do = "revoke" /\ t \in Token
      /\ tokens' = [tokens EXCEPT ![t] = None]
      /\ \/ Then(x, <<>>)
         \/ Then(x, <<k>>)
         \/ e # None /\ e.parent \in Token /\ u \in Tasks /\ Then(x, <<u, k>>)
  BY <1>0, RevokeScript
<1>2. x \in Manager => Tame(t) \/ Sterile(t)
  <2>1. agenda[x][1] = Task(x) /\ 1 \in DOMAIN agenda[x]
    BY <1>0, <1>1, HeadTask DEF TypeOK
  <2> QED BY <1>1, <2>1 DEF KinInv, CheckerKnows, CheckerHas
<1>3. k \in Tasks /\ k.do = "secrets"
  BY <1>1, TaskMade DEF OnToken
<1>4. u.do = "unparent" /\ u.id = t
  BY DEF UnlinkTask
<1>5. e # None /\ e.parent \in Token => Fresh(u, x)
  <2>1. e # None /\ e.parent \in Token /\ x \in Manager => Sterile(t)
    BY <1>2, NoneApart DEF Tame
  <2> HIDE DEF u
  <2> QED BY <1>4, <2>1 DEF Fresh, Hails, Confirms
<1> HIDE DEF u, k
<1>6. Fresh(k, x)
  BY <1>3, FreeFresh DEF FreeTask
<1>7. Adds(x)
  BY <1>0, <1>1, <1>3, <1>5, <1>6, AddNone, AddOne, AddTwo
<1>8. \A n \in Token : tokens'[n] = tokens[n] \/ Writes(x, n)
  BY <1>0, <1>1 DEF TypeOK, Writes, Doing
<1>9. parents' = parents /\ leases' = leases /\ issued' = issued /\ held' = held
  BY DEF Revoke, boundVars, toldVars
<1> QED BY <1>7, <1>8, <1>9 DEF StepOf, Linking, Leasing

LEMMA ByTokenKin == ASSUME KinInv, NEW x \in Thread, RevokeByToken(x) PROVE StepOf(x)
<1>0. TypeOK
  BY KinTypes
<1>1. agenda[x] # <<>> /\ Task(x).do = "secrets" /\ Task(x).id \in Token
  BY <1>0, ByTokenScript
<1>2. PICK s \in Seq(Tasks) : Then(x, s) /\ SecretsGone(s, Task(x).id)
  BY <1>0, ByTokenScript
<1>3. ASSUME NEW i \in DOMAIN s PROVE Fresh(s[i], x)
  <2>0. PICK l \in SecretLease : \/ s[i] = T("drop", l)
                                 \/ s[i] = UntieTask(l, Task(x).id)
                                 \/ s[i] = Enqueue(l, 0)
    BY <1>2 DEF SecretsGone
  <2>1. s[i].do \in {"drop", "unindex", "enqueue"}
    BY <2>0 DEF T, UntieTask, Enqueue
  <2> QED BY <2>1, FreeFresh DEF FreeTask
<1>4. Adds(x)
  BY <1>0, <1>1, <1>2, <1>3, AddThen
<1>5. KinFrame
  BY DEF RevokeByToken, storageVars, boundVars, toldVars, KinFrame, Leasing
<1> QED BY <1>4, <1>5, FrameStep

LEMMA AnswerKin == ASSUME KinInv, NEW x \in Client, Answer(x) PROVE StepOf(x)
<1>0. TypeOK /\ x \in Thread
  BY KinTypes, Numbers
<1>1. /\ agenda[x] # <<>> /\ Task(x).do = "reply" /\ Then(x, <<>>)
      /\ held' = IF Task(x).op = "token" THEN held \cup {Task(x).id} ELSE held
  BY <1>0, AnswerScript
<1>2. Task(x).op = "token" => Hailed(agenda, Task(x).id)
  <2>1. agenda[x][1] = Task(x) /\ 1 \in DOMAIN agenda[x]
    BY <1>0, <1>1, HeadTask DEF TypeOK
  <2> QED BY <1>0, <1>1, <2>1 DEF Hailed, Hails
<1>3. held \subseteq held' /\ \A n \in held' : n \in held \/ Hailed(agenda, n)
  BY <1>1, <1>2
<1>4. tokens' = tokens /\ parents' = parents /\ leases' = leases /\ issued' = issued
  BY DEF Answer, storageVars, boundVars
<1>5. Adds(x)
  BY <1>0, <1>1, AddNone
<1> QED BY <1>3, <1>4, <1>5 DEF StepOf, Linking, Leasing

LEMMA FewFresh ==
    ASSUME NEW x, NEW a, NEW b, NEW d, Fresh(a, x), Fresh(b, x), Fresh(d, x)
    PROVE  /\ \A i \in DOMAIN <<a>> : Fresh(<<a>>[i], x)
           /\ \A i \in DOMAIN <<a, b>> : Fresh(<<a, b>>[i], x)
           /\ \A i \in DOMAIN <<a, b, d>> : Fresh(<<a, b, d>>[i], x)
<1>1. DOMAIN <<a>> = {1} /\ <<a>>[1] = a
  OBVIOUS
<1>2. DOMAIN <<a, b>> = {1, 2} /\ <<a, b>>[1] = a /\ <<a, b>>[2] = b
  OBVIOUS
<1>3. DOMAIN <<a, b, d>> = {1, 2, 3} /\ <<a, b, d>>[1] = a /\ <<a, b, d>>[2] = b /\ <<a, b, d>>[3] = d
  OBVIOUS
<1> QED BY <1>1, <1>2, <1>3

\* A thread that was idle starts with the tasks s.
LEMMA StartKin ==
    ASSUME KinInv, NEW x \in Thread, NEW s, \A y \in Thread \ {x} : agenda'[y] = agenda[y],
           agenda'[x] = s, \A i \in DOMAIN s : Fresh(s[i], x),
           tokens' = tokens, parents' = parents, leases' = leases, issued' = issued, held' = held
    PROVE  StepOf(x)
<1>1. Adds(x)
  <2>1. ASSUME NEW y \in Thread, NEW i \in DOMAIN agenda'[y]
        PROVE  \/ \E j \in DOMAIN agenda[y] : agenda'[y][i] = agenda[y][j]
               \/ y = x /\ Fresh(agenda'[y][i], x)
    <3>1. CASE y = x
      BY <3>1
    <3>2. CASE y # x
      BY <3>2
    <3> QED BY <3>1, <3>2
  <2> QED BY <2>1 DEF Adds
<1>2. KinFrame
  BY DEF KinFrame, Leasing
<1> QED BY <1>1, <1>2, FrameStep

LEMMA RequestKin == ASSUME KinInv, NEW c \in Client, Request(c) PROVE StepOf(c)
<1>0. TypeOK /\ c \in Thread /\ c \notin Manager
  BY KinTypes, Numbers
<1>1. PICK s \in Seq(Tasks) : Started(c, s) /\ Call(c, s)
  BY <1>0, RequestScript
<1>2. /\ agenda[c] = <<>> /\ agenda'[c] = s /\ \A y \in Thread \ {c} : agenda'[y] = agenda[y]
      /\ UNCHANGED <<storageVars, status, managers, checkVars, now, boundVars, toldVars>>
  BY <1>0, <1>1, CallTasks
<1>3. tokens' = tokens /\ parents' = parents /\ leases' = leases /\ issued' = issued /\ held' = held
  BY <1>2 DEF storageVars, boundVars, toldVars
<1>4. \A i \in DOMAIN s : Fresh(s[i], c)
  <2>1. \A do, n : do \in {"token", "renew", "tree", "revoke", "secret"} => Fresh(T(do, n), c)
    BY <1>0, FreeFresh DEF FreeTask, T
  <2>2. \A n \in held : Fresh(T("check", n), c)
    BY <1>0 DEF Fresh, Hails, Confirms, T
  <2>3. \A n \in held : \A z : Fresh(CreateTask(n, z), c)
    BY <1>0 DEF Fresh, Hails, Confirms, CreateTask
  <2>4. \A n, z : Fresh(RevokeReply(n, z), c)
    BY <1>0, <1>2 DEF Fresh, Hails, Confirms, RevokeReply
  <2>5. CASE s = <<T("token", None)>>
    BY <2>1, <2>5, FewFresh
  <2>6. ASSUME NEW t \in held, NEW req \in TokenReq,
               \/ s = <<T("check", t), CreateTask(t, req)>>
               \/ s = <<T("check", t), CreateTask(t, req), T("token", t)>>
        PROVE  \A i \in DOMAIN s : Fresh(s[i], c)
    BY <2>1, <2>2, <2>3, <2>6, FewFresh
  <2>7. ASSUME NEW t \in held, NEW u \in held,
               \/ s = <<T("check", t), T("renew", u), T("token", None)>>
               \/ s = <<T("check", t), T("tree", u), RevokeReply(u, Tree(u))>>
               \/ s = <<T("check", t), T("revoke", u)>>
               \/ s = <<T("check", t), T("secret", t)>>
        PROVE  \A i \in DOMAIN s : Fresh(s[i], c)
    BY <2>1, <2>2, <2>4, <2>7, FewFresh
  <2> QED BY <1>1, <2>5, <2>6, <2>7 DEF Started
<1> QED BY <1>0, <1>2, <1>3, <1>4, StartKin

LEMMA CheckerKin ==
    ASSUME KinInv, NEW e \in Manager,
           CheckerLock(e) \/ CheckerUnlock(e) \/ CheckerNext(e) \/ CheckerRevoke(e)
    PROVE  StepOf(e)
<1>0. TypeOK /\ e \in Thread
  BY KinTypes, Numbers
<1>1. tokens' = tokens /\ parents' = parents /\ leases' = leases /\ issued' = issued /\ held' = held
  BY DEF CheckerLock, CheckerUnlock, CheckerNext, CheckerRevoke, storageVars, boundVars, toldVars
<1>2. KinFrame
  BY <1>1 DEF KinFrame, Leasing
<1>3. \A do, n : do \in {"expire", "pop", "drop"} => Fresh(T(do, n), e)
  BY FreeFresh DEF FreeTask, T
<1>4. CASE CheckerLock(e) \/ CheckerUnlock(e)
  <2>1. agenda' = agenda
    BY <1>4 DEF CheckerLock, CheckerUnlock
  <2> QED BY <1>0, <1>2, <2>1, FrameStep DEF Adds
<1>5. CASE CheckerNext(e)
  <2>1. PICK l \in Lease : agenda'[e] = <<T("expire", l), T("pop", l)>> \/ agenda'[e] = <<T("pop", l)>>
    BY <1>0, <1>5, NextScript
  <2>2. \A y \in Thread \ {e} : agenda'[y] = agenda[y]
    BY <1>0, <1>5, NextScript
  <2>3. ASSUME NEW i \in DOMAIN agenda'[e] PROVE Fresh(agenda'[e][i], e)
    BY <1>3, <2>1, FewFresh
  <2> QED BY <1>0, <1>1, <2>2, <2>3, StartKin
<1>6. CASE CheckerRevoke(e)
  <2> DEFINE l == Task(e).id
             k == T("tree", l)
             d == T("drop", l)
             u == UntieTask(l, leases[l].token)
  <2>1. /\ agenda[e] # <<>> /\ d \in Tasks
        /\ \/ Then(e, <<>>)
           \/ leases[l] # None /\ l \in Token /\ k \in Tasks /\ Then(e, <<k, d>>)
           \/ u \in Tasks /\ Then(e, <<d, u>>)
    BY <1>0, <1>6, ExpireScript
  <2>2. leases[l] # None /\ l \in Token => Fresh(k, e)
    <3>1. leases[l] # None /\ l \in Token => Tame(l)
      BY DEF KinInv, LeasedTame, Leasing
    <3> QED BY <3>1 DEF Fresh, Hails, Confirms, T
  <2>3. Fresh(d, e) /\ Fresh(u, e)
    BY <1>3, FreeFresh DEF FreeTask, UntieTask
  <2> HIDE DEF k, d, u
  <2>4. Adds(e)
    BY <1>0, <2>1, <2>2, <2>3, AddNone, AddTwo
  <2> QED BY <1>0, <1>2, <2>4, FrameStep
<1> QED BY <1>4, <1>5, <1>6

LEMMA VaultKin ==
    ASSUME KinInv, Seal \/ Open \/ Unseal \/ Tick \/ Crash \/ UNCHANGED vars, NEW x \in Thread
    PROVE  StepOf(x)
<1>1. tokens' = tokens /\ parents' = parents /\ leases' = leases /\ issued' = issued /\ held' = held
  BY DEF Seal, Open, Unseal, Tick, Crash, vars, storageVars, boundVars, toldVars
<1>2. KinFrame
  BY <1>1 DEF KinFrame, Leasing
<1>3. agenda' = agenda \/ \A y \in Thread : agenda'[y] = <<>>
  BY DEF Seal, Open, Unseal, Tick, Crash, vars
<1>4. CASE agenda' = agenda
  BY <1>2, <1>4, FrameStep DEF Adds
<1>5. CASE \A y \in Thread : agenda'[y] = <<>>
  <2>1. Adds(x)
    BY <1>5 DEF Adds
  <2> QED BY <1>2, <2>1, FrameStep
<1> QED BY <1>3, <1>4, <1>5

LEMMA StepKinClient == ASSUME KinInv, NEW c \in Client, RequestStep(c) \/ Fail(c) PROVE StepOf(c)
<1>0. c \in Thread
  BY Numbers
<1>1. RevokeStep(c) => StepOf(c)
  BY <1>0, TreeKin, RevokeKin, ByTokenKin, ShortKin DEF RevokeStep
<1> QED BY <1>0, <1>1, CheckKin, PutKin, CreateKin, ShortKin, LinkKin, PostRouteKin, RegisterKin, RenewKin,
           PersistKin, SecretKin, AnswerKin DEF RequestStep

\* Every step is a step of some thread.
LEMMA StepKin == ASSUME KinInv, [Next]_vars PROVE \E x \in Thread : StepOf(x)
<1>0. Client \subseteq Thread /\ Manager \subseteq Thread /\ 1 \in Manager
  BY Numbers, BoundsAssumption DEF Manager
<1>1. ASSUME NEW c \in Client, RequestStep(c) PROVE StepOf(c)
  BY <1>1, StepKinClient
<1>2. ASSUME NEW e \in Manager, CheckerStep(e) PROVE StepOf(e)
  <2>1. RevokeStep(e) => StepOf(e)
    BY <1>0, TreeKin, RevokeKin, ByTokenKin, ShortKin DEF RevokeStep
  <2> QED BY <1>0, <1>2, <2>1, CheckerKin, ShortKin DEF CheckerStep
<1>3. ASSUME NEW c \in Client, Request(c) PROVE StepOf(c)
  BY <1>3, RequestKin
<1>4. ASSUME NEW x \in Thread, Fail(x) PROVE StepOf(x)
  BY <1>4, ShortKin
<1>5. CASE Seal \/ Open \/ Unseal \/ Tick \/ Crash \/ UNCHANGED vars
  BY <1>0, <1>5, VaultKin
<1> QED BY <1>0, <1>1, <1>2, <1>3, <1>4, <1>5 DEF Next

LEMMA KinKept == ASSUME KinInv, OneRequest, [Next]_vars PROVE KinInv'
<1>0. TypeOK
  BY KinTypes
<1>1. TreeInv'
  <2>1. UseKept
    <3>1. ASSUME NEW x \in Thread, Doing(x, "use") PROVE tokens[Task(x).id] # None
      <4>1. /\ agenda[x][1] = Task(x) /\ 1 \in DOMAIN agenda[x] /\ Task(x).do = "use"
        BY <1>0, <3>1, DoingFacts
      <4> QED BY <4>1 DEF KinInv, RequestKnows
    <3> QED BY <3>1 DEF UseKept
  <2> QED BY <2>1, TreeStep DEF KinInv
<1>2. OnTimeInv'
  <2>1. OneRenewal
    <3>1. ASSUME NEW c \in Client, NEW n \in Token, Renewing(agenda[c], n) PROVE agenda[c] # <<>>
      BY <3>1 DEF Renewing
    <3> QED BY <3>1 DEF OneRenewal, OneRequest
  <2> QED BY <2>1, OnTimeStep DEF KinInv
<1> QED BY <1>1, <1>2, StepKin, KinStep

LEMMA KinInit == Init => KinInv
<1> SUFFICES ASSUME Init PROVE KinInv
  OBVIOUS
<1>0. TreeInv /\ OnTimeInv
  BY TreeInit, OnTimeInit
<1>1. /\ \A x \in Thread : agenda[x] = <<>>
      /\ held = {Root} /\ issued = 1 /\ parents = {} /\ Manager \subseteq Thread
      /\ \A n \in Token : leases[n] = None
  BY Numbers DEF Init
<1>2. HeldIssued
  BY <1>1 DEF HeldIssued, Root
<1>3. ParentsHeld
  BY <1>1 DEF ParentsHeld, Linking, LinkDue
<1>4. RequestKnows
  BY <1>1 DEF RequestKnows
<1>5. LeasedTame
  BY <1>1 DEF LeasedTame, Leasing, Pending
<1>6. CheckerKnows
  BY <1>1 DEF CheckerKnows, CheckerHas
<1> QED BY <1>0, <1>2, <1>3, <1>4, <1>5, <1>6 DEF KinInv

-----------------------------------------------------------------------------
(* What the links lead to *)

LEMMA BelowFacts ==
    ASSUME NEW P \in SUBSET Token, NEW links
    PROVE  /\ Below(P, links) \in SUBSET Token /\ P \subseteq Below(P, links)
           /\ Closed(Below(P, links), links)
           /\ \A S \in SUBSET Token : P \subseteq S /\ Closed(S, links) => Below(P, links) \subseteq S
<1>1. Below(P, links) \in SUBSET Token /\ P \subseteq Below(P, links)
  BY DEF Below
<1>2. \A S \in SUBSET Token : P \subseteq S /\ Closed(S, links) => Below(P, links) \subseteq S
  BY DEF Below
<1>3. ASSUME NEW p \in Below(P, links), NEW n \in Token, <<p, n>> \in links PROVE n \in Below(P, links)
  <2>1. ASSUME NEW S \in SUBSET Token, P \subseteq S, Closed(S, links) PROVE n \in S
    <3>1. p \in S
      BY <1>2, <2>1
    <3> QED BY <1>3, <2>1, <3>1 DEF Closed
  <2> QED BY <2>1 DEF Below
<1> QED BY <1>1, <1>2, <1>3 DEF Closed

\* With fewer links, or from fewer tokens, one gets to fewer tokens.
LEMMA BelowLess ==
    ASSUME NEW P \in SUBSET Token, NEW Q \in SUBSET Token, P \subseteq Q, NEW links, NEW more,
           links \subseteq more
    PROVE  Below(P, links) \subseteq Below(Q, more)
<1>1. Below(Q, more) \in SUBSET Token /\ Q \subseteq Below(Q, more) /\ Closed(Below(Q, more), more)
  BY BelowFacts
<1>2. Closed(Below(Q, more), links)
  BY <1>1 DEF Closed
<1>3. P \subseteq Below(Q, more)
  BY <1>1
<1> QED BY <1>1, <1>2, <1>3, BelowFacts

LEMMA BelowNone == ASSUME NEW links PROVE Below({}, links) = {}
<1>1. {} \in SUBSET Token /\ Closed({}, links)
  BY DEF Closed
<1> QED BY <1>1, BelowFacts

\* A token, and what its children lead to.
LEMMA BelowKids ==
    ASSUME NEW m \in Token, NEW links
    PROVE  Below({m}, links) \subseteq {m} \cup Below(Kids(m, links), links)
<1> DEFINE K == Kids(m, links)
           S == {m} \cup Below(K, links)
<1>1. K \in SUBSET Token
  BY DEF Kids
<1>2. \A n \in Token : <<m, n>> \in links => n \in K
  BY DEF Kids
<1> HIDE DEF K
<1>3. Below(K, links) \in SUBSET Token /\ K \subseteq Below(K, links) /\ Closed(Below(K, links), links)
  BY <1>1, BelowFacts
<1>4. S \in SUBSET Token /\ {m} \subseteq S /\ {m} \in SUBSET Token
  BY <1>3
<1>5. Closed(S, links)
  BY <1>2, <1>3 DEF Closed
<1>6. Below({m}, links) \subseteq S
  <2> HIDE DEF S
  <2> QED BY <1>4, <1>5, BelowFacts
<1> QED BY <1>6 DEF K

\* What several tokens lead to, one of them does.
LEMMA BelowOne ==
    ASSUME NEW P \in SUBSET Token, NEW links, NEW n \in Below(P, links)
    PROVE  \E m \in P : n \in Below({m}, links)
<1> DEFINE S == {k \in Token : \E m \in P : k \in Below({m}, links)}
<1>1. \A m \in P : m \in Below({m}, links) /\ Closed(Below({m}, links), links)
  <2>1. ASSUME NEW m \in P PROVE m \in Below({m}, links) /\ Closed(Below({m}, links), links)
    <3>1. {m} \in SUBSET Token
      OBVIOUS
    <3> QED BY <3>1, BelowFacts
  <2> QED BY <2>1
<1>2. P \subseteq S
  BY <1>1
<1>3. Closed(S, links)
  <2>1. ASSUME NEW p \in S, NEW k \in Token, <<p, k>> \in links PROVE k \in S
    <3>1. PICK m \in P : p \in Below({m}, links)
      OBVIOUS
    <3>2. k \in Below({m}, links)
      BY <1>1, <2>1, <3>1 DEF Closed
    <3> QED BY <3>2
  <2> QED BY <2>1 DEF Closed
<1>4. S \in SUBSET Token
  OBVIOUS
<1>5. n \in S
  <2> HIDE DEF S
  <2> QED BY <1>2, <1>3, <1>4, BelowFacts
<1> QED BY <1>5

-----------------------------------------------------------------------------
(* The agenda of a revocation *)

\* Nothing new is stored, and what is stored is found as before.
StoreKeeps(toks, links, toks2, links2) ==
    /\ \A n \in Token : toks2[n] # None => toks[n] # None
    /\ links2 \subseteq links
    /\ \A P \in SUBSET Token : \A n \in Token :
          toks2[n] # None /\ n \in Below(P, links) => n \in Below(P, links2)

LEMMA SameLinks ==
    ASSUME NEW toks, NEW toks2, NEW links, \A n \in Token : toks2[n] # None => toks[n] # None
    PROVE  StoreKeeps(toks, links, toks2, links)
BY DEF StoreKeeps

\* A link is taken away and nothing is stored below it.
LEMMA LinkGone ==
    ASSUME NEW toks, NEW links, NEW p, NEW m \in Token, \A n \in Below({m}, links) : toks[n] = None
    PROVE  StoreKeeps(toks, links, toks, links \ {<<p, m>>})
<1> DEFINE L == links \ {<<p, m>>}
           B == Below({m}, links)
<1>0. \A q, k : <<q, k>> \in links => <<q, k>> \in L \/ k = m
  OBVIOUS
<1>1. {m} \in SUBSET Token
  OBVIOUS
<1>2. B \in SUBSET Token /\ m \in B /\ Closed(B, links)
  BY <1>1, BelowFacts
<1>3. \A n \in B : toks[n] = None
  OBVIOUS
<1>4. L \subseteq links
  OBVIOUS
<1> HIDE DEF L, B
<1>5. ASSUME NEW P \in SUBSET Token, NEW n \in Token, toks[n] # None, n \in Below(P, links)
      PROVE  n \in Below(P, L)
  <2> DEFINE D == Below(P, L)
  <2>1. D \in SUBSET Token /\ P \subseteq D /\ Closed(D, L)
    BY BelowFacts
  <2> HIDE DEF D
  <2>2. D \cup B \in SUBSET Token /\ P \subseteq D \cup B
    BY <1>2, <2>1
  <2>3. Closed(D \cup B, links)
    BY <1>0, <1>2, <2>1 DEF Closed
  <2>4. n \in D \cup B
    BY <1>5, <2>2, <2>3, BelowFacts
  <2> QED BY <1>3, <1>5, <2>4 DEF D
<1>6. StoreKeeps(toks, links, toks, L)
  BY <1>4, <1>5 DEF StoreKeeps
<1> QED BY <1>6 DEF L

LEMMA AheadStays ==
    ASSUME NEW a \in Seq(Tasks), NEW toks, NEW links, NEW toks2, NEW links2,
           StoreKeeps(toks, links, toks2, links2), NEW i, NEW n \in Token, toks2[n] # None,
           Ahead(a, i, n, links)
    PROVE  Ahead(a, i, n, links2)
<1>1. PICK j \in DOMAIN a : j < i /\ Reaches(a[j], n, links)
  BY DEF Ahead
<1>2. Reaches(a[j], n, links2)
  <2>1. CASE a[j].do = "tree" /\ n \in Below({a[j].id}, links)
    <3>1. a[j] \in Tasks
      OBVIOUS
    <3>2. {a[j].id} \in SUBSET Token
      BY <2>1, <3>1, TaskFields DEF OnToken
    <3> QED BY <2>1, <3>2 DEF StoreKeeps, Reaches
  <2> QED BY <1>1, <2>1 DEF Reaches
<1> QED BY <1>1, <1>2 DEF Ahead

LEMMA SweepStays ==
    ASSUME NEW a \in Seq(Tasks), NEW toks, NEW links, NEW toks2, NEW links2, NEW top \in Nat,
           NEW top2 \in Nat, top <= top2, StoreKeeps(toks, links, toks2, links2),
           Sweeps(a, toks, links, top)
    PROVE  Sweeps(a, toks2, links2, top2)
<1>0. \A n \in Token : toks2[n] # None => toks[n] # None
  BY DEF StoreKeeps
<1>1. ASSUME NEW k \in DOMAIN a, Confirms(a[k]), NEW n \in a[k].tree
      PROVE  n <= top2 /\ (toks2[n] # None => Ahead(a, k, n, links2))
  <2>1. n \in Token /\ n \in Nat
    <3>1. a[k] \in Tasks
      OBVIOUS
    <3> QED BY <1>1, <3>1, TaskFields, Numbers DEF Confirms
  <2>2. n <= top /\ (toks[n] # None => Ahead(a, k, n, links))
    BY <1>1 DEF Sweeps
  <2> QED BY <1>0, <2>1, <2>2, AheadStays
<1>2. ASSUME NEW k \in DOMAIN a, Confirms(a[k]), NEW i \in DOMAIN a, i < k
      PROVE  a[i].do \in SweepTasks /\ Swept(a, i, toks2, links2)
  <2>1. a[i].do \in SweepTasks /\ Swept(a, i, toks, links)
    BY <1>2 DEF Sweeps
  <2>2. a[i] \in Tasks
    OBVIOUS
  <2>3. ASSUME a[i].do = "revoke", NEW n \in Below(Kids(a[i].id, links2), links2), toks2[n] # None
        PROVE  Ahead(a, i, n, links2)
    <3>1. /\ Kids(a[i].id, links2) \in SUBSET Token /\ Kids(a[i].id, links) \in SUBSET Token
          /\ Kids(a[i].id, links2) \subseteq Kids(a[i].id, links) /\ links2 \subseteq links
      BY DEF Kids, StoreKeeps
    <3>2. n \in Below(Kids(a[i].id, links), links) /\ n \in Token
      BY <3>1, BelowLess, BelowFacts
    <3>3. Ahead(a, i, n, links)
      BY <1>0, <2>1, <2>3, <3>2 DEF Swept
    <3> QED BY <2>3, <3>2, <3>3, AheadStays
  <2>4. ASSUME a[i].do = "unparent", NEW n \in Below({a[i].id}, links2) PROVE toks2[n] = None
    <3>1. {a[i].id} \in SUBSET Token /\ links2 \subseteq links
      BY <2>2, <2>4, TaskFields DEF StoreKeeps
    <3>2. n \in Below({a[i].id}, links) /\ n \in Token
      BY <3>1, BelowLess, BelowFacts
    <3> QED BY <1>0, <2>1, <2>4, <3>2 DEF Swept
  <2> QED BY <2>1, <2>3, <2>4 DEF Swept
<1> QED BY <1>1, <1>2 DEF Sweeps

\* The first task gives way to the tasks s.
LEMMA AheadShift ==
    ASSUME NEW a \in Seq(Tasks), a # <<>>, NEW s \in Seq(Tasks), NEW b, b = s \o Tail(a),
           NEW links, NEW n, Reaches(a[1], n, links) => \E j \in DOMAIN s : Reaches(s[j], n, links),
           NEW i \in DOMAIN a, i > 1, Ahead(a, i, n, links)
    PROVE  Ahead(b, i - 1 + Len(s), n, links)
<1>1. PICK j \in DOMAIN a : j < i /\ Reaches(a[j], n, links)
  BY DEF Ahead
<1>2. /\ Len(a) \in Nat \ {0} /\ Len(s) \in Nat
      /\ DOMAIN a = 1 .. Len(a) /\ DOMAIN s = 1 .. Len(s)
  BY Shift
<1>3. CASE j = 1
  <2>1. PICK q \in DOMAIN s : Reaches(s[q], n, links)
    BY <1>1, <1>3
  <2>2. q \in DOMAIN b /\ b[q] = s[q]
    BY ShiftFirst
  <2>3. q < i - 1 + Len(s)
    BY <1>2, <2>1
  <2> QED BY <2>1, <2>2, <2>3 DEF Ahead
<1>4. CASE j > 1
  <2>1. j - 1 + Len(s) \in DOMAIN b /\ b[j - 1 + Len(s)] = a[j]
    BY <1>4, ShiftTail
  <2>2. j - 1 + Len(s) < i - 1 + Len(s)
    BY <1>1, <1>2
  <2> QED BY <1>1, <2>1, <2>2 DEF Ahead
<1> QED BY <1>2, <1>3, <1>4

LEMMA SweepShift ==
    ASSUME NEW a \in Seq(Tasks), a # <<>>, NEW s \in Seq(Tasks), NEW b, b = s \o Tail(a),
           NEW toks, NEW links, NEW top, Sweeps(a, toks, links, top),
           \A n \in Token : toks[n] # None /\ Reaches(a[1], n, links) =>
               \E j \in DOMAIN s : Reaches(s[j], n, links),
           \A i \in DOMAIN s : ~Confirms(s[i]) /\ s[i].do \in SweepTasks,
           (\E k \in DOMAIN a : k > 1 /\ Confirms(a[k])) =>
               \A i \in DOMAIN s : Swept(s, i, toks, links)
    PROVE  Sweeps(b, toks, links, top)
<1>1. /\ b \in Seq(Tasks) /\ Len(b) = Len(s) + Len(a) - 1
      /\ Len(a) \in Nat \ {0} /\ Len(s) \in Nat
      /\ DOMAIN a = 1 .. Len(a) /\ DOMAIN s = 1 .. Len(s) /\ DOMAIN b = 1 .. Len(b)
  BY Shift
\* The places of b.
<1>2. ASSUME NEW i \in DOMAIN b, i \notin DOMAIN s
      PROVE  /\ i + 1 - Len(s) \in DOMAIN a /\ i + 1 - Len(s) > 1
             /\ b[i] = a[i + 1 - Len(s)] /\ (i + 1 - Len(s)) - 1 + Len(s) = i
  <2>1. i + 1 - Len(s) \in DOMAIN a /\ i + 1 - Len(s) > 1 /\ (i + 1 - Len(s)) - 1 + Len(s) = i
    BY <1>1, <1>2
  <2> QED BY <2>1, ShiftTail
<1>3. ASSUME NEW n \in Token, toks[n] # None, NEW i \in DOMAIN b, i \notin DOMAIN s,
             Ahead(a, i + 1 - Len(s), n, links)
      PROVE  Ahead(b, i, n, links)
  <2> DEFINE q == i + 1 - Len(s)
  <2>1. q \in DOMAIN a /\ q > 1 /\ q - 1 + Len(s) = i
    BY <1>2, <1>3
  <2>2. Ahead(a, q, n, links)
    BY <1>3
  <2> HIDE DEF q
  <2>3. Ahead(b, q - 1 + Len(s), n, links)
    BY <1>3, <2>1, <2>2, AheadShift
  <2> QED BY <2>1, <2>3
<1>4. ASSUME NEW k \in DOMAIN b, Confirms(b[k])
      PROVE  /\ k = Len(b)
             /\ \A n \in b[k].tree : n <= top /\ (toks[n] # None => Ahead(b, k, n, links))
             /\ \A i \in DOMAIN b : i < k => b[i].do \in SweepTasks /\ Swept(b, i, toks, links)
  <2> DEFINE q == k + 1 - Len(s)
  <2>1. k \notin DOMAIN s
    <3>1. k \in DOMAIN s => b[k] = s[k]
      BY ShiftFirst
    <3> QED BY <1>4, <3>1
  <2>2. q \in DOMAIN a /\ q > 1 /\ b[k] = a[q]
    BY <1>2, <2>1
  <2>3. /\ q = Len(a)
        /\ \A n \in a[q].tree : n <= top /\ (toks[n] # None => Ahead(a, q, n, links))
        /\ \A i \in DOMAIN a : i < q => a[i].do \in SweepTasks /\ Swept(a, i, toks, links)
    BY <1>4, <2>2 DEF Sweeps
  <2>4. \A n \in b[k].tree : n \in Token
    <3>1. b[k] \in Tasks
      BY <1>1
    <3> QED BY <1>4, <3>1, TaskFields DEF Confirms
  <2>5. k = Len(b)
    BY <1>1, <2>3
  <2>6. ASSUME NEW n \in b[k].tree PROVE n <= top /\ (toks[n] # None => Ahead(b, k, n, links))
    BY <1>3, <2>1, <2>2, <2>3, <2>4
  <2>7. ASSUME NEW i \in DOMAIN b, i < k PROVE b[i].do \in SweepTasks /\ Swept(b, i, toks, links)
    <3>1. CASE i \in DOMAIN s
      <4>1. b[i] = s[i]
        BY <3>1, ShiftFirst
      <4>2. s[i].do \in SweepTasks /\ Swept(s, i, toks, links)
        BY <1>4, <2>2, <3>1
      <4>3. \A n : Ahead(s, i, n, links) => Ahead(b, i, n, links)
        <5>1. \A j \in DOMAIN s : j \in DOMAIN b /\ b[j] = s[j]
          BY ShiftFirst
        <5> QED BY <5>1 DEF Ahead
      <4> QED BY <4>1, <4>2, <4>3 DEF Swept
    <3>2. CASE i \notin DOMAIN s
      <4> DEFINE j == i + 1 - Len(s)
      <4>1. j \in DOMAIN a /\ j > 1 /\ b[i] = a[j] /\ j < q
        <5>1. j < q
          BY <1>1, <2>7
        <5> QED BY <1>2, <3>2, <5>1
      <4>2. a[j].do \in SweepTasks /\ Swept(a, j, toks, links)
        BY <2>3, <4>1
      <4>3. \A n \in Token : toks[n] # None /\ Ahead(a, j, n, links) => Ahead(b, i, n, links)
        BY <1>3, <3>2
      <4>4. Below(Kids(b[i].id, links), links) \subseteq Token
        BY DEF Below
      <4> HIDE DEF j
      <4> QED BY <4>1, <4>2, <4>3, <4>4 DEF Swept
    <3> QED BY <3>1, <3>2
  <2> QED BY <2>5, <2>6, <2>7
<1> QED BY <1>4 DEF Sweeps

LEMMA SweepNothing ==
    ASSUME NEW a, NEW toks, NEW links, NEW top, \A i \in DOMAIN a : ~Confirms(a[i])
    PROVE  Sweeps(a, toks, links, top)
BY DEF Sweeps

\* Tasks that revoke nothing may be added to a revocation.
IdleSweep == {"use", "secrets", "drop", "unindex", "enqueue"}

LEMMA SweepIdle ==
    ASSUME NEW a \in Seq(Tasks), a # <<>>, NEW s \in Seq(Tasks), NEW b, b = s \o Tail(a),
           NEW toks, NEW links, NEW top, Sweeps(a, toks, links, top),
           a[1].do \notin {"tree", "revoke"}, \A i \in DOMAIN s : s[i].do \in IdleSweep
    PROVE  Sweeps(b, toks, links, top)
<1>1. \A n \in Token : ~Reaches(a[1], n, links)
  BY DEF Reaches
<1>2. \A i \in DOMAIN s : ~Confirms(s[i]) /\ s[i].do \in SweepTasks /\ Swept(s, i, toks, links)
  BY DEF IdleSweep, SweepTasks, Confirms, Swept
<1> QED BY <1>1, <1>2, SweepShift

LEMMA SweepTypes ==
    ASSUME SweepInv
    PROVE  /\ KinInv /\ TypeOK /\ issued \in Nat /\ agenda \in [Thread -> Seq(Tasks)]
           /\ Client \subseteq Thread /\ Manager \subseteq Thread
           /\ \A c \in Client : agenda[c] \in Seq(Tasks) /\ Sweeps(agenda[c], tokens, parents, issued)
BY KinTypes, Numbers DEF SweepInv

\* A request that is not a revocation does not become one.
LEMMA SweepQuiet ==
    ASSUME NEW x \in Client, StepOf(x), agenda[x] # <<>>, \A i \in DOMAIN agenda[x] : ~Confirms(agenda[x][i])
    PROVE  Sweeps(agenda'[x], tokens', parents', issued')
<1>1. x \in Thread
  BY Numbers
<1>2. ASSUME NEW i \in DOMAIN agenda'[x] PROVE ~Confirms(agenda'[x][i])
  <2>1. (\E j \in DOMAIN agenda[x] : agenda'[x][i] = agenda[x][j]) \/ Fresh(agenda'[x][i], x)
    BY <1>1 DEF StepOf, Adds
  <2> QED BY <2>1 DEF Fresh
<1> QED BY <1>2, SweepNothing

\* What comes first in a revocation.
LEMMA SweepHead ==
    ASSUME SweepInv, NEW x \in Client, agenda[x] # <<>>, NEW k \in DOMAIN agenda[x], Confirms(agenda[x][k])
    PROVE  \/ Task(x).do = "reply" /\ Len(agenda[x]) = 1
           \/ Task(x).do \in SweepTasks /\ Swept(agenda[x], 1, tokens, parents)
<1> DEFINE a == agenda[x]
<1>0. /\ a \in Seq(Tasks) /\ a # <<>> /\ Task(x) = a[1] /\ Sweeps(a, tokens, parents, issued)
      /\ k \in DOMAIN a /\ Confirms(a[k])
  BY SweepTypes, HeadTask
<1> HIDE DEF a
<1>1. k \in 1 .. Len(a) /\ Len(a) \in Nat \ {0} /\ 1 \in DOMAIN a
  BY <1>0, EmptySeq, LenProperties
<1>2. k = Len(a) /\ \A i \in DOMAIN a : i < k => a[i].do \in SweepTasks /\ Swept(a, i, tokens, parents)
  BY <1>0 DEF Sweeps
<1>3. CASE k = 1
  BY <1>0, <1>2, <1>3 DEF a, Confirms
<1>4. CASE k # 1
  <2>1. 1 < k
    BY <1>1, <1>4
  <2> QED BY <1>0, <1>1, <1>2, <2>1 DEF a
<1> QED BY <1>3, <1>4

LEMMA CheckSweep ==
    ASSUME SweepInv, NEW x \in Client, Check(x) PROVE Sweeps(agenda'[x], tokens', parents', issued')
<1>0. /\ KinInv /\ TypeOK /\ x \in Thread /\ agenda[x] \in Seq(Tasks)
      /\ Sweeps(agenda[x], tokens, parents, issued) /\ TypeInv
  BY SweepTypes DEF KinInv, OnTimeInv
<1> DEFINE t == Task(x).id
           e == tokens[t]
           k == T("revoke", t)
           u == UseTask(t, e)
           a == agenda[x]
           b == agenda'[x]
<1>1. /\ a # <<>> /\ Task(x).do = "check" /\ t \in Token
      /\ \/ Drop(x)
         \/ Then(x, <<>>)
         \/ e # None /\ e.num_uses = 1 /\ Then(x, <<k>>)
         \/ e # None /\ e.num_uses \in Nat \ {0, 1} /\ Then(x, <<u>>)
      /\ UNCHANGED <<storageVars, status, managers, checkVars, now, boundVars, toldVars>>
  BY <1>0, CheckScript
<1>2. tokens' = tokens /\ parents' = parents /\ issued' = issued
  BY <1>1 DEF storageVars, boundVars
<1>3. a[1] = Task(x)
  BY <1>0, <1>1, HeadTask DEF TypeOK
<1>4. \A s \in Seq(Tasks) : Then(x, s) => b = s \o Tail(a)
  BY <1>0, <1>1, ThenAgenda DEF TypeOK
<1>5. k \in Tasks /\ k.do = "revoke" /\ k.id = t
  BY <1>1, TaskMade DEF OnToken
<1>6. e # None /\ e.num_uses \in Nat \ {0, 1} => u \in Tasks /\ u.do = "use"
  <2>1. e # None => e \in TokenEntry
    BY <1>0, <1>1 DEF TypeOK
  <2> QED BY <1>1, <2>1, UseTyped
<1>11. a \in Seq(Tasks) /\ a # <<>> /\ Sweeps(a, tokens, parents, issued) /\ a[1].do = "check"
  BY <1>0, <1>1, <1>3
<1> HIDE DEF k, u, a, b
<1>7. CASE Drop(x)
  <2>1. b = <<>>
    BY <1>0, <1>7, DropAgenda DEF TypeOK, b
  <2>2. Sweeps(b, tokens, parents, issued)
    BY <2>1, SweepNothing
  <2> QED BY <1>2, <2>2 DEF b
<1>8. CASE Then(x, <<>>)
  <2> DEFINE s == <<>>
  <2>1. s \in Seq(Tasks) /\ \A i \in DOMAIN s : s[i].do \in IdleSweep
    OBVIOUS
  <2>2. b = s \o Tail(a)
    BY <1>4, <1>8, <2>1
  <2> HIDE DEF s
  <2>3. Sweeps(b, tokens, parents, issued)
    BY <1>11, <2>1, <2>2, SweepIdle
  <2> QED BY <1>2, <2>3 DEF b
<1>9. CASE e # None /\ e.num_uses \in Nat \ {0, 1} /\ Then(x, <<u>>)
  <2> DEFINE s == <<u>>
  <2>1. s \in Seq(Tasks) /\ DOMAIN s = {1} /\ s[1] = u
    BY <1>6, <1>9
  <2>2. b = s \o Tail(a)
    BY <1>4, <1>9, <2>1
  <2> HIDE DEF s
  <2>3. \A i \in DOMAIN s : s[i].do \in IdleSweep
    BY <1>6, <1>9, <2>1 DEF IdleSweep
  <2>4. Sweeps(b, tokens, parents, issued)
    BY <1>11, <2>1, <2>2, <2>3, SweepIdle
  <2> QED BY <1>2, <2>4 DEF b
<1>10. CASE e # None /\ e.num_uses = 1 /\ Then(x, <<k>>)
  <2> DEFINE s == <<k>>
  <2>1. s \in Seq(Tasks) /\ DOMAIN s = {1} /\ s[1] = k
    BY <1>5
  <2>2. b = s \o Tail(a)
    BY <1>4, <1>10, <2>1
  <2> HIDE DEF s
  <2>3. Kids(t, parents) = {}
    <3>1. ASSUME NEW n \in Token, <<t, n>> \in parents PROVE FALSE
      <4>1. Fertile(t)
        BY <1>0, <1>1, <3>1 DEF KinInv, ParentsHeld, Linking
      <4> QED BY <1>10, <4>1 DEF Fertile
    <3> QED BY <3>1 DEF Kids
  <2>4. \A i \in DOMAIN s : ~Confirms(s[i]) /\ s[i].do \in SweepTasks /\ Swept(s, i, tokens, parents)
    BY <1>5, <2>1, <2>3, BelowNone DEF Confirms, SweepTasks, Swept
  <2>5. \A n \in Token : ~Reaches(a[1], n, parents)
    BY <1>11 DEF Reaches
  <2>6. Sweeps(b, tokens, parents, issued)
    BY <1>11, <2>1, <2>2, <2>4, <2>5, SweepShift
  <2> QED BY <1>2, <2>6 DEF b
<1> QED BY <1>1, <1>7, <1>8, <1>9, <1>10

LEMMA TreeSweep ==
    ASSUME SweepInv, NEW x \in Client, RevokeTree(x) PROVE Sweeps(agenda'[x], tokens', parents', issued')
<1>0. /\ KinInv /\ TypeOK /\ x \in Thread /\ agenda[x] \in Seq(Tasks)
      /\ Sweeps(agenda[x], tokens, parents, issued)
  BY SweepTypes
<1> DEFINE t == Task(x).id
           a == agenda[x]
           b == agenda'[x]
<1>1. agenda[x] # <<>> /\ Task(x).do = "tree" /\ t \in Token
  BY <1>0, TreeScript
<1>2. PICK s \in Seq(Tasks) :
        /\ Then(x, s)
        /\ \A i \in DOMAIN s : s[i] = T("revoke", t) \/ \E n \in ChildrenOf(t) : s[i] = T("tree", n)
        /\ \A n \in ChildrenOf(t) : \E i \in DOMAIN s : s[i] = T("tree", n)
        /\ \E i \in DOMAIN s : s[i] = T("revoke", t)
        /\ \A i \in DOMAIN s : s[i] = T("revoke", t) => i = Len(s)
  BY <1>0, TreeScript
<1>3. tokens' = tokens /\ parents' = parents /\ issued' = issued
  BY DEF RevokeTree, storageVars, boundVars
<1>4. a[1] = Task(x) /\ a # <<>>
  BY <1>0, <1>1, HeadTask DEF TypeOK
<1>5. b = s \o Tail(a)
  BY <1>0, <1>1, <1>2, ThenAgenda DEF TypeOK
<1>6. \A do, n : T(do, n).do = do /\ T(do, n).id = n
  BY DEF T
<1>7. ChildrenOf(t) = Kids(t, parents) /\ ChildrenOf(t) \in SUBSET Token
  BY DEF ChildrenOf, Kids
<1>8. PICK last \in DOMAIN s : s[last] = T("revoke", t)
  BY <1>2
<1>9. ASSUME NEW n \in Below(ChildrenOf(t), parents)
      PROVE  \E j \in DOMAIN s : j < last /\ Reaches(s[j], n, parents)
  <2>1. PICK m \in ChildrenOf(t) : n \in Below({m}, parents)
    BY <1>7, BelowOne
  <2>2. PICK j \in DOMAIN s : s[j] = T("tree", m)
    BY <1>2
  <2>3. Reaches(s[j], n, parents)
    <3>1. s[j].do = "tree" /\ s[j].id = m
      BY <1>6, <2>2
    <3> QED BY <2>1, <3>1 DEF Reaches
  <2>4. j < last
    <3>1. j # last
      BY <1>6, <1>8, <2>2
    <3>2. last = Len(s) /\ DOMAIN s = 1 .. Len(s) /\ Len(s) \in Nat
      BY <1>2, <1>8
    <3> QED BY <3>1, <3>2
  <2> QED BY <2>3, <2>4
<1>10. ASSUME NEW n \in Token, Reaches(a[1], n, parents) PROVE \E j \in DOMAIN s : Reaches(s[j], n, parents)
  <2>1. n \in Below({t}, parents)
    BY <1>1, <1>4, <1>10 DEF Reaches
  <2>2. n = t \/ n \in Below(ChildrenOf(t), parents)
    BY <1>1, <1>7, <2>1, BelowKids
  <2>3. CASE n = t
    BY <1>6, <1>8, <2>3 DEF Reaches
  <2> QED BY <1>9, <2>2, <2>3
<1>11. ASSUME NEW i \in DOMAIN s
       PROVE  ~Confirms(s[i]) /\ s[i].do \in SweepTasks /\ Swept(s, i, tokens, parents)
  <2>1. CASE s[i] = T("revoke", t)
    <3>1. i = last /\ s[i].do = "revoke" /\ s[i].id = t
      BY <1>2, <1>6, <1>8, <2>1
    <3> QED BY <1>7, <1>9, <3>1 DEF Confirms, SweepTasks, Swept, Ahead
  <2>2. ASSUME NEW n \in ChildrenOf(t), s[i] = T("tree", n)
        PROVE  ~Confirms(s[i]) /\ s[i].do \in SweepTasks /\ Swept(s, i, tokens, parents)
    <3>1. s[i].do = "tree"
      BY <1>6, <2>2
    <3> QED BY <3>1 DEF Confirms, SweepTasks, Swept
  <2> QED BY <1>2, <2>1, <2>2
<1>12. a \in Seq(Tasks) /\ a # <<>> /\ Sweeps(a, tokens, parents, issued)
  BY <1>0, <1>4
<1> HIDE DEF a, b
<1>13. Sweeps(b, tokens, parents, issued)
  BY <1>5, <1>10, <1>11, <1>12, SweepShift
<1> QED BY <1>3, <1>13 DEF b

LEMMA RevokeSweep ==
    ASSUME SweepInv, NEW x \in Client, Revoke(x), NEW c \in DOMAIN agenda[x], Confirms(agenda[x][c])
    PROVE  Sweeps(agenda'[x], tokens', parents', issued')
<1>0. /\ KinInv /\ TypeOK /\ x \in Thread /\ agenda[x] \in Seq(Tasks) /\ issued \in Nat
      /\ Sweeps(agenda[x], tokens, parents, issued)
  BY SweepTypes
<1> DEFINE t == Task(x).id
           e == tokens[t]
           u == UnlinkTask(t, e.parent)
           k == T("secrets", t)
           a == agenda[x]
           b == agenda'[x]
<1>1. /\ a # <<>> /\ Task(x).do = "revoke" /\ t \in Token
      /\ tokens' = [tokens EXCEPT ![t] = None]
      /\ \/ Then(x, <<>>)
         \/ Then(x, <<k>>)
         \/ u \in Tasks /\ Then(x, <<u, k>>)
  BY <1>0, RevokeScript
<1>2. parents' = parents /\ issued' = issued
  BY DEF Revoke, boundVars
<1>3. a[1] = Task(x)
  BY <1>0, <1>1, HeadTask DEF TypeOK
<1>4. k \in Tasks /\ k.do = "secrets"
  BY <1>1, TaskMade DEF OnToken
<1>5. u.do = "unparent" /\ u.id = t
  BY DEF UnlinkTask
<1>6. PICK s \in Seq(Tasks) : Then(x, s) /\ \A i \in DOMAIN s : s[i] = k \/ s[i] = u
  <2> HIDE DEF u, k
  <2>1. CASE Then(x, <<>>)
    <3>1. <<>> \in Seq(Tasks) /\ DOMAIN <<>> = {}
      OBVIOUS
    <3> QED BY <2>1, <3>1
  <2>2. CASE Then(x, <<k>>)
    <3>1. <<k>> \in Seq(Tasks) /\ DOMAIN <<k>> = {1} /\ <<k>>[1] = k
      BY <1>4
    <3> QED BY <2>2, <3>1
  <2>3. CASE u \in Tasks /\ Then(x, <<u, k>>)
    <3>1. <<u, k>> \in Seq(Tasks) /\ DOMAIN <<u, k>> = {1, 2} /\ <<u, k>>[1] = u /\ <<u, k>>[2] = k
      BY <1>4, <2>3
    <3> QED BY <2>3, <3>1
  <2> QED BY <1>1, <2>1, <2>2, <2>3
<1>7. b = s \o Tail(a)
  BY <1>0, <1>1, <1>6, ThenAgenda DEF TypeOK
<1>8. tokens'[t] = None /\ \A n \in Token : tokens'[n] # None => tokens[n] # None
  BY <1>0, <1>1 DEF TypeOK
<1>9. Sweeps(a, tokens', parents, issued)
  <2>1. StoreKeeps(tokens, parents, tokens', parents)
    BY <1>8, SameLinks
  <2>2. issued <= issued
    BY <1>0
  <2> HIDE DEF a
  <2> QED BY <1>0, <2>1, <2>2, SweepStays DEF a
\* Nothing is stored below the token.
<1>10. \A n \in Below({t}, parents) : tokens'[n] = None
  <2>1. Swept(a, 1, tokens, parents)
    BY <1>1, SweepHead
  <2>2. \A n : ~Ahead(a, 1, n, parents)
    <3>1. \A j \in DOMAIN a : ~(j < 1)
      <4>1. DOMAIN a = 1 .. Len(a) /\ Len(a) \in Nat
        BY <1>0
      <4> QED BY <4>1
    <3> QED BY <3>1 DEF Ahead
  <2>3. \A n \in Below(Kids(t, parents), parents) : tokens[n] = None
    BY <1>1, <1>3, <2>1, <2>2 DEF Swept
  <2>4. ASSUME NEW n \in Below({t}, parents) PROVE tokens'[n] = None
    <3>1. n = t \/ n \in Below(Kids(t, parents), parents)
      BY <1>1, BelowKids
    <3>2. n \in Token
      BY DEF Below
    <3> QED BY <1>8, <2>3, <3>1, <3>2
  <2> QED BY <2>4
<1> HIDE DEF u, k, a, b
<1>11. \A i \in DOMAIN s : ~Confirms(s[i]) /\ s[i].do \in SweepTasks /\ Swept(s, i, tokens', parents)
  BY <1>4, <1>5, <1>6, <1>10 DEF Confirms, SweepTasks, Swept
<1>12. \A n \in Token : tokens'[n] # None => ~Reaches(a[1], n, parents)
  BY <1>1, <1>3, <1>8 DEF Reaches
<1>13. Sweeps(b, tokens', parents, issued)
  <2> DEFINE toks == tokens'
  <2>1. Sweeps(a, toks, parents, issued)
    BY <1>9
  <2>2. \A n \in Token : toks[n] # None => ~Reaches(a[1], n, parents)
    BY <1>12
  <2>3. \A i \in DOMAIN s : ~Confirms(s[i]) /\ s[i].do \in SweepTasks /\ Swept(s, i, toks, parents)
    BY <1>11
  <2>4. a \in Seq(Tasks)
    BY <1>0 DEF a
  <2> HIDE DEF toks
  <2>5. Sweeps(b, toks, parents, issued)
    BY <1>1, <1>6, <1>7, <2>1, <2>2, <2>3, <2>4, SweepShift
  <2> QED BY <2>5 DEF toks
<1> QED BY <1>2, <1>13 DEF b

\* A step that takes the first task off or adds tasks that revoke nothing, and
\* keeps what is stored.
LEMMA IdleStepSweep ==
    ASSUME SweepInv, NEW x \in Client, agenda[x] # <<>>, NEW s \in Seq(Tasks), Then(x, s),
           \A i \in DOMAIN s : s[i].do \in IdleSweep,
           Task(x).do \notin {"tree", "revoke"}, issued' = issued,
           StoreKeeps(tokens, parents, tokens', parents')
    PROVE  Sweeps(agenda'[x], tokens', parents', issued')
<1> DEFINE a == agenda[x]
           b == agenda'[x]
           toks == tokens'
           links == parents'
<1>0. /\ TypeOK /\ x \in Thread /\ a \in Seq(Tasks) /\ issued \in Nat /\ issued <= issued
      /\ Sweeps(a, tokens, parents, issued) /\ StoreKeeps(tokens, parents, toks, links)
  BY SweepTypes
<1>1. a[1] = Task(x) /\ a # <<>> /\ b = s \o Tail(a)
  BY <1>0, HeadTask, ThenAgenda DEF TypeOK
<1> HIDE DEF a, b, toks, links
<1>2. Sweeps(a, toks, links, issued)
  BY <1>0, SweepStays
<1>3. Sweeps(b, toks, links, issued)
  BY <1>0, <1>1, <1>2, SweepIdle
<1> QED BY <1>3 DEF b, toks, links

LEMMA IdleNoneSweep ==
    ASSUME SweepInv, NEW x \in Client, agenda[x] # <<>>, Then(x, <<>>),
           Task(x).do \notin {"tree", "revoke"}, issued' = issued,
           StoreKeeps(tokens, parents, tokens', parents')
    PROVE  Sweeps(agenda'[x], tokens', parents', issued')
<1> DEFINE s == <<>>
<1>1. s \in Seq(Tasks) /\ Then(x, s) /\ \A i \in DOMAIN s : s[i].do \in IdleSweep
  OBVIOUS
<1> HIDE DEF s
<1> QED BY <1>1, IdleStepSweep

LEMMA ShortSweep ==
    ASSUME SweepInv, NEW x \in Client,
           DeleteLeaseEntry(x) \/ RemoveIndexByToken(x) \/ RegisterLeaseEntry(x) \/ RevokeByToken(x)
    PROVE  Sweeps(agenda'[x], tokens', parents', issued')
<1>0. TypeOK /\ x \in Thread
  BY SweepTypes
<1>1. tokens' = tokens /\ parents' = parents /\ issued' = issued
  BY DEF DeleteLeaseEntry, RemoveIndexByToken, RegisterLeaseEntry, RevokeByToken, storageVars, boundVars
<1>2. StoreKeeps(tokens, parents, tokens', parents')
  BY <1>1, SameLinks
<1>3. CASE DeleteLeaseEntry(x) \/ RemoveIndexByToken(x) \/ RegisterLeaseEntry(x)
  <2>1. agenda[x] # <<>> /\ Task(x).do \in {"drop", "unindex", "enqueue"} /\ Then(x, <<>>)
    BY <1>0, <1>3, DeleteScript, UntieScript, QueueScript
  <2> QED BY <1>1, <1>2, <2>1, IdleNoneSweep
<1>4. CASE RevokeByToken(x)
  <2>1. agenda[x] # <<>> /\ Task(x).do = "secrets" /\ Task(x).id \in Token
    BY <1>0, <1>4, ByTokenScript
  <2>2. PICK s \in Seq(Tasks) : Then(x, s) /\ SecretsGone(s, Task(x).id)
    BY <1>0, <1>4, ByTokenScript
  <2>3. ASSUME NEW i \in DOMAIN s PROVE s[i].do \in IdleSweep
    <3>1. PICK l \in SecretLease : \/ s[i] = T("drop", l)
                                   \/ s[i] = UntieTask(l, Task(x).id)
                                   \/ s[i] = Enqueue(l, 0)
      BY <2>2 DEF SecretsGone
    <3> QED BY <3>1 DEF T, UntieTask, Enqueue, IdleSweep
  <2> QED BY <1>1, <1>2, <2>1, <2>2, <2>3, IdleStepSweep
<1> QED BY <1>3, <1>4

LEMMA PutSweep ==
    ASSUME SweepInv, NEW x \in Client, Put(x), Task(x).do = "use"
    PROVE  Sweeps(agenda'[x], tokens', parents', issued')
<1>0. TypeOK /\ x \in Thread /\ KinInv
  BY SweepTypes
<1>1. agenda[x] # <<>> /\ Task(x).id \in Token /\ Then(x, <<>>)
  BY <1>0, PutScript
<1>2. /\ tokens' = [tokens EXCEPT ![Task(x).id] = Task(x).entry] /\ parents' = parents /\ issued' = issued
  BY DEF Put, boundVars
<1>3. tokens[Task(x).id] # None
  <2>1. agenda[x][1] = Task(x) /\ 1 \in DOMAIN agenda[x]
    BY <1>0, <1>1, HeadTask DEF TypeOK
  <2> QED BY <1>0, <2>1 DEF KinInv, RequestKnows
<1>4. \A n \in Token : tokens'[n] # None => tokens[n] # None
  BY <1>0, <1>2, <1>3 DEF TypeOK
<1>5. StoreKeeps(tokens, parents, tokens', parents')
  BY <1>2, <1>4, SameLinks
<1> QED BY <1>1, <1>2, <1>5, IdleNoneSweep

LEMMA UnlinkSweep ==
    ASSUME SweepInv, NEW x \in Client, RevokeParent(x), NEW c \in DOMAIN agenda[x], Confirms(agenda[x][c])
    PROVE  Sweeps(agenda'[x], tokens', parents', issued')
<1>0. TypeOK /\ x \in Thread
  BY SweepTypes
<1>1. agenda[x] # <<>> /\ Task(x).do = "unparent" /\ Task(x).id \in Token /\ Then(x, <<>>)
  BY <1>0, UnlinkScript
<1>2. /\ parents' = parents \ {<<Task(x).parent, Task(x).id>>} /\ tokens' = tokens /\ issued' = issued
  BY DEF RevokeParent, boundVars
<1>3. \A n \in Below({Task(x).id}, parents) : tokens[n] = None
  <2>1. agenda[x][1] = Task(x)
    BY <1>0, <1>1, HeadTask DEF TypeOK
  <2>2. Swept(agenda[x], 1, tokens, parents)
    BY <1>1, SweepHead
  <2> QED BY <1>1, <2>1, <2>2 DEF Swept
<1>4. StoreKeeps(tokens, parents, tokens', parents')
  BY <1>1, <1>2, <1>3, LinkGone
<1> QED BY <1>1, <1>2, <1>4, IdleNoneSweep

LEMMA EndSweep ==
    ASSUME SweepInv, NEW x \in Client, Answer(x) \/ Fail(x), NEW c \in DOMAIN agenda[x], Confirms(agenda[x][c])
    PROVE  Sweeps(agenda'[x], tokens', parents', issued')
<1>0. TypeOK /\ x \in Thread /\ agenda[x] \in Seq(Tasks)
  BY SweepTypes
<1>1. agenda'[x] = <<>>
  <2>1. CASE Fail(x)
    BY <1>0, <2>1, DropAgenda DEF Fail, Abort, TypeOK
  <2>2. CASE Answer(x)
    <3>1. agenda[x] # <<>> /\ Task(x).do = "reply" /\ Then(x, <<>>)
      BY <1>0, <2>2, AnswerScript
    <3>2. Len(agenda[x]) = 1
      BY <3>1, SweepHead DEF SweepTasks
    <3>3. <<>> \in Seq(Tasks)
      OBVIOUS
    <3>4. agenda'[x] = <<>> \o Tail(agenda[x])
      BY <1>0, <3>1, <3>3, ThenAgenda DEF TypeOK
    <3> QED BY <1>0, <3>1, <3>2, <3>4, ShiftOne
  <2> QED BY <2>1, <2>2
<1> QED BY <1>1, SweepNothing

\* A step of a request that is a revocation is one of these.
LEMMA ClientSweep ==
    ASSUME SweepInv, NEW x \in Client, RequestStep(x) \/ Fail(x), StepOf(x)
    PROVE  Sweeps(agenda'[x], tokens', parents', issued') /\ agenda[x] # <<>>
<1>0. TypeOK /\ x \in Thread
  BY SweepTypes
<1>1. agenda[x] # <<>>
  BY DEF RequestStep, RevokeStep, Check, Put, HandleCreate, CreateParent, CreateIndex, PostRoute, RegisterAuth,
         RenewToken, RenewPersist, RegisterSecret, CreateIndexByToken, RevokeTree, Revoke, RevokeParent,
         RevokeByToken, DeleteLeaseEntry, RemoveIndexByToken, RegisterLeaseEntry, Answer, Fail, Stored, Doing
<1>2. CASE \A i \in DOMAIN agenda[x] : ~Confirms(agenda[x][i])
  BY <1>1, <1>2, SweepQuiet
<1>3. CASE \E k \in DOMAIN agenda[x] : Confirms(agenda[x][k])
  <2>1. PICK k \in DOMAIN agenda[x] : Confirms(agenda[x][k])
    BY <1>3
  <2>2. Task(x).do \in SweepTasks \cup {"reply"}
    BY <1>1, <2>1, SweepHead
  <2>3. ~(\/ HandleCreate(x) \/ CreateParent(x) \/ CreateIndex(x) \/ PostRoute(x) \/ RegisterAuth(x)
          \/ RenewToken(x) \/ RenewPersist(x) \/ RegisterSecret(x) \/ CreateIndexByToken(x))
    BY <2>2 DEF HandleCreate, CreateParent, CreateIndex, PostRoute, RegisterAuth, RenewToken, RenewPersist,
                RegisterSecret, CreateIndexByToken, Stored, Doing, SweepTasks
  <2>4. Put(x) => Task(x).do = "use"
    BY <2>2 DEF Put, Stored, Doing, SweepTasks
  <2>5. \/ Check(x) \/ Put(x) \/ RevokeTree(x) \/ Revoke(x) \/ RevokeParent(x) \/ RevokeByToken(x)
        \/ DeleteLeaseEntry(x) \/ RemoveIndexByToken(x) \/ RegisterLeaseEntry(x) \/ Answer(x) \/ Fail(x)
    BY <2>3 DEF RequestStep, RevokeStep
  <2>6. Sweeps(agenda'[x], tokens', parents', issued')
    BY <2>1, <2>4, <2>5, CheckSweep, PutSweep, TreeSweep, RevokeSweep, UnlinkSweep, ShortSweep, EndSweep
  <2> QED BY <1>1, <2>6
<1> QED BY <1>2, <1>3

\* The other clients are idle.
LEMMA IdleSweeps ==
    ASSUME OneRequest, NEW x \in Client, agenda[x] # <<>>, StepOf(x), NEW c \in Client, c # x,
           NEW toks, NEW links, NEW top
    PROVE  Sweeps(agenda'[c], toks, links, top)
<1>1. agenda[c] = <<>> /\ c \in Thread
  BY Numbers DEF OneRequest
<1>2. \A i \in DOMAIN agenda'[c] : \E j \in DOMAIN agenda[c] : agenda'[c][i] = agenda[c][j]
  BY <1>1 DEF StepOf, Adds
<1>3. \A i \in DOMAIN agenda'[c] : FALSE
  BY <1>1, <1>2
<1> QED BY <1>3, SweepNothing

\* A checker stores nothing, and takes the link of a token away only when there
\* is nothing below it.
LEMMA CheckerSweep ==
    ASSUME SweepInv, NEW e \in Manager, CheckerStep(e) \/ Fail(e), NEW c \in Client
    PROVE  Sweeps(agenda'[c], tokens', parents', issued')
<1>0. /\ KinInv /\ TypeOK /\ e \in Thread /\ c \in Thread \ {e} /\ issued \in Nat /\ issued <= issued
      /\ agenda[c] \in Seq(Tasks) /\ Sweeps(agenda[c], tokens, parents, issued)
      /\ agenda \in [Thread -> Seq(Tasks)]
  BY SweepTypes, Numbers
<1>1. issued' = issued
  BY DEF CheckerStep, CheckerLock, CheckerNext, CheckerRevoke, CheckerPop, CheckerUnlock, RevokeStep, RevokeTree,
         Revoke, RevokeParent, RevokeByToken, DeleteLeaseEntry, RemoveIndexByToken, RegisterLeaseEntry, Fail,
         boundVars
<1>2. agenda'[c] = agenda[c]
  <2>1. CASE CheckerLock(e) \/ CheckerUnlock(e)
    BY <2>1 DEF CheckerLock, CheckerUnlock
  <2>2. CASE ~(CheckerLock(e) \/ CheckerUnlock(e))
    <3>1. \E v : agenda' = [agenda EXCEPT ![e] = v]
      BY <2>2 DEF CheckerStep, CheckerNext, CheckerRevoke, CheckerPop, RevokeStep, RevokeTree,
         Revoke, RevokeParent, RevokeByToken, DeleteLeaseEntry, RemoveIndexByToken, RegisterLeaseEntry, Fail,
         Abort, Drop, Then
    <3> QED BY <1>0, <3>1
  <2> QED BY <2>1, <2>2
<1>3. StoreKeeps(tokens, parents, tokens', parents')
  <2>1. CASE Revoke(e)
    <3>1. tokens' = [tokens EXCEPT ![Task(e).id] = None] /\ parents' = parents
      BY <2>1 DEF Revoke
    <3>2. \A n \in Token : tokens'[n] # None => tokens[n] # None
      BY <1>0, <3>1 DEF TypeOK
    <3> QED BY <3>1, <3>2, SameLinks
  <2>2. CASE RevokeParent(e)
    <3> DEFINE m == Task(e).id
    <3>1. /\ parents' = parents \ {<<Task(e).parent, m>>} /\ tokens' = tokens
      BY <2>2 DEF RevokeParent
    <3>2. /\ agenda[e] # <<>> /\ Task(e).do = "unparent" /\ m \in Token
          /\ agenda[e][1] = Task(e) /\ 1 \in DOMAIN agenda[e]
      BY <1>0, <2>2, UnlinkScript, HeadTask
    <3>3. tokens[m] = None
      <4>1. Pending(agenda, "unparent", m)
        BY <1>0, <3>2 DEF Pending
      <4> QED BY <1>0, <3>2, <4>1 DEF KinInv, TreeInv, NotThere
    <3>4. Kids(m, parents) = {}
      <4>1. Sterile(m)
        BY <1>0, <3>2 DEF KinInv, CheckerKnows, CheckerHas
      <4>2. ASSUME NEW n \in Token, <<m, n>> \in parents PROVE FALSE
        BY <1>0, <3>2, <4>1, <4>2 DEF KinInv, ParentsHeld, Linking, Sterile
      <4> QED BY <4>2 DEF Kids
    <3>5. \A n \in Below({m}, parents) : tokens[n] = None
      BY <3>2, <3>3, <3>4, BelowKids, BelowNone
    <3> QED BY <3>1, <3>2, <3>5, LinkGone
  <2>3. CASE ~Revoke(e) /\ ~RevokeParent(e)
    <3>1. tokens' = tokens /\ parents' = parents
      BY <2>3 DEF CheckerStep, CheckerLock, CheckerNext, CheckerRevoke, CheckerPop, CheckerUnlock, RevokeStep,
         RevokeTree, RevokeByToken, DeleteLeaseEntry, RemoveIndexByToken, RegisterLeaseEntry, Fail, storageVars
    <3> QED BY <3>1, SameLinks
  <2> QED BY <2>1, <2>2, <2>3
<1>4. Sweeps(agenda[c], tokens', parents', issued)
  <2> DEFINE a == agenda[c]
             toks == tokens'
             links == parents'
  <2>1. a \in Seq(Tasks) /\ Sweeps(a, tokens, parents, issued) /\ StoreKeeps(tokens, parents, toks, links)
    BY <1>0, <1>3
  <2> HIDE DEF a, toks, links
  <2>2. Sweeps(a, toks, links, issued)
    BY <1>0, <2>1, SweepStays
  <2> QED BY <2>2 DEF a, toks, links
<1> QED BY <1>1, <1>2, <1>4

\* A revocation begins: the tree is what revoke_tree will find.
LEMMA RequestSweep ==
    ASSUME SweepInv, NEW x \in Client, Request(x), NEW c \in Client
    PROVE  Sweeps(agenda'[c], tokens', parents', issued')
<1>0. /\ KinInv /\ TypeOK /\ x \in Thread /\ c \in Thread /\ OnTimeInv /\ issued \in Nat
      /\ Sweeps(agenda[c], tokens, parents, issued)
  BY SweepTypes, KinTypes
<1>1. PICK s \in Seq(Tasks) : Started(x, s) /\ Call(x, s)
  BY <1>0, RequestScript
<1>2. /\ agenda'[x] = s /\ \A y \in Thread \ {x} : agenda'[y] = agenda[y]
      /\ UNCHANGED <<storageVars, status, managers, checkVars, now, boundVars, toldVars>>
  BY <1>0, <1>1, CallTasks
<1>3. tokens' = tokens /\ parents' = parents /\ issued' = issued
  BY <1>2 DEF storageVars, boundVars
<1>4. CASE c # x
  BY <1>0, <1>2, <1>3, <1>4
<1>5. ASSUME NEW t \in held, NEW u \in held, s = <<T("check", t), T("tree", u), RevokeReply(u, Tree(u))>>
      PROVE  Sweeps(s, tokens, parents, issued)
  <2>1. /\ Len(s) = 3 /\ DOMAIN s = {1, 2, 3}
        /\ s[1] = T("check", t) /\ s[2] = T("tree", u) /\ s[3] = RevokeReply(u, Tree(u))
    BY <1>5
  <2>2. /\ s[1].do = "check" /\ s[2].do = "tree" /\ s[2].id = u
        /\ s[3].do = "reply" /\ s[3].op = "revoke" /\ s[3].tree = Tree(u)
    BY <2>1 DEF T, RevokeReply
  <2>3. Tree(u) = Below({u}, parents)
    BY DEF Tree, Below, Closed
  <2>4. \A n \in Below({u}, parents) : n <= issued
    <3> DEFINE S == {n \in Token : n <= issued}
    <3>1. u \in Token /\ u <= issued
      BY <1>0, KinTypes DEF KinInv, HeldIssued
    <3>2. \A p, n \in Token : <<p, n>> \in parents => n <= issued
      BY <1>0, HailedApart DEF Linking
    <3>3. S \in SUBSET Token /\ {u} \subseteq S /\ {u} \in SUBSET Token /\ Closed(S, parents)
      BY <3>1, <3>2 DEF Closed
    <3>4. \A n \in S : n <= issued
      OBVIOUS
    <3> HIDE DEF S
    <3> QED BY <3>3, <3>4, BelowFacts
  <2>5. \A n \in Tree(u) : Ahead(s, 3, n, parents)
    <3>1. \A n \in Tree(u) : Reaches(s[2], n, parents)
      BY <2>2, <2>3 DEF Reaches
    <3>2. 2 \in DOMAIN s /\ 2 < 3
      BY <2>1
    <3> QED BY <3>1, <3>2 DEF Ahead
  <2>6. ASSUME NEW k \in DOMAIN s, Confirms(s[k]) PROVE k = 3
    BY <2>1, <2>2, <2>6 DEF Confirms
  <2>7. \A i \in DOMAIN s : i < 3 => s[i].do \in SweepTasks /\ Swept(s, i, tokens, parents)
    BY <2>1, <2>2 DEF SweepTasks, Swept
  <2> QED BY <2>1, <2>2, <2>3, <2>4, <2>5, <2>6, <2>7 DEF Sweeps
<1>6. CASE ~\E t, u \in held : s = <<T("check", t), T("tree", u), RevokeReply(u, Tree(u))>>
  <2> DEFINE Calm(k) == ~Confirms(k)
  <2>1. \A do, n : do # "reply" => Calm(T(do, n))
    BY DEF Confirms, T
  <2>2. \A n, z : Calm(CreateTask(n, z))
    BY DEF Confirms, CreateTask
  <2> HIDE DEF Calm
  <2>3. ASSUME NEW k, NEW m, NEW r, Calm(k), Calm(m), Calm(r)
        PROVE  /\ \A i \in DOMAIN <<k>> : Calm(<<k>>[i])
               /\ \A i \in DOMAIN <<k, m>> : Calm(<<k, m>>[i])
               /\ \A i \in DOMAIN <<k, m, r>> : Calm(<<k, m, r>>[i])
    BY <2>3
  <2>4. ASSUME s = <<T("token", None)>> PROVE \A i \in DOMAIN s : Calm(s[i])
    BY <2>1, <2>3, <2>4
  <2>5. ASSUME NEW t \in held, NEW req \in TokenReq,
               \/ s = <<T("check", t), CreateTask(t, req)>>
               \/ s = <<T("check", t), CreateTask(t, req), T("token", t)>>
        PROVE  \A i \in DOMAIN s : Calm(s[i])
    BY <2>1, <2>2, <2>3, <2>5
  <2>6. ASSUME NEW t \in held, NEW u \in held,
               \/ s = <<T("check", t), T("renew", u), T("token", None)>>
               \/ s = <<T("check", t), T("revoke", u)>>
               \/ s = <<T("check", t), T("secret", t)>>
        PROVE  \A i \in DOMAIN s : Calm(s[i])
    BY <2>1, <2>3, <2>6
  <2>7. \A i \in DOMAIN s : Calm(s[i])
    BY <1>1, <1>6, <2>4, <2>5, <2>6 DEF Started
  <2>8. Sweeps(s, tokens, parents, issued)
    BY <2>7, SweepNothing DEF Calm
  <2> QED BY <1>2, <1>3, <1>4, <2>8
<1> QED BY <1>2, <1>3, <1>4, <1>5, <1>6

LEMMA VaultSweep ==
    ASSUME SweepInv, Seal \/ Open \/ Unseal \/ Tick \/ Crash \/ UNCHANGED vars, NEW c \in Client
    PROVE  Sweeps(agenda'[c], tokens', parents', issued')
<1>0. c \in Thread /\ Sweeps(agenda[c], tokens, parents, issued)
  BY SweepTypes
<1>1. tokens' = tokens /\ parents' = parents /\ issued' = issued
  BY DEF Seal, Open, Unseal, Tick, Crash, vars, storageVars, boundVars
<1>2. agenda' = agenda \/ agenda'[c] = <<>>
  BY <1>0 DEF Seal, Open, Unseal, Tick, Crash, vars
<1>3. CASE agenda'[c] = <<>>
  BY <1>3, SweepNothing
<1> QED BY <1>0, <1>1, <1>2, <1>3

\* A token that is gone for good stays so.
LEMMA GoneStays ==
    ASSUME KinInv, NEW x \in Thread, StepOf(x), NEW n \in Token, n <= issued, tokens[n] = None,
           ~Pending(agenda, "put", n)
    PROVE  n <= issued' /\ tokens'[n] = None /\ ~Pending(agenda', "put", n)
<1>0. TypeOK /\ issued \in Nat /\ n \in Nat /\ issued' \in {issued, issued + 1} /\ n # issued + 1
  BY KinTypes DEF StepOf
<1>1. tokens'[n] = None
  <2>1. ~Pending(agenda, "use", n)
    BY DEF Pending, KinInv, RequestKnows
  <2>2. tokens'[n] = tokens[n] \/ Writes(x, n)
    BY DEF StepOf
  <2> QED BY <1>0, <2>1, <2>2, WriteDue
<1>2. ~Pending(agenda', "put", n)
  <2>1. ASSUME NEW k, k.do = "put", k.id = n, Fresh(k, x) PROVE FALSE
    BY <1>0, <2>1 DEF Fresh
  <2> QED BY <2>1, StillDue
<1> QED BY <1>0, <1>1, <1>2

\* When the answer goes out, the tree is gone.
LEMMA AnswerGone ==
    ASSUME SweepInv, OneRequest, NEW x \in Client, Answer(x), NEW n \in revoked'
    PROVE  n \in Token /\ n <= issued /\ tokens[n] = None /\ ~Pending(agenda, "put", n)
<1>0. /\ TypeOK /\ KinInv /\ x \in Thread /\ agenda[x] \in Seq(Tasks)
      /\ Sweeps(agenda[x], tokens, parents, issued)
  BY SweepTypes
<1> DEFINE r == Task(x)
           a == agenda[x]
<1>1. /\ a # <<>> /\ r.do = "reply" /\ (r.op = "revoke" => r.tree \subseteq Token)
      /\ revoked' = IF r.op = "revoke" THEN revoked \cup r.tree ELSE revoked
  BY <1>0, AnswerScript
<1>2. CASE n \in revoked
  BY <1>0, <1>2 DEF SweepInv, GoneForGood, TypeOK
<1>3. CASE r.op = "revoke" /\ n \in r.tree
  <2>1. a[1] = r /\ 1 \in DOMAIN a /\ Confirms(a[1])
    BY <1>0, <1>1, <1>3, HeadTask DEF TypeOK, Confirms
  <2>2. Len(a) = 1 /\ n <= issued /\ (tokens[n] # None => Ahead(a, 1, n, parents))
    BY <1>0, <1>3, <2>1 DEF Sweeps
  <2>3. DOMAIN a = {1}
    BY <1>0, <2>2
  <2>4. ~Ahead(a, 1, n, parents)
    BY <2>3 DEF Ahead
  <2>5. n \in Token
    BY <1>1, <1>3
  <2>6. ASSUME NEW y \in Thread, NEW i \in DOMAIN agenda[y], agenda[y][i].do = "put", agenda[y][i].id = n
        PROVE  FALSE
    <3>1. y \notin Manager
      BY <1>0, <2>5, <2>6 DEF KinInv, CheckerKnows, CheckerHas
    <3>2. agenda[y] # <<>>
      <4>1. CASE agenda[y] = <<>>
        BY <2>6, <4>1
      <4> QED BY <4>1
    <3>3. y = x
      BY <1>1, <3>1, <3>2 DEF OneRequest, Thread
    <3> QED BY <1>1, <2>1, <2>3, <2>6, <3>3
  <2> QED BY <2>2, <2>4, <2>5, <2>6 DEF Pending
<1> QED BY <1>1, <1>2, <1>3

LEMMA RevokedSame ==
    ASSUME [Next]_vars, ~\E c \in Client : Answer(c) PROVE revoked' = revoked
<1>1. ASSUME NEW x \in Thread, RevokeStep(x) \/ Fail(x) PROVE revoked' = revoked
  BY <1>1 DEF RevokeStep, RevokeTree, Revoke, RevokeParent, RevokeByToken, DeleteLeaseEntry, RemoveIndexByToken,
              RegisterLeaseEntry, Fail, toldVars
<1>2. ASSUME NEW c \in Client, RequestStep(c) PROVE revoked' = revoked
  <2>1. CASE RevokeStep(c)
    BY <1>1, <2>1, Numbers
  <2>2. CASE ~RevokeStep(c)
    BY <1>2, <2>2 DEF RequestStep, Check, Put, HandleCreate, CreateParent, CreateIndex, PostRoute, RegisterAuth,
              RenewToken, RenewPersist, RegisterSecret, CreateIndexByToken, toldVars
  <2> QED BY <2>1, <2>2
<1>3. ASSUME NEW c \in Client, Request(c) PROVE revoked' = revoked
  BY <1>3 DEF Request, Login, Create, Renew, RevokeCall, RevokeOrphan, ReadSecret, Call, toldVars
<1>4. ASSUME NEW e \in Manager, CheckerStep(e) PROVE revoked' = revoked
  <2>1. CASE RevokeStep(e)
    BY <1>1, <2>1, Numbers
  <2>2. CASE ~RevokeStep(e)
    BY <1>4, <2>2 DEF CheckerStep, CheckerLock, CheckerNext, CheckerRevoke, CheckerPop, CheckerUnlock, toldVars
  <2> QED BY <2>1, <2>2
<1>5. CASE Seal \/ Open \/ Unseal \/ Tick \/ Crash \/ UNCHANGED vars
  BY <1>5 DEF Seal, Open, Unseal, Tick, Crash, vars, toldVars
<1> QED BY <1>1, <1>2, <1>3, <1>4, <1>5 DEF Next

LEMMA GoneStep == ASSUME SweepInv, OneRequest, [Next]_vars PROVE GoneForGood'
<1>0. KinInv /\ TypeOK
  BY SweepTypes
<1>1. PICK x \in Thread : StepOf(x)
  BY <1>0, StepKin
<1>2. ASSUME NEW n \in revoked'
      PROVE  n \in Token /\ n <= issued /\ tokens[n] = None /\ ~Pending(agenda, "put", n)
  <2>1. ASSUME NEW c \in Client, Answer(c)
        PROVE  n \in Token /\ n <= issued /\ tokens[n] = None /\ ~Pending(agenda, "put", n)
    BY <1>2, <2>1, AnswerGone
  <2>2. CASE ~\E c \in Client : Answer(c)
    <3>1. n \in revoked
      BY <1>2, <2>2, RevokedSame
    <3> QED BY <1>0, <3>1 DEF SweepInv, GoneForGood, TypeOK
  <2> QED BY <2>1, <2>2
<1>3. ASSUME NEW n \in revoked' PROVE n <= issued' /\ tokens'[n] = None /\ ~Pending(agenda', "put", n)
  BY <1>0, <1>1, <1>2, <1>3, GoneStays
<1> QED BY <1>3 DEF GoneForGood

LEMMA SweepStep == SweepInv /\ OneRequest /\ [Next]_vars => SweepInv'
<1> SUFFICES ASSUME SweepInv, OneRequest, [Next]_vars PROVE SweepInv'
  OBVIOUS
<1>0. KinInv /\ Client \subseteq Thread
  BY SweepTypes
<1>1. KinInv' /\ GoneForGood'
  BY <1>0, KinKept, GoneStep
<1>2. ASSUME NEW c \in Client PROVE Sweeps(agenda'[c], tokens', parents', issued')
  <2>1. ASSUME NEW x \in Client, RequestStep(x) \/ Fail(x)
        PROVE  Sweeps(agenda'[c], tokens', parents', issued')
    <3>1. StepOf(x)
      BY <1>0, <2>1, StepKinClient
    <3>2. Sweeps(agenda'[x], tokens', parents', issued') /\ agenda[x] # <<>>
      BY <2>1, <3>1, ClientSweep
    <3> QED BY <3>1, <3>2, IdleSweeps
  <2>2. ASSUME NEW e \in Manager, CheckerStep(e) \/ Fail(e)
        PROVE  Sweeps(agenda'[c], tokens', parents', issued')
    BY <2>2, CheckerSweep
  <2>3. ASSUME NEW x \in Client, Request(x) PROVE Sweeps(agenda'[c], tokens', parents', issued')
    BY <2>3, RequestSweep
  <2>4. CASE Seal \/ Open \/ Unseal \/ Tick \/ Crash \/ UNCHANGED vars
    BY <2>4, VaultSweep
  <2> QED BY <2>1, <2>2, <2>3, <2>4 DEF Next, Thread
<1> QED BY <1>1, <1>2 DEF SweepInv

LEMMA SweepInit == Init => SweepInv
<1> SUFFICES ASSUME Init PROVE SweepInv
  OBVIOUS
<1>1. \A c \in Client : agenda[c] = <<>>
  BY Numbers DEF Init
<1>2. \A c \in Client : Sweeps(agenda[c], tokens, parents, issued)
  BY <1>1, SweepNothing
<1>3. GoneForGood
  BY DEF Init, GoneForGood
<1> QED BY <1>2, <1>3, KinInit DEF SweepInv

\* revoke_tree: with any number of clients and tokens, trees of any depth, faults,
\* crashes, seals and the checkers of all managers running at the same time, as
\* long as no two requests overlap: once a client was told that a revocation is
\* done, the token and the tree that was linked below it are gone, and stay so.
THEOREM TokensRevokedTreeGone == Spec => RevokedTreeGone
<1>1. SweepInv => \A n \in revoked : tokens[n] = None
  BY DEF SweepInv, GoneForGood
<1> QED BY <1>1, SweepInit, SweepStep, PTL DEF Spec, RevokedTreeGone
=============================================================================
