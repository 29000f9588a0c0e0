------------------------------- MODULE Storage -------------------------------
(***************************************************************************)
(* The physical backends under the barrier and one of its views: the file  *)
(* backend (storage/physical/file.rs), which turns a key into directories  *)
(* and a file whose name starts with an underscore, and the MySQL backend  *)
(* (storage/mysql/mysql_backend.rs), one row per key.  The barrier seals a *)
(* value to its key (barrier_aes_gcm.rs).  The view (barrier_view.rs)      *)
(* checks a key, puts its prefix before it, and clears a mount by walking  *)
(* what list returns.                                                      *)
(*                                                                         *)
(* A key is the sequence of its segments, which may be empty, and a        *)
(* segment a sequence of characters: the file backend tells names apart by *)
(* their first character.  Put opens (and so truncates) the file and then  *)
(* writes it, under one mutex.                                             *)
(***************************************************************************)
EXTENDS Naturals, Sequences, FiniteSets, SequencesExt

CONSTANTS StoreKeys,    \* keys clients use
          StoreValues,  \* values they put
          View          \* the segments of the view's prefix

VARIABLES sbackend, \* "file" or "mysql"
          sdirs,    \* file: the directories
          sfiles,   \* file: path of a file -> its content; mysql: key of a row -> its value
          scall,    \* the put that has opened its file
          sknown,   \* what clients know: key -> value, NoValue or Unsure
          srespelt  \* history: the keys of which another spelling was put or deleted since

storeVars == <<sbackend, sdirs, sfiles, scall, sknown, srespelt>>

NoValue == "none"
Unsure == "unsure"
Torn == "torn"
StoreError == "error"
NoPut == [key |-> <<>>]

\* A value as the barrier seals it.
Sealed(k, value) == [key |-> k, value |-> value]

StoreInit ==
    /\ sbackend \in {"file", "mysql"}
    /\ sdirs = {<<>>}
    /\ sfiles = <<>>
    /\ scall = NoPut
    /\ sknown = [k \in StoreKeys |-> NoValue]
    /\ srespelt = {}

-----------------------------------------------------------------------------
(* The view *)

\* No ".." anywhere, no "/" in front.
sanity_check(key) ==
    /\ \A i \in DOMAIN key : \A j \in 2..Len(key[i]) : ~(key[i][j - 1] = "." /\ key[i][j] = ".")
    /\ Len(key) > 1 => key[1] # <<>>

expand_key(suffix) == View \o suffix

-----------------------------------------------------------------------------
(* The file backend *)

\* Slip: the file has the name of the key.
path_key_plain(k) == k

\* The components of a path: empty segments and "." are none.
PathNames(k) == SelectSeq(k, LAMBDA s : s \notin {<<>>, <<".">>})

\* path_key: the last name gets an underscore.
path_key(k) == LET n == PathNames(k) IN [n EXCEPT ![Len(n)] = <<"_">> \o @]

Parents(path) == {SubSeq(path, 1, n) : n \in 0..(Len(path) - 1)}

\* create_dir_all, then File::create: neither may meet the other's kind.
FileOpens(path) ==
    /\ Parents(path) \cap DOMAIN sfiles = {}
    /\ path \notin sdirs

\* A file on the way is an error other than "not found", a directory cannot be
\* read, and an entry that was cut short does not parse.
file_get(k) ==
    LET path == path_key(k) IN
    IF path \in sdirs \/ Parents(path) \cap DOMAIN sfiles # {} THEN Sealed(k, StoreError)
    ELSE IF path \notin DOMAIN sfiles THEN Sealed(k, NoValue)
    ELSE IF sfiles[path].value = Torn THEN Sealed(k, StoreError) ELSE sfiles[path]

\* list: a name with an underscore in front is a key, any other a directory.
file_list(prefix) ==
    LET names == {Last(p) : p \in {q \in sdirs \cup DOMAIN sfiles :
                                      q # <<>> /\ Front(q) = prefix}}
    IN  [ok |-> prefix \notin DOMAIN sfiles,
         keys |-> {Tail(n) : n \in {m \in names : Head(m) = "_"}},
         dirs |-> {n \in names : Head(n) # "_"}]

file_delete_fails(k) ==
    path_key(k) \in sdirs \/ Parents(path_key(k)) \cap DOMAIN sfiles # {}

-----------------------------------------------------------------------------
(* The MySQL backend *)

row_get(k) == IF k \in DOMAIN sfiles THEN sfiles[k] ELSE Sealed(k, NoValue)

\* LIKE: an underscore of the prefix stands for any character, a "/" too.
Text(segments) == FlattenSeq([i \in DOMAIN segments |-> Append(segments[i], "/")])
like(k, prefix) ==
    LET text == Text(k) pattern == Text(prefix)
    IN  /\ Len(text) > Len(pattern)
        /\ \A i \in DOMAIN pattern : pattern[i] \in {"_", text[i]}

\* trim_start_matches: the prefix goes as often as it is there.
Trimmed(k, prefix) ==
    LET n == Len(prefix)
        times == {t \in 0..Len(k) \div n : Len(k) > t * n
                     /\ \A i \in 1..t * n : k[i] = prefix[((i - 1) % n) + 1]}
    IN  SubSeq(k, Max(times) * n + 1, Len(k))

\* A row that only LIKE matches keeps the prefix, and is shown by its first
\* segment.
row_list(prefix) ==
    LET shown == {Trimmed(k, prefix) : k \in {r \in DOMAIN sfiles : like(r, prefix)}}
    IN  [ok |-> TRUE,
         keys |-> {Head(k) : k \in {s \in shown : Len(s) = 1}},
         dirs |-> {Head(k) : k \in {s \in shown : Len(s) > 1}}]

-----------------------------------------------------------------------------
(* Either of them *)

backend_get(k) == IF sbackend = "file" THEN file_get(k) ELSE row_get(k)
backend_list(prefix) == IF sbackend = "file" THEN file_list(prefix) ELSE row_list(prefix)
Deletable(k) == sbackend = "file" => ~file_delete_fails(k)
Place(k) == IF sbackend = "file" THEN path_key(k) ELSE k

\* The barrier opens a value with the key it is read under.
barrier_get(k) == LET e == backend_get(k) IN IF e.key = k THEN e.value ELSE StoreError

view_get(key) == barrier_get(expand_key(key))

\* Other keys that share the place of this one.
Respellings(key) == {k \in StoreKeys \ {key} : Place(expand_key(k)) = Place(expand_key(key))}
Touched(key) == srespelt' = (srespelt \cup Respellings(key)) \ {key}

\* Every client waits for the mutex of the file backend.
Unlocked == scall = NoPut

\* put: into the table at once, into a file in two steps.
view_put(key, value) ==
    /\ Unlocked
    /\ sanity_check(key)
    /\ Touched(key)
    /\ LET k == expand_key(key) IN
       \/ /\ sbackend = "mysql"
          /\ sfiles' = [p \in DOMAIN sfiles \cup {k} |-> IF p = k THEN Sealed(k, value) ELSE sfiles[p]]
          /\ sknown' = [sknown EXCEPT ![key] = value]
          /\ UNCHANGED <<sbackend, sdirs, scall>>
       \/ /\ sbackend = "file"
          /\ FileOpens(path_key(k))
          /\ sdirs' = sdirs \cup Parents(path_key(k))
          /\ sfiles' = [p \in DOMAIN sfiles \cup {path_key(k)} |->
                           IF p = path_key(k) THEN Sealed(k, Torn) ELSE sfiles[p]]
          /\ scall' = [key |-> key, value |-> value]
          /\ sknown' = [sknown EXCEPT ![key] = Unsure]
          /\ UNCHANGED sbackend

\* write_all.
PutWrite ==
    /\ scall # NoPut
    /\ sfiles' = [sfiles EXCEPT ![path_key(expand_key(scall.key))].value = scall.value]
    /\ sknown' = [sknown EXCEPT ![scall.key] = scall.value]
    /\ scall' = NoPut
    /\ UNCHANGED <<sbackend, sdirs, srespelt>>

\* The write fails, or the process ends before it.
PutCut ==
    /\ scall # NoPut
    /\ scall' = NoPut
    /\ UNCHANGED <<sbackend, sdirs, sfiles, sknown, srespelt>>

\* delete: directories stay.
view_delete(key) ==
    /\ Unlocked
    /\ sanity_check(key)
    /\ Deletable(expand_key(key))
    /\ sfiles' = [p \in DOMAIN sfiles \ {Place(expand_key(key))} |-> sfiles[p]]
    /\ sknown' = [sknown EXCEPT ![key] = NoValue]
    /\ Touched(key)
    /\ UNCHANGED <<sbackend, sdirs, scall>>

\* get_keys: the directories reached by n calls of list, then all keys in them.
Depth == 3
Reached[n \in 0..Depth] ==
    IF n = 0 THEN {<<>>}
    ELSE UNION {{Append(p, d) : d \in backend_list(expand_key(p)).dirs} : p \in Reached[n - 1]}
Walked == UNION {Reached[n] : n \in 0..Depth}

get_keys ==
    LET walked == Walked IN
    [ok |-> \A p \in walked : sanity_check(Append(p, <<>>)) /\ backend_list(expand_key(p)).ok,
     keys |-> UNION {{Append(p, n) : n \in backend_list(expand_key(p)).keys} : p \in walked}]

\* A key as list shows it.
Shown(k) == IF sbackend = "file" THEN PathNames(k) ELSE k

\* clear: the first key that cannot be deleted ends it.
clear ==
    /\ Unlocked
    /\ LET found == get_keys
           stuck == {k \in found.keys : ~Deletable(expand_key(k))}
       IN  /\ found.ok
           /\ \E done \in IF stuck = {} THEN {found.keys} ELSE SUBSET (found.keys \ stuck) :
             /\ sfiles' = [p \in DOMAIN sfiles \ {Place(expand_key(k)) : k \in done} |-> sfiles[p]]
             /\ LET gone == {k \in StoreKeys : stuck = {} \/ Shown(k) \in done} IN
                /\ sknown' = [k \in StoreKeys |-> IF k \in gone THEN NoValue ELSE sknown[k]]
                /\ srespelt' = srespelt \ gone
    /\ UNCHANGED <<sbackend, sdirs, scall>>

StoreNext ==
    \/ \E key \in StoreKeys :
          \/ \E value \in StoreValues : view_put(key, value)
          \/ view_delete(key)
    \/ PutWrite
    \/ PutCut
    \/ clear

StoreSpec == StoreInit /\ [][StoreNext]_storeVars

-----------------------------------------------------------------------------
\* The directory of an underscored name, which the file backend lists as a key.
UnderscoredDir == sbackend = "file" /\ \E d \in sdirs : d # <<>> /\ Head(Last(d)) = "_"

\* Its directory would have the name of a file.
BelowUnderscore(k) == sbackend = "file" /\ \E i \in 1..(Len(k) - 1) : Head(k[i]) = "_"

\* A key that list does not show: "." is a file beside the directory of the view,
\* and of a row that repeats its prefix list drops both.
Hidden(key) ==
    LET k == expand_key(key) IN
    \/ sbackend = "file" /\ PathNames(key) = <<>>
    \/ sbackend = "mysql" /\ \E n \in 1..Len(k) : Len(k) > 2 * n /\ SubSeq(k, n + 1, 2 * n) = SubSeq(k, 1, n)

\* What a view answers, after any sequence of puts, cut puts, deletes and
\* clears.  A get that gives a value gives the last one that was put under this
\* very key.  It gives none, or an error, for a key that has a value only when
\* its put was cut, when another spelling of it ("a/", "a//b" or "./a" in files)
\* was put or deleted since, or where an underscored directory and a file share a
\* name.  And get_keys - which unmounting and the restoring of leases rely on -
\* finds every key and no other, unless an underscored directory was made or a
\* hidden key is stored; those a clear leaves behind
\* (file.rs path_key, mysql_backend.rs list, barrier_aes_gcm.rs get, barrier_view.rs).
StoreFaithful ==
    Unlocked =>
      /\ \A k \in {x \in StoreKeys : ~Hidden(x)} :
            LET got == view_get(k) IN
            /\ got \in StoreValues => got = sknown[k]
            /\ got \notin StoreValues /\ k \notin srespelt =>
                  \/ sknown[k] \in {Unsure, got}
                  \/ got = StoreError /\ (UnderscoredDir \/ BelowUnderscore(k))
      /\ ~UnderscoredDir /\ (\A k \in StoreKeys : Hidden(k) => Place(expand_key(k)) \notin DOMAIN sfiles) =>
            LET listed == get_keys IN
            /\ listed.ok
            /\ \A k \in StoreKeys \ srespelt : ~Hidden(k) /\ sknown[k] # Unsure =>
                  (Shown(k) \in listed.keys <=> sknown[k] # NoValue)
            /\ listed.keys \subseteq {Shown(k) : k \in StoreKeys}
==============================================================================
