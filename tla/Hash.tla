--------------------------------- MODULE Hash ---------------------------------
(***************************************************************************)
(* hash_t and set_t (src/helpers/hash/hash.c, src/helpers/set/set.c): a    *)
(* table of chains that grows by rehashing and has one cursor.             *)
(*                                                                         *)
(* Entries are known by their address, which malloc may give out again. A  *)
(* chain is the sequence of its entries from the head; the next of an      *)
(* entry is what follows it in its chain.  Keys are <<content, copy>>: the *)
(* content is the number that hash_fn makes of it, and key_equal_fn        *)
(* compares contents.  A set is a hash whose values are its keys.  There   *)
(* is a key_destroy_fn, and no destroy_fn for values, as in                *)
(* hash_of_string_key and string_make_set.                                 *)
(***************************************************************************)
EXTENDS Containers

CONSTANTS
    Entries,     \* addresses of entries; bounds the length
    Primes,      \* hash_primes; bounds the growth
    Keys,        \* <<content, copy>>
    HashValues,  \* those of Values that it is given
    SizeRange    \* a size_t wraps at this number

ASSUME HashAssumption ==
    /\ Entries \subseteq Nat \ {0} /\ NULL \notin Entries
    /\ Primes \in Seq(Nat \ {0}) /\ Primes # <<>>
    /\ Keys \subseteq Nat \X Nat
    /\ SizeRange \in Nat \ {0}

VARIABLES
    hash,         \* the struct and its entries
    is_set,       \* whether it is the value_hash of a set_t
    hash_result,
    freed,        \* the destroyed keys that an entry still refers to
    loop          \* "hash_first, then hash_next until NULL", see First below

hash_vars == <<hash, is_set, hash_result, freed, loop>>

ContentOf(k) == k[1]

limit(self) == Primes[self.prime_index]

hash_key_index(self, k) == ContentOf(k) % limit(self)

\* hash_init; cursor_key, which only hash_cursor reads, is part of what
\* hash_next returns.
make_hash ==
    [prime_index |-> 1, used_indexes_size |-> 0, length |-> 0, entry |-> <<>>,
     entries |-> [i \in 0 .. Primes[1] - 1 |-> <<>>],
     cursor_index |-> 0, cursor_entry |-> NULL]

\* The entry of a key, or NULL.
hash_get_entry(self, k) ==
    LET bucket == self.entries[hash_key_index(self, k)]
        found == {i \in DOMAIN bucket :
                    ContentOf(self.entry[bucket[i]].key) = ContentOf(k)}
    IN IF found = {} THEN NULL
       ELSE bucket[CHOOSE i \in found : \A j \in found : i <= j]

place_of(self, e) ==
    LET bucket == self.entries[self.entry[e].index]
    IN CHOOSE i \in DOMAIN bucket : bucket[i] = e

next_of(self, e) ==
    LET bucket == self.entries[self.entry[e].index]
    IN IF place_of(self, e) = Len(bucket) THEN NULL ELSE bucket[place_of(self, e) + 1]

\* A loop over the chains, each from its head, comes to e before f.
precedes(self, e, f) ==
    \/ self.entry[e].index < self.entry[f].index
    \/ /\ self.entry[e].index = self.entry[f].index
       /\ place_of(self, e) < place_of(self, f)

-----------------------------------------------------------------------------
(* The functions of hash.c *)

hash_is_overload(self) ==
    \/ self.length >= (limit(self) * 75) \div 100
    \/ self.used_indexes_size >= (limit(self) * 50) \div 100

\* The entries es, those that come first last.
Stacked(self, es) ==
    CHOOSE s \in [1 .. Cardinality(es) -> es] :
      \A i, j \in 1 .. Cardinality(es) : i < j => precedes(self, s[j], s[i])

\* A slip: the first chain is left behind.
hash_rehash_short(self) ==
    LET p == self.prime_index + 1
        index(e) == ContentOf(self.entry[e].key) % Primes[p]
        moved(k) == {e \in DOMAIN self.entry : self.entry[e].index # 0 /\ index(e) = k}
    IN [self EXCEPT
          !.prime_index = p,
          !.entries = [k \in 0 .. Primes[p] - 1 |-> Stacked(self, moved(k))],
          !.entry = [e \in DOMAIN @ |-> [@[e] EXCEPT !.index = index(e)]],
          !.used_indexes_size =
             Cardinality({k \in 0 .. Primes[p] - 1 : moved(k) # {}})]

\* To the next prime.  Entries are taken from the front of each old chain and
\* put at the front of their new one, and so come out reversed.
hash_rehash(self) ==
    LET p == self.prime_index + 1
        index(e) == ContentOf(self.entry[e].key) % Primes[p]
        moved(k) == {e \in DOMAIN self.entry : index(e) = k}
    IN [self EXCEPT
          !.prime_index = p,
          !.entries = [k \in 0 .. Primes[p] - 1 |-> Stacked(self, moved(k))],
          !.entry = [e \in DOMAIN @ |-> [@[e] EXCEPT !.index = index(e)]],
          !.used_indexes_size =
             Cardinality({k \in 0 .. Primes[p] - 1 : moved(k) # {}})]

\* hash_set_entry_if_not_exists for a key that has no entry.
set_entry(self, k, v) ==
    LET i == hash_key_index(self, k)
        e == CHOOSE e \in Entries \ DOMAIN self.entry :
               \A f \in Entries \ DOMAIN self.entry : e <= f
    IN [self EXCEPT
          !.entry = [f \in DOMAIN @ \cup {e} |->
             IF f = e THEN [index |-> i, key |-> k, value |-> v] ELSE @[f]],
          !.entries[i] = <<e>> \o @,
          !.used_indexes_size =
             IF self.entries[i] = <<>> THEN (@ + 1) % SizeRange ELSE @,
          !.length = @ + 1]

\* used_indexes_size goes down whenever the head of a chain leaves, also when
\* the chain goes on, and may wrap.
hash_delete_entry(self, e) ==
    LET i == self.entry[e].index
    IN [self EXCEPT
          !.entry = [f \in DOMAIN @ \ {e} |-> @[f]],
          !.entries[i] = SubSeq(@, 1, place_of(self, e) - 1)
                           \o SubSeq(@, place_of(self, e) + 1, Len(@)),
          !.used_indexes_size =
             IF Head(self.entries[i]) = e
             THEN (@ + SizeRange - 1) % SizeRange ELSE @,
          !.length = @ - 1]

\* Where hash_next leaves the cursor.
hash_next(self) ==
    LET later == {i \in self.cursor_index + 1 .. limit(self) - 1 :
                    self.entries[i] # <<>>}
        i == CHOOSE i \in later : \A j \in later : i <= j
        at(index, e) == [self EXCEPT !.cursor_index = index,
                                     !.cursor_entry = next_of(self, e)]
    IN IF self.cursor_entry # NULL THEN at(self.cursor_index, self.cursor_entry)
       ELSE IF later # {} THEN at(i, Head(self.entries[i]))
       ELSE [self EXCEPT !.cursor_index = limit(self) - 1]

\* The entry that it returns, or NULL.
next_entry(self) ==
    LET later == {i \in self.cursor_index + 1 .. limit(self) - 1 :
                    self.entries[i] # <<>>}
    IN IF self.cursor_entry # NULL THEN self.cursor_entry
       ELSE IF later = {} THEN NULL
       ELSE Head(self.entries[CHOOSE i \in later : \A j \in later : i <= j])

-----------------------------------------------------------------------------
(* The program *)

\* The map that the entries are.
MapOf(entry) ==
    [c \in {ContentOf(entry[e].key) : e \in DOMAIN entry} |->
       LET e == CHOOSE e \in DOMAIN entry : ContentOf(entry[e].key) = c
       IN [key |-> entry[e].key, value |-> entry[e].value]]

Dict == INSTANCE Dictionary
          WITH Values <- Keys \cup HashValues, result <- hash_result,
               map <- MapOf(hash.entry)

Loop(is, due, added) == [is |-> is, due |-> due, added |-> added]

HashInit ==
    /\ hash = make_hash
    /\ is_set \in BOOLEAN
    /\ hash_result = Dict!Answer(NULL)
    /\ freed = {}
    /\ loop = Loop("no", {}, {})

\* The hash that a call leaves.  Outside of a loop the cursor is not looked at
\* before hash_first sets it, and so is not kept.
Leaves(self, is) ==
    hash' = IF is = "going" THEN self
            ELSE [self EXCEPT !.cursor_index = 0, !.cursor_entry = NULL]

\* A call that destroys the keys ks and returns r.  Nothing is promised about a
\* loop in which the table is rehashed, or in which the entry leaves that the
\* cursor has gone on to.
Returns(self, ks, r) ==
    LET left == DOMAIN self.entry
        used == UNION {{self.entry[e].key, self.entry[e].value} : e \in left}
        lost == \/ self.prime_index # hash.prime_index
                \/ self.cursor_entry \notin left \cup {NULL}
        is == IF loop.is = "going" /\ ~ lost THEN "going" ELSE "no"
    IN /\ Leaves(self, is)
       /\ hash_result' = r
       /\ freed' = (freed \cup ks) \cap used
       /\ loop' = IF is = "no" THEN Loop("no", {}, {})
                  ELSE Loop(is, loop.due \cap left,
                            (loop.added \cap left) \cup (left \ DOMAIN hash.entry))

\* The program makes a new object for each key that it hands over.
New(k) ==
    \A e \in DOMAIN hash.entry : k \notin {hash.entry[e].key, hash.entry[e].value}

\* The bounds on the number of entries and on the growth.
Room ==
    /\ DOMAIN hash.entry # Entries
    /\ hash_is_overload(hash) => hash.prime_index < Len(Primes)

Grown == IF hash_is_overload(hash) THEN hash_rehash(hash) ELSE hash

\* hash_set and set_add, which rehash before they look for the key.
Set(k, v) ==
    LET new == hash_get_entry(Grown, k) = NULL
    IN /\ New(k) /\ Room
       /\ Returns(IF new THEN set_entry(Grown, k, v) ELSE Grown, {},
                  Dict!Answer(IF new THEN 1 ELSE 0))

\* A slip: the key of the entry is destroyed, not the one handed over.
Put_destroying(k, v) ==
    LET e == hash_get_entry(hash, k)
    IN /\ New(k) /\ Room
       /\ IF e = NULL
          THEN Returns(set_entry(Grown, k, v), {}, Dict!Answer(NULL))
          ELSE Returns([hash EXCEPT !.entry[e].value = v], {hash.entry[e].key},
                       Dict!Answer(NULL))

\* hash_put and set_put.  The key of an entry stays, and the one handed over
\* is destroyed; in a set it is the new value too.
Put(k, v) ==
    LET e == hash_get_entry(hash, k)
    IN /\ New(k) /\ Room
       /\ IF e = NULL
          THEN Returns(set_entry(Grown, k, v), {}, Dict!Answer(NULL))
          ELSE Returns([hash EXCEPT !.entry[e].value = v], {k}, Dict!Answer(NULL))

Delete(k) ==
    LET e == hash_get_entry(hash, k)
    IN IF e = NULL THEN Returns(hash, {}, Dict!Answer(0))
       ELSE Returns(hash_delete_entry(hash, e), {hash.entry[e].key}, Dict!Answer(1))

\* hash_get; hash_has tells whether it finds an entry.
Get(k) ==
    LET e == hash_get_entry(hash, k)
    IN Returns(hash, {}, IF e = NULL THEN Dict!Answer(NULL)
                         ELSE Dict!Value(hash.entry[e].value))

HashLength == Returns(hash, {}, Dict!Answer(hash.length))

HashPurge ==
    /\ Leaves(make_hash, "no")
    /\ hash_result' = Dict!Answer(NULL)
    /\ freed' = {}
    /\ loop' = Loop("no", {}, {})

\* The value of an entry is returned, or NULL at the end, and hash_cursor then
\* returns its key.  A slip of the cursor is seen as an entry that is visited and
\* was not due.
Visit(self, due, added) ==
    LET e == next_entry(self)
        is == CASE e = NULL -> "ended"
                [] e # NULL /\ e \in due \cup added -> "going"
                [] OTHER -> "twice"
    IN /\ Leaves(hash_next(self), is)
       /\ hash_result' = IF e = NULL THEN Dict!Answer(NULL)
                         ELSE Dict!Visited(self.entry[e])
       /\ loop' = Loop(is, due \ {e}, IF e = NULL THEN {} ELSE added \ {e})
       /\ UNCHANGED freed

\* A slip: the cursor goes on from the index that it has.
HashFirst_onwards ==
    LET bucket == hash.entries[0]
    IN Visit([hash EXCEPT
                !.cursor_entry = IF bucket = <<>> THEN NULL ELSE Head(bucket)],
             DOMAIN hash.entry, {})

\* hash_first, set_first: a loop begins, to which all entries are due.
HashFirst ==
    LET bucket == hash.entries[0]
    IN Visit([hash EXCEPT !.cursor_index = 0,
                !.cursor_entry = IF bucket = <<>> THEN NULL ELSE Head(bucket)],
             DOMAIN hash.entry, {})

\* hash_next, set_next
HashNextEntry == loop.is = "going" /\ Visit(hash, loop.due, loop.added)

HashNext ==
    /\ \/ \E k \in Keys, v \in HashValues : ~ is_set /\ (Set(k, v) \/ Put(k, v))
       \/ \E k \in Keys : is_set /\ (Set(k, k) \/ Put(k, k))
       \/ \E k \in Keys : Delete(k) \/ Get(k)
       \/ HashLength \/ HashPurge \/ HashFirst \/ HashNextEntry
    /\ UNCHANGED is_set

HashSpec == HashInit /\ [][HashNext]_hash_vars

-----------------------------------------------------------------------------

\* Whatever is set, put, deleted, purged and rehashed, a hash is a map
\* (hash.c:184-308): no key is lost or found twice, every answer is that of the
\* map, put keeps the key that is there, and an iteration returns entries of the map.
HashIsMap == Dict!Spec

\* A loop of hash_first and hash_next comes to every entry once, also when its
\* body deletes the entry it has just been given or any but the next one, or
\* sets new keys: none that stays is missed and none comes twice (hash.c:310-343).
\* This holds until the table is rehashed or the next entry is deleted.
EachOnce == loop.is # "twice" /\ (loop.is = "ended" => loop.due = {})

\* "set and put will own the key" (hash.h:22): the key of an entry, which every
\* later call compares with and a rehash hashes again, was not destroyed, although
\* put destroys a key and delete another (hash.c:264, 301-302).
KeysLive == \A e \in DOMAIN hash.entry : hash.entry[e].key \notin freed

\* "put auto destroy old value if there is destroy_fn" (set.h:18): set_put destroys
\* the old element, so the elements of a set, which set_first and set_next return,
\* are never destroyed objects.
ElementsLive ==
    is_set => \A e \in DOMAIN hash.entry : hash.entry[e].value \notin freed
=============================================================================
