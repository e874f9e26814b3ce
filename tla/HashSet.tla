------------------------------ MODULE HashSet ------------------------------
(***************************************************************************)
(* io/hashset.c: open addressing with linear probing, doubled before it is *)
(* more than half full.  A table is [entries, size]; its capacity is the   *)
(* length of entries.                                                      *)
(***************************************************************************)
EXTENDS Integers, Sequences

CONSTANTS NoKey,             \* an entry without a key
          HashIndex(_, _),   \* hash & (capacity - 1), which any index may be
          DefaultCapacity    \* HASHSET_DEFAULT_CAPACITY: 100

ASSUME CapacityAssumption == DefaultCapacity \in Nat \ {0}

Malloc(capacity) == [entries |-> [i \in 1..capacity |-> NoKey], size |-> 0]
NewHashset == Malloc(DefaultCapacity)

Capacity(h) == Len(h.entries)

\* Mutant of Probe: an entry that is taken by another key is taken for this one's.
ProbeNowhere(h, key) == 1 + HashIndex(key, Capacity(h))

\* Where the walk from the key's index ends: at the key or at an entry without one, n
\* entries on, the first of the table after its last.  A table with neither would be
\* walked forever.
Probe(h, key) ==
    LET first == 1 + HashIndex(key, Capacity(h))
        at(n) == IF first + n <= Capacity(h) THEN first + n ELSE first + n - Capacity(h)
        ends == {n \in 0..(Capacity(h) - 1) : h.entries[at(n)] \in {key, NoKey}}
    IN  at(CHOOSE n \in ends : \A o \in ends : n <= o)

Exists(h, key) == h.entries[Probe(h, key)] # NoKey

\* hashset_set_entry
SetEntry(h, key) ==
    [entries |-> [h.entries EXCEPT ![Probe(h, key)] = key],
     size |-> IF Exists(h, key) THEN h.size ELSE h.size + 1]

\* hashset_expand: the size is the old one's.
Expand(h) ==
    LET moved[i \in 0..Capacity(h)] ==
            CASE i = 0 -> Malloc(2 * Capacity(h))
              [] i > 0 /\ h.entries[i] = NoKey -> moved[i - 1]
              [] OTHER -> SetEntry(moved[i - 1], h.entries[i])
    IN  [moved[Capacity(h)] EXCEPT !.size = h.size]

SetKey(h, key) == SetEntry(IF h.size >= Capacity(h) \div 2 THEN Expand(h) ELSE h, key)
=============================================================================
