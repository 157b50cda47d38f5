----------------------------- MODULE OrderedMap -----------------------------
(***************************************************************************)
(* What a PHP array promises to the interpreter (spec.md 3.8, 8.5, 8.8):   *)
(* an ordered mapping from keys to values.  A new key is placed after all  *)
(* existing ones, updating a key keeps its place, removing a key keeps the *)
(* relative order of the others, and clearing empties the map.  Nothing    *)
(* else ever changes the sequence of entries: resizing, rehashing and the  *)
(* packed/hash representation switch are invisible at this level.          *)
(***************************************************************************)
EXTENDS Naturals, Sequences, SequencesExt

CONSTANTS
    Maps,       \* the arrays
    Keys,       \* every key an entry may carry
    Vals        \* every value an entry may carry

VARIABLE maps   \* maps[m] is the sequence of [key, val] entries of array m

KeysOf(s) == { s[i].key : i \in 1..Len(s) }

Insert(m, k, v) ==
    /\ k \notin KeysOf(maps[m])
    /\ maps' = [maps EXCEPT ![m] = Append(@, [key |-> k, val |-> v])]

Update(m, k, v) ==
    \E i \in 1..Len(maps[m]) :
        /\ maps[m][i].key = k
        /\ maps' = [maps EXCEPT ![m][i].val = v]

Delete(m, k) ==
    \E i \in 1..Len(maps[m]) :
        /\ maps[m][i].key = k
        /\ maps' = [maps EXCEPT ![m] = RemoveAt(@, i)]

Clear(m) == maps' = [maps EXCEPT ![m] = << >>]

\* a pass that removes the entries of some keys, keeping the others' order
Filter(m) ==
    \E D \in SUBSET KeysOf(maps[m]) :
        maps' = [maps EXCEPT ![m] = SelectSeq(@, LAMBDA e : e.key \notin D)]

\* sort: the entries in any order the comparator gives; renumbering
\* replaces the keys by 0, 1, ... in the new order
Sort(m, renumber) ==
    \E p \in SetToSeqs(1..Len(maps[m])) :
        maps' = [maps EXCEPT ![m] =
                   [j \in 1..Len(@) |->
                      [key |-> IF renumber THEN j - 1 ELSE @[p[j]].key,
                       val |-> @[p[j]].val]]]

\* the entries of src put into s: an existing key keeps its place and takes
\* src's value only when overwriting, new keys follow in src's order
Merged(s, src, overwrite) ==
    [i \in 1..Len(s) |->
        IF overwrite /\ s[i].key \in KeysOf(src)
        THEN CHOOSE e \in {src[j] : j \in 1..Len(src)} : e.key = s[i].key
        ELSE s[i]]
    \o SelectSeq(src, LAMBDA e : e.key \notin KeysOf(s))

\* the sign of a difference
Sgn(x) == IF x > 0 THEN 1 ELSE IF x < 0 THEN -1 ELSE 0

\* comparison of s with r: the map with more entries is the larger;
\* otherwise the first entry of s that differs decides.  Ordered, entries
\* pair up by position and compare by key (KC), then by value (VC);
\* unordered, an entry whose key r lacks makes s the larger, and any other
\* compares by value with r's entry of that key
Compared(s, r, ordered, KC(_, _), VC(_, _)) ==
    LET ValIn(k) == (CHOOSE e \in {r[j] : j \in 1..Len(r)} : e.key = k).val
        Diff(i) == IF ordered
                   THEN IF KC(s[i].key, r[i].key) /= 0 THEN KC(s[i].key, r[i].key)
                        ELSE VC(s[i].val, r[i].val)
                   ELSE IF s[i].key \notin KeysOf(r) THEN 1
                        ELSE VC(s[i].val, ValIn(s[i].key))
        D == {i \in 1..Len(s) : Diff(i) /= 0}
    IN IF Len(s) /= Len(r) THEN Sgn(Len(s) - Len(r))
       ELSE IF D = {} THEN 0 ELSE Diff(Min(D))

\* merge (array union, or replace when overwriting) of the entries src
\* minmax: the position of the first entry whose value ranks highest (max)
\* or lowest under R, 0 for the empty map
Extremum(s, R(_), max) ==
    LET rs   == {R(s[i].val) : i \in 1 .. Len(s)}
        best == IF max THEN Max(rs) ELSE Min(rs)
    IN  IF s = << >> THEN 0 ELSE Min({i \in 1 .. Len(s) : R(s[i].val) = best})

Merge(m, src, overwrite) == maps' = [maps EXCEPT ![m] = Merged(@, src, overwrite)]

Init == maps = [m \in Maps |-> << >>]

Next ==
    \E m \in Maps :
        \/ \E k \in Keys, v \in Vals : Insert(m, k, v) \/ Update(m, k, v)
        \/ \E k \in Keys : Delete(m, k)
        \/ Clear(m)
        \/ Filter(m)
        \/ \E renumber \in BOOLEAN : Sort(m, renumber)
        \/ \E n \in Maps, overwrite \in BOOLEAN : Merge(m, maps[n], overwrite)

Spec == Init /\ [][Next]_maps

=============================================================================
