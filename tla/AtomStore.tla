------------------------------- MODULE AtomStore -------------------------------
(***************************************************************************)
(* FAtomStore (util/atom.hpp), the table that gives each value it is asked *)
(* to intern a number: a vector of the values in the order they came, and  *)
(* a map from a value to its number.  A store is a value of its owner's    *)
(* state; numbers count from 0.                                            *)
(***************************************************************************)
EXTENDS Naturals, Sequences

\* A store as it is constructed.
emptyStore == [m_values |-> <<>>, m_keys |-> <<>>]

next(store) == Len(store.m_values)

\* find() succeeds; key() and value() throw when there is no such entry.
found(store, v) == v \in DOMAIN store.m_keys
key(store, v) == store.m_keys[v]
holds(store, k) == k \in 0..next(store) - 1
value(store, k) == store.m_values[k + 1]

put(store, k, v) ==
  [m_values |-> Append(store.m_values, v),
   m_keys |-> [x \in DOMAIN store.m_keys \cup {v} |-> IF x = v THEN k ELSE store.m_keys[x]]]

\* The assertion that a number is left does not fail in any run.
add(store, v) == put(store, next(store), v)

\* Mutated form: the value is not looked up first.
intern_Always(store, v) == add(store, v)

\* The store after intern(v), whose result is then key(store', v).
intern(store, v) == IF found(store, v) THEN store ELSE add(store, v)
=============================================================================
