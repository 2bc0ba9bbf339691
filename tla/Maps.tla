---------------------------------- MODULE Maps ----------------------------------
(***************************************************************************)
(* The insertions of a HashMap or a table, as the models of the ledger and *)
(* of the stored tables use them.                                          *)
(***************************************************************************)
EXTENDS Functions

\* The map f with an entry added, or written over.
Put(f, key, value) == [x \in DOMAIN f \cup {key} |-> IF x = key THEN value ELSE f[x]]

\* The map f with all entries of new added, or written over.
PutAll(f, new) == [x \in DOMAIN f \cup DOMAIN new |-> IF x \in DOMAIN new THEN new[x] ELSE f[x]]
=================================================================================
