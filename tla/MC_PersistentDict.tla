------------------------- MODULE MC_PersistentDict -------------------------
EXTENDS PersistentDict

CONSTANTS d1, i1, i2

MCDicts == {d1}
MCItems == {i1, i2}

\* A first start over an empty file or over one an earlier run synced.
ExistingFiles == {[d \in MCDicts |-> EmptyFile], [d \in MCDicts |-> {i1}]}

=============================================================================
