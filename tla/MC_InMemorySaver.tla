-------------------------- MODULE MC_InMemorySaver --------------------------
(* Model-checking instance of InMemorySaver: the reserved write channel is  *)
(* the model value ERROR with the fixed index -1 of WRITES_IDX_MAP.         *)
EXTENDS InMemorySaver, Integers, TLC

CONSTANTS ERROR, x, y

MCWritesIdxMap == [c \in {ERROR} |-> -1]
MCWriteChannels == {x, ERROR}
MCChannels == {x, y}

\* runners, values, threads and namespaces are only compared for equality
MCSymmetry == Permutations(Runners) \cup Permutations(Values)
              \cup Permutations(Threads) \cup Permutations(Namespaces)

=============================================================================
