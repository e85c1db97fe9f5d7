--------------------------- MODULE MC_NextVersion ---------------------------
(* get_next_version with a 2-digit prefix and a 6-character float field.   *)
(* The floats are repr()s of 0.0, 0.5, 0.123 and 1e-05: one too short to   *)
(* need no padding is impossible at width 6, one with a dot, one without.  *)
EXTENDS NextVersion

MCFloats == {<<48, 46, 48>>,             \* "0.0"
             <<48, 46, 53>>,             \* "0.5"
             <<48, 46, 49, 50, 51>>,     \* "0.123"
             <<49, 101, 45, 48, 53>>}    \* "1e-05"

=============================================================================
