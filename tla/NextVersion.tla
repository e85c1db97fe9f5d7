----------------------------- MODULE NextVersion -----------------------------
(***************************************************************************)
(* InMemorySaver.get_next_version (memory/__init__.py lines 515-524) at the *)
(* level of the strings it builds.  A channel's version is bumped once per  *)
(* update; the engine compares versions as strings, so the bumped version   *)
(* must compare greater than the one it replaces, and the integer prefix    *)
(* read back by the next bump must be the one written.                      *)
(*                                                                          *)
(* A string is a sequence of character codes (Python compares str by code  *)
(* point).  The prefix width 32 of the code is the constant Width, the      *)
(* float field width 16 is SuffixWidth, and random.random() is a choice     *)
(* among Floats, the repr()s of a few floats in [0, 1), scientific notation *)
(* included.                                                                *)
(***************************************************************************)
EXTENDS Naturals, Sequences

CONSTANTS
    Width,        \* the 032 of f"{next_v:032}"
    SuffixWidth,  \* the 016 of f"{next_h:016}"
    Floats,       \* repr() strings random.random() may produce
    MaxPrefix     \* bound on the integer prefix explored

ASSUME MaxPrefix + 1 < 10^Width

DOT == 46   \* "."
ZERO == 48  \* "0"

(* the current version as get_next_version may receive it *)
NoVersion == [kind |-> "none"]
IntVersion(n) == [kind |-> "int", int |-> n]
StrVersion(s) == [kind |-> "str", str |-> s]

RECURSIVE DecimalDigits(_)
DecimalDigits(n) ==
    IF n < 10 THEN <<ZERO + n>> ELSE DecimalDigits(n \div 10) \o <<ZERO + (n % 10)>>

(* format spec "0<w>": right-align in w characters, filling with "0" *)
ZeroPad(s, w) ==
    IF Len(s) >= w THEN s ELSE [i \in 1..(w - Len(s)) |-> ZERO] \o s

(* mutant: current.rsplit(".", 1)[0], up to the last dot *)
BeforeLastDot(s) ==
    LET dots == {i \in 1..Len(s) : s[i] = DOT} IN
    IF dots = {} THEN s
    ELSE SubSeq(s, 1, (CHOOSE i \in dots : \A j \in dots : j <= i) - 1)

(* current.split(".")[0] *)
BeforeFirstDot(s) ==
    LET dots == {i \in 1..Len(s) : s[i] = DOT} IN
    IF dots = {} THEN s
    ELSE SubSeq(s, 1, (CHOOSE i \in dots : \A j \in dots : i <= j) - 1)

(* int() of a string of decimal digits *)
RECURSIVE ParseInt(_)
ParseInt(s) ==
    IF s = <<>> THEN 0
    ELSE ParseInt(SubSeq(s, 1, Len(s) - 1)) * 10 + (s[Len(s)] - ZERO)

(* Python's str < str: first differing code point, else the shorter *)
StrLess(a, b) ==
    \/ /\ Len(a) < Len(b)
       /\ SubSeq(b, 1, Len(a)) = a
    \/ \E i \in 1..Len(a) :
          /\ i <= Len(b)
          /\ SubSeq(a, 1, i - 1) = SubSeq(b, 1, i - 1)
          /\ a[i] < b[i]

(* mutant: f"{next_v}" without the zero padding *)
GetNextVersionUnpadded(current, nextH) ==
    LET currentV == CASE current.kind = "none" -> 0
                      [] current.kind = "int"  -> current.int
                      [] current.kind = "str"  -> ParseInt(BeforeFirstDot(current.str))
    IN StrVersion(DecimalDigits(currentV + 1) \o <<DOT>>
                  \o ZeroPad(nextH, SuffixWidth))

GetNextVersion(current, nextH) ==
    LET currentV == CASE current.kind = "none" -> 0
                      [] current.kind = "int"  -> current.int
                      [] current.kind = "str"  -> ParseInt(BeforeFirstDot(current.str))
        nextV == currentV + 1
    IN StrVersion(ZeroPad(DecimalDigits(nextV), Width) \o <<DOT>>
                  \o ZeroPad(nextH, SuffixWidth))

VARIABLES
    version,  \* the channel's current version
    count     \* how many times it was bumped, from the integer it started at

vars == <<version, count>>

(* no version yet, or an integer version another saver produced *)
Init ==
    \/ version = NoVersion /\ count = 0
    \/ \E n \in 0..2 : version = IntVersion(n) /\ count = n

Bump ==
    /\ count < MaxPrefix
    /\ \E h \in Floats : version' = GetNextVersion(version, h)
    /\ count' = count + 1

Next == Bump

Spec == Init /\ [][Next]_vars

-----------------------------------------------------------------------------
(* The integer the next bump parses back out of a version is the number of *)
(* bumps so far: formatting and int(current.split(".")[0]) round-trip,     *)
(* whatever the random suffix looks like.                                  *)
PrefixRoundTrip ==
    version.kind = "str" => ParseInt(BeforeFirstDot(version.str)) = count

(* A bumped string version compares greater, as a string, than the string *)
(* version it replaces: the fixed-width zero padding makes the string order *)
(* the integer order, and the random suffix never decides it.              *)
VersionsIncrease ==
    [][version.kind = "str" => StrLess(version.str, version'.str)]_vars

=============================================================================
