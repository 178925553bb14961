----------------------------- MODULE QueryParams -----------------------------
(***************************************************************************)
(* How perf-lab reads the numbers of a query: scenarios.go's parse         *)
(* functions and the clamps of the scenarios.  A raw value is NoNumber     *)
(* (absent, or no number in any reading) or a number with a suffix, "bare" *)
(* for none, in lower case and without spaces.                             *)
(***************************************************************************)
EXTENDS Integers

CONSTANTS
    NoNumber,
    Kilo,      \* 1 << 10
    Int64      \* 2^64: how many values an int64 has

Units == {"b", "kb", "mb", "gb"}
Numbers == [num : -(Int64 \div 2) .. Int64 \div 2 - 1, unit : Units \cup {"bare"}]

ASSUME QueryAssumption ==
    /\ Kilo \in Nat \ {0} /\ Int64 \in Nat \ {0} /\ Int64 % 2 = 0
    /\ NoNumber \notin Numbers

Mult(unit) ==
    CASE unit = "gb" -> Kilo * Kilo * Kilo
      [] unit = "mb" -> Kilo * Kilo
      [] unit = "kb" -> Kilo
      [] OTHER -> 1

Wrap(n) == ((n + Int64 \div 2) % Int64) - Int64 \div 2

\* strings.HasSuffix: "b" ends them all.
Suffixes(unit) == IF unit = "bare" THEN {} ELSE {unit, "b"}

\* What is left of the value without the suffix is a number only if the suffix
\* was the whole unit.
Sized(v, suffix, def) == IF suffix = v.unit THEN Wrap(v.num * Mult(v.unit)) ELSE def

\* parseSize: the loop over the units, a Go map, comes to any of the suffixes first.
ParseSize(v, def) ==
    IF v = NoNumber THEN {def}
    ELSE IF Suffixes(v.unit) = {} THEN {v.num}
    ELSE {Sized(v, suffix, def) : suffix \in Suffixes(v.unit)}

\* parseInt, and parseDuration with its unit taken for one
ParseNumber(v, def) == IF v = NoNumber \/ v.unit # "bare" THEN def ELSE v.num

Clamp(n, min, max) == IF n < min THEN min ELSE IF n > max THEN max ELSE n
==============================================================================
