------------------------------- MODULE Reading -------------------------------
(***************************************************************************)
(* Reading a source to its end, as io.ReadAll does, through an             *)
(* io.LimitReader.  A call gives any number of bytes the source and the    *)
(* limit still have; the source may report its end with its last bytes or  *)
(* in a call of its own, the limit reports it in a call of its own.        *)
(***************************************************************************)
EXTENDS Integers

Unlimited == -1

\* `left` is what the source has, `given` what was read of it
Reader(size, limit) == [left |-> size, given |-> 0, limit |-> limit]

Room(r) ==
    IF r.limit # Unlimited /\ r.limit - r.given < r.left THEN r.limit - r.given ELSE r.left

\* What one call of Read may answer: n bytes, and io.EOF
Answers(r) ==
    IF Room(r) = 0 THEN {[n |-> 0, eof |-> TRUE]}
    ELSE {a \in [n: 1..Room(r), eof: BOOLEAN] : a.eof => a.n = r.left}

After(r, a) == [r EXCEPT !.left = @ - a.n, !.given = @ + a.n]
=============================================================================
