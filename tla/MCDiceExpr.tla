----------------------------- MODULE MCDiceExpr -----------------------------
(* Small dice: d2 and a deciding die of three sides; modifiers of an int   *)
(* that ends at 7; five families of expressions.                           *)
EXTENDS DiceExpr

Chunk(count, sides, mode, n, explode) ==
  [flat |-> FALSE, count |-> count, sides |-> sides, mode |-> mode, n |-> n, explode |-> explode]
Flat(v) == [flat |-> TRUE, value |-> v]

\* Every sequence of at most `len' operators and chunks, no two chunks side by side.
Sequences(chunks, len) ==
  {s \in UNION {[1 .. n -> Operators \cup chunks] : n \in 0 .. len} :
     \A i \in 1 .. Len(s) - 1 : Operator(s[i]) \/ Operator(s[i + 1])}

\* Plain, keeping and dropping, exploding, without dice, and what is refused.
Mixed ==
  Sequences({Chunk(2, 3, "", 1, FALSE), Chunk(2, 3, "kh", 1, FALSE), Chunk(1, 2, "kl", 1, FALSE),
             Chunk(1, 3, "", 1, TRUE), Chunk(0, 3, "", 1, FALSE),
             Chunk(4, 2, "", 1, FALSE), Chunk(1, 0, "", 1, FALSE), Flat(6), Flat(8)}, 4)

\* One term with every mode and count, exploding and not.
Keeping == Sequences({Chunk(3, 3, m, n, e) : m \in Modes \ {""}, n \in 0 .. 4, e \in BOOLEAN}, 1)

\* Terms that explode for ever, and one that does not.
Exploding3 ==
  Sequences({Chunk(1, 1, "", 1, TRUE), Chunk(2, 2, "dl", 1, TRUE), Chunk(2, 2, "", 1, FALSE)}, 3)

\* Sums that leave the range of int and come back, and one that is too long.
Sums == Sequences({Flat(6), Chunk(1, 2, "", 1, FALSE)}, 6)

\* Terms that are each within the limit and together above it, or just not.
Together ==
  {<<Chunk(a, 2, "", 1, FALSE), op, Chunk(b, 2, "", 1, FALSE)>> :
     a \in 1 .. 3, b \in 1 .. 3, op \in Operators}

AllInputs == Mixed \cup Keeping \cup Exploding3 \cup Sums \cup Together
=============================================================================
