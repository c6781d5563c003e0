------------------------------ MODULE DiceExpr ------------------------------
(***************************************************************************)
(* RollDice (dice.go): an expression is parsed into signed terms, then     *)
(* every term is rolled, its dice are marked as kept or dropped, and the   *)
(* kept ones are added up.  One action is one pass of a loop of the code,  *)
(* or the code between two loops; the dice themselves are the choice.      *)
(*                                                                         *)
(* An expression is a sequence of the operators "+" and "-" and of chunks, *)
(* the texts between operators, given by what diceTermRe and Atoi read in  *)
(* them.  Two chunks never stand side by side.                             *)
(***************************************************************************)
EXTENDS Integers, Sequences, FiniteSets, Functions

CONSTANTS
  Inputs,         \* the expressions, well formed or not
  MaxLen,         \* maxExprLen, in tokens
  MaxDicePerTerm, \* maxDicePerTerm
  MaxTotalDice,   \* maxTotalDice
  MaxSides,       \* maxSides
  MaxExplosions,  \* maxExplosions
  CritSides,      \* the sides of the die that decides: 20
  IntMax          \* the largest int: 2^63 - 1

Modes == {"", "kh", "kl", "dh", "dl"}
DiceChunk == [flat : {FALSE}, count : Nat, sides : Nat, mode : Modes, n : Nat, explode : BOOLEAN]
FlatChunk == [flat : {TRUE}, value : Nat]
Operators == {[op |-> "+"], [op |-> "-"]}
Operator(t) == t \in Operators

ASSUME DiceAssumption ==
  /\ Inputs \subseteq Seq(Operators \cup DiceChunk \cup FlatChunk)
  /\ \A s \in Inputs : \A i \in 1 .. Len(s) - 1 : Operator(s[i]) \/ Operator(s[i + 1])
  /\ MaxLen \in Nat /\ MaxDicePerTerm \in Nat /\ MaxTotalDice \in Nat
  /\ MaxSides \in Nat /\ MaxExplosions \in Nat
  /\ CritSides \in Nat \ {0, 1} /\ IntMax \in Nat \ {0}
  /\ MaxDicePerTerm <= IntMax \* an int itself

VARIABLES
  input,   \* the tokens of the expression
  phase,   \* "parse", "roll", "done"; "error" is answered, "panic" is not
  pos,     \* i, in parseExpression
  sign,    \* the sign the next term will carry
  specs,   \* the terms parsed: a chunk and its sign
  dice,    \* the dice of the term being rolled
  rolled,  \* how many of its count are rolled
  budget,  \* explosionBudget
  terms,   \* result.Terms
  total,   \* the running total
  crit     \* result.Crit

vars == <<input, phase, pos, sign, specs, dice, rolled, budget, terms, total, crit>>

\* int arithmetic wraps; before it, faulty variants for the mutants.
WrapNever(x) == x
WrapSaturating(x) == IF x > IntMax THEN IntMax ELSE IF x < -(IntMax + 1) THEN -(IntMax + 1) ELSE x
Wrap(x) == ((x + IntMax + 1) % (2 * IntMax + 2)) - (IntMax + 1)

Max2(a, b) == IF a > b THEN a ELSE b
Min2(a, b) == IF a < b THEN a ELSE b

-----------------------------------------------------------------------------
(* parseExpression and parseTerm.                                          *)

\* What parseTerm accepts; Atoi refuses what does not fit an int.
Valid(chunk) ==
  IF chunk.flat
  THEN chunk.value <= IntMax
  ELSE /\ chunk.count <= MaxDicePerTerm
       /\ chunk.sides \in 1 .. MaxSides
       /\ chunk.n <= IntMax

\* Faulty variants of the next action, for the mutants.
ParseOperatorLoose ==
  /\ phase = "parse" /\ pos <= Len(input)
  /\ Operator(input[pos])
  /\ sign' = IF input[pos].op = "-" THEN -1 ELSE 1
  /\ pos' = pos + 1
  /\ UNCHANGED <<input, phase, specs, dice, rolled, budget, terms, total, crit>>

ParseOperatorStuck ==
  /\ phase = "parse" /\ pos <= Len(input)
  /\ Operator(input[pos])
  /\ UNCHANGED vars

\* An operator: refused at the end and before another operator.
ParseOperator ==
  /\ phase = "parse" /\ pos <= Len(input)
  /\ Operator(input[pos])
  /\ IF pos = Len(input) \/ Operator(input[pos + 1])
     THEN /\ phase' = "error"
          /\ UNCHANGED <<pos, sign>>
     ELSE /\ sign' = IF input[pos].op = "-" THEN -1 ELSE 1
          /\ pos' = pos + 1
          /\ UNCHANGED phase
  /\ UNCHANGED <<input, specs, dice, rolled, budget, terms, total, crit>>

\* A chunk.
ParseTerm ==
  /\ phase = "parse" /\ pos <= Len(input)
  /\ ~Operator(input[pos])
  /\ IF Valid(input[pos])
     THEN /\ specs' = Append(specs, [sign |-> sign, chunk |-> input[pos]])
          /\ sign' = 1
          /\ pos' = pos + 1
          /\ UNCHANGED phase
     ELSE /\ phase' = "error"
          /\ UNCHANGED <<specs, sign, pos>>
  /\ UNCHANGED <<input, dice, rolled, budget, terms, total, crit>>

DiceAsked ==
  FoldFunction(LAMBDA a, b : a + b, 0,
    [i \in 1 .. Len(specs) |-> IF specs[i].chunk.flat THEN 0 ELSE specs[i].chunk.count])

\* The tests around the loop: an empty or too long expression, too many dice.
ParseEnd ==
  /\ phase = "parse" /\ pos = Len(input) + 1
  /\ phase' = IF input = <<>> \/ Len(input) > MaxLen \/ specs = <<>> \/ DiceAsked > MaxTotalDice
              THEN "error"
              ELSE "roll"
  /\ UNCHANGED <<input, pos, sign, specs, dice, rolled, budget, terms, total, crit>>

-----------------------------------------------------------------------------
(* applyKeepDrop, dropRange and detectCrit.                                *)

\* The place of die i in `order': a stable sort by value.
Place(d, i) ==
  Cardinality({j \in DOMAIN d :
    d[j].value < d[i].value \/ (d[j].value = d[i].value /\ j < i)})

\* The range of places that is dropped, before the clamping of dropRange.
RangeOffByOne(mode, n, len) ==
  CASE mode = "kh" -> <<0, len - n>>
    [] mode = "kl" -> <<n, len - 1>>
    [] mode = "dh" -> <<len - n, len>>
    [] mode = "dl" -> <<0, n>>
RangeOf(mode, n, len) ==
  CASE mode = "kh" -> <<0, len - n>>
    [] mode = "kl" -> <<n, len>>
    [] mode = "dh" -> <<len - n, len>>
    [] mode = "dl" -> <<0, n>>

\* dropRange clamps each end on one side only.
Clamped(range, len) == <<Max2(range[1], 0), Min2(range[2], len)>>

\* Slicing order[from:to] with from > to, or to < 0, panics.
SlicePanics(range) == range[2] < 0 \/ range[1] > range[2]

Dropped(d, mode, n) ==
  LET range == Clamped(RangeOf(mode, n, Len(d)), Len(d))
  IN {i \in DOMAIN d : range[1] <= Place(d, i) /\ Place(d, i) < range[2]}

KeepDropPanics(d, mode, n) ==
  mode # "" /\ d # <<>> /\ SlicePanics(Clamped(RangeOf(mode, n, Len(d)), Len(d)))

Marked(d, mode, n) ==
  [i \in DOMAIN d |-> [d[i] EXCEPT !.kept = (mode = "" \/ i \notin Dropped(d, mode, n))]]

SumKept(d) ==
  FoldFunction(LAMBDA a, b : a + b, 0,
    [i \in DOMAIN d |-> IF d[i].kept THEN d[i].value ELSE 0])

\* The dice that count, over all terms: term and place.
Natural ==
  {k \in (1 .. Len(terms)) \X (1 .. MaxTotalDice + MaxExplosions) :
     ~specs[k[1]].chunk.flat /\ k[2] \in DOMAIN terms[k[1]].dice
       /\ terms[k[1]].dice[k[2]].kept}

\* A variant that takes any die for a d20 (for a mutant).
CritAnyDie ==
  IF Cardinality(Natural) # 1
  THEN ""
  ELSE LET k == CHOOSE x \in Natural : TRUE
           v == terms[k[1]].dice[k[2]].value
       IN IF v = CritSides THEN "success" ELSE IF v = 1 THEN "fumble" ELSE ""

detectCrit ==
  IF \/ \E i \in DOMAIN specs : ~specs[i].chunk.flat /\ specs[i].chunk.sides # CritSides
     \/ Cardinality(Natural) # 1
  THEN ""
  ELSE LET k == CHOOSE x \in Natural : TRUE
           v == terms[k[1]].dice[k[2]].value
       IN IF v = CritSides THEN "success" ELSE IF v = 1 THEN "fumble" ELSE ""

-----------------------------------------------------------------------------
(* RollDice.                                                               *)

Spec1 == specs[Len(terms) + 1]
Rolling == phase = "roll" /\ Len(terms) < Len(specs)
RollingDice == Rolling /\ ~Spec1.chunk.flat

\* Only a die that was asked for explodes (for a mutant).
ExplodingOnce(b) ==
  /\ Spec1.chunk.explode
  /\ dice # <<>> /\ dice[Len(dice)].value = Spec1.chunk.sides /\ ~dice[Len(dice)].explode
  /\ b > 0

\* The last die of an exploding term shows its highest face, and there is budget.
Exploding(b) ==
  /\ Spec1.chunk.explode
  /\ dice # <<>> /\ dice[Len(dice)].value = Spec1.chunk.sides
  /\ b > 0

RollFlat ==
  /\ Rolling /\ Spec1.chunk.flat
  /\ terms' = Append(terms, [value |-> Spec1.sign * Spec1.chunk.value, dice |-> <<>>])
  /\ total' = Wrap(total + Spec1.sign * Spec1.chunk.value)
  /\ UNCHANGED <<input, phase, pos, sign, specs, dice, rolled, budget, crit>>

Die(v, exploded) == [value |-> v, kept |-> TRUE, explode |-> exploded]

RollDie(v) ==
  /\ RollingDice /\ ~Exploding(budget) /\ rolled < Spec1.chunk.count
  /\ dice' = Append(dice, Die(v, FALSE))
  /\ rolled' = rolled + 1
  /\ UNCHANGED <<input, phase, pos, sign, specs, budget, terms, total, crit>>

\* An explosion that leaves the budget alone (for a mutant).
ExplodeUncounted(v) ==
  /\ RollingDice /\ Exploding(budget)
  /\ dice' = Append(dice, Die(v, TRUE))
  /\ UNCHANGED <<input, phase, pos, sign, specs, rolled, budget, terms, total, crit>>

Explode(v) ==
  /\ RollingDice /\ Exploding(budget)
  /\ dice' = Append(dice, Die(v, TRUE))
  /\ budget' = budget - 1
  /\ UNCHANGED <<input, phase, pos, sign, specs, rolled, terms, total, crit>>

\* All dice of the term are there: mark, add up, and on to the next term.
FinishTerm ==
  /\ RollingDice /\ ~Exploding(budget) /\ rolled = Spec1.chunk.count
  /\ IF KeepDropPanics(dice, Spec1.chunk.mode, Spec1.chunk.n)
     THEN /\ phase' = "panic"
          /\ UNCHANGED <<terms, total, dice, rolled>>
     ELSE LET marked == Marked(dice, Spec1.chunk.mode, Spec1.chunk.n)
              value == Spec1.sign * SumKept(marked)
          IN /\ terms' = Append(terms, [value |-> value, dice |-> marked])
             /\ total' = Wrap(total + value)
             /\ dice' = <<>> /\ rolled' = 0
             /\ UNCHANGED phase
  /\ UNCHANGED <<input, pos, sign, specs, budget, crit>>

Finish ==
  /\ phase = "roll" /\ Len(terms) = Len(specs)
  /\ crit' = detectCrit
  /\ phase' = "done"
  /\ UNCHANGED <<input, pos, sign, specs, dice, rolled, budget, terms, total>>

\* What a call starts with, besides the expression.
Fresh ==
  /\ phase = "parse" /\ pos = 1 /\ sign = 1 /\ specs = <<>>
  /\ dice = <<>> /\ rolled = 0 /\ budget = MaxExplosions
  /\ terms = <<>> /\ total = 0 /\ crit = ""

Init == input \in Inputs /\ Fresh

Next ==
  \/ ParseOperator \/ ParseTerm \/ ParseEnd
  \/ RollFlat \/ FinishTerm \/ Finish
  \/ RollingDice /\ \E v \in 1 .. Spec1.chunk.sides : RollDie(v) \/ Explode(v)

\* RollDice runs to its end in one goroutine: it never stops between two steps.
Spec == Init /\ [][Next]_vars /\ WF_vars(Next)

-----------------------------------------------------------------------------
DieType == [value : 1 .. MaxSides, kept : BOOLEAN, explode : BOOLEAN]

TypeOK ==
  /\ input \in Inputs
  /\ phase \in {"parse", "roll", "done", "error", "panic"}
  /\ pos \in 1 .. Len(input) + 1 /\ sign \in {1, -1}
  /\ \A i \in DOMAIN specs : specs[i].sign \in {1, -1} /\ specs[i].chunk \in DiceChunk \cup FlatChunk
  /\ dice \in Seq(DieType)
  /\ rolled \in 0 .. MaxDicePerTerm
  /\ budget \in 0 .. MaxExplosions
  /\ \A i \in DOMAIN terms : terms[i].value \in Int /\ terms[i].dice \in Seq(DieType)
  /\ total \in -(IntMax + 1) .. IntMax
  /\ crit \in {"", "success", "fumble"}

\* What an expression means: terms in their order, each with the operator before
\* it.  An expression that is rolled is one of the grammar
\* [sign] term { sign term }, and no operator is lost or applied twice.
ParsedAsWritten ==
  phase = "roll" =>
    LET at == {i \in DOMAIN input : ~Operator(input[i])}
        nth(k) == CHOOSE i \in at : Cardinality({j \in at : j <= i}) = k
    IN /\ \A i \in DOMAIN input : Operator(input[i]) => i + 1 \in at
       /\ Len(specs) = Cardinality(at)
       /\ \A k \in DOMAIN specs :
            /\ specs[k].chunk = input[nth(k)]
            /\ specs[k].sign = -1 <=> nth(k) > 1 /\ input[nth(k) - 1] = [op |-> "-"]

\* How many dice a term keeps, by what kh, kl, dh and dl stand for.
KeptCount(mode, n, len) ==
  CASE mode = ""            -> len
    [] mode \in {"kh", "kl"} -> Min2(n, len)
    [] OTHER                -> len - Min2(n, len)

\* Every finished term keeps the right number of its dice, kh and dl keep the
\* highest and kl and dh the lowest, and of equal dice the same ones in every
\* run: the later ones when high dice are kept (dice.go:242, 255).
KeepsTheRightDice ==
  \A k \in DOMAIN terms : ~specs[k].chunk.flat =>
    LET d == terms[k].dice
        mode == specs[k].chunk.mode
        kept == {i \in DOMAIN d : d[i].kept}
        Below(i, j) == d[i].value < d[j].value \/ (d[i].value = d[j].value /\ i < j)
    IN /\ Cardinality(kept) = KeptCount(mode, specs[k].chunk.n, Len(d))
       /\ \A i \in kept, j \in DOMAIN d \ kept :
            IF mode \in {"kh", "dl"} THEN Below(j, i) ELSE Below(i, j)

\* An exploding term rolls one more die for each highest face, until it stops
\* showing or the budget of the whole expression is spent, and never else; the
\* dice asked for are all there.
ExplodesExactly ==
  \A k \in DOMAIN terms : ~specs[k].chunk.flat =>
    LET d == terms[k].dice
        top(i) == specs[k].chunk.explode /\ d[i].value = specs[k].chunk.sides
    IN /\ Cardinality({i \in DOMAIN d : ~d[i].explode}) = specs[k].chunk.count
       /\ \A i \in DOMAIN d : d[i].explode => i > 1 /\ top(i - 1)
       /\ \A i \in DOMAIN d : top(i) =>
            (i < Len(d) /\ d[i + 1].explode) \/ budget = 0

\* The dice on the table: those of the finished terms and of the one being rolled.
DiceThrown ==
  Len(dice) + FoldFunction(LAMBDA a, b : a + b, 0, [i \in DOMAIN terms |-> Len(terms[i].dice)])

\* Memory: whatever the dice show, a roll has at most maxTotalDice dice and
\* maxExplosions more.
DiceBounded == DiceThrown <= MaxTotalDice + MaxExplosions

\* The passes of its loops that a call has before it, at most: tokens to read, dice
\* to throw, terms to finish, and the ends of the two loops.
PassesLeft ==
  CASE phase = "parse" -> (Len(input) + 1 - pos) + 1 + MaxTotalDice + MaxExplosions + Len(input) + 1
    [] phase = "roll"  -> (DiceAsked + MaxExplosions - DiceThrown) + (Len(specs) - Len(terms)) + 1
    [] OTHER           -> 0

\* Time: every pass brings the end nearer, by a number the limits bound from the
\* begin, whatever the dice show and however often they explode (dice.go:106).
EveryPassCounts == [][PassesLeft' \in 0 .. PassesLeft - 1]_vars

\* dice.go:284: a critical result is announced only when exactly one kept die
\* decides, a d20, and it shows 20 or 1; of expressions with no other dice than
\* d20s, always then.
CritMeansOneDie ==
  phase = "done" =>
    LET kept == {x \in (DOMAIN terms) \X (1 .. MaxTotalDice + MaxExplosions) :
                   x[2] \in DOMAIN terms[x[1]].dice /\ terms[x[1]].dice[x[2]].kept}
        shows(v) == \E x \in kept : kept = {x} /\ specs[x[1]].chunk.sides = CritSides
                                     /\ terms[x[1]].dice[x[2]].value = v
        onlyD20 == \A k \in DOMAIN specs :
                     ~specs[k].chunk.flat => specs[k].chunk.sides = CritSides
    IN /\ crit = "success" <=> onlyD20 /\ shows(CritSides)
       /\ crit = "fumble" <=> onlyD20 /\ shows(1)

\* A total that fits an int is exact, even when the sum leaves the range of int
\* on the way.
TotalExact ==
  LET sum == FoldFunction(LAMBDA a, b : a + b, 0, [i \in DOMAIN terms |-> terms[i].value])
  IN sum \in -(IntMax + 1) .. IntMax => total = sum

\* Every call of RollDice ends, also of a term that explodes for ever (1d1!): the
\* expression is answered or refused, unless a kh or kl term keeps more dice than
\* were thrown for it, on which dropRange panics (dice.go:279); no other panics.
Terminates ==
  <>(\/ phase \in {"done", "error"}
     \/ phase = "panic" /\ Spec1.chunk.mode \in {"kh", "kl"} /\ Spec1.chunk.n > Len(dice))

\* dice.go:271 says dropRange clamps what is out of range by itself.
NoPanic == phase # "panic"
=============================================================================
