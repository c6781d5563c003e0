---------------------------- MODULE MCDiceEditor ----------------------------
(* Drafts of at most two clicked terms, and typed texts at every limit.     *)
EXTENDS DiceEditor

Chunk(count, sides, m, n, explode) ==
  [flat |-> FALSE, count |-> count, sides |-> sides, mode |-> m, n |-> n, explode |-> explode]

\* Two dice; none; dice that keep some; keep too many; dangling and doubled
\* operators; too many dice in a term; too many sides; a number beyond int; too
\* many dice in all.  Buttons append to the shortest two only (MaxDraft).
TypedTexts ==
  {<<Minus, Chunk(2, 2, "", 1, FALSE)>>, <<Minus, Chunk(0, 2, "", 1, FALSE)>>,
   <<Minus, Chunk(2, 2, "kh", 1, FALSE)>>, <<Plus, Chunk(2, 2, "kl", 3, FALSE)>>,
   <<Flat(1), Minus>>, <<Flat(1), Minus, Plus>>,
   <<Plus, Chunk(4, 2, "", 1, FALSE)>>, <<Plus, Chunk(1, 3, "", 1, FALSE)>>, <<Plus, Flat(8)>>,
   <<Dice(3, 2), Plus, Dice(1, 2)>>}

TwoTemplates == {[draft |-> <<Dice(1, 2)>>, mode |-> "dis"], [draft |-> <<Dice(1, 2)>>, mode |-> ""]}

\* The server waits for an expression from the page.
NoInput == {<<>>}

OneUpOneDown == {1, -1}

\* Digits after kh that no int holds.
OverflowingTexts == {<<Chunk(2, 2, "kh", 8, FALSE)>>}
=============================================================================
