----------------------------- MODULE DiceEditor -----------------------------
(***************************************************************************)
(* The expression editor of the page (www/dice.html) in front of RollDice: *)
(* the user clicks or types a draft, the page previews it with a grammar   *)
(* of its own, expands advantage and disadvantage, and sends the result to *)
(* the server, which parses and rolls it as in DiceExpr.  The expansion    *)
(* can be saved as a preset and applied again.                             *)
(*                                                                         *)
(* A draft is a sequence of tokens as in DiceExpr.  What the user does     *)
(* between the sending and the end of RollDice commutes with its steps and *)
(* is taken to come after it, before the answer arrives.                   *)
(***************************************************************************)
EXTENDS DiceExpr, SequencesExt

CONSTANTS
  Typed,     \* what the user may type over the draft
  Templates, \* the built-in presets: a draft and a mode
  Counts,    \* the dice counts the user may set, clamped by the page
  Sides,     \* the dice buttons
  Numbers,   \* the buttons +1, -1, ...
  KeepSuffixes, \* the buttons dl1, dh1 and "!"
  MaxDraft   \* bound: no button appends a term behind as many tokens

VARIABLES
  draft,    \* exprInput
  mode,     \* rollMode
  shown,    \* exprPreview: the preview, or a hint, or the refusal of the last roll
  preset,   \* the preset of the user in the database
  applied,  \* TRUE from applying the preset until the draft or the mode is touched
  answer    \* the roll request: none, at work, or answered and not yet received

page == <<draft, mode, shown, preset, applied>>
\* The variables of DiceExpr are the server's; between two rolls RollDice stands
\* where an empty expression would start it.
server == vars
editorVars == <<page, answer, server>>

IsDice(t) == ~Operator(t) /\ ~t.flat
Chunks(d) == {i \in DOMAIN d : ~Operator(d[i])}

\* A text is cut at its operators: two chunks never stand side by side.
Drafts ==
  {d \in Seq(Operators \cup DiceChunk \cup FlatChunk) :
     \A i \in 1 .. Len(d) - 1 : Operator(d[i]) \/ Operator(d[i + 1])}

RollModes == {"", "adv", "dis"}

ASSUME EditorAssumption ==
  /\ \A d \in Typed : d \in Drafts
  /\ \A t \in Templates : t.draft \in Drafts /\ t.mode \in RollModes
  /\ Counts \subseteq 1 .. MaxDicePerTerm
  /\ Sides \subseteq 1 .. MaxSides
  /\ Numbers \subseteq Int \ {0}
  /\ KeepSuffixes \subseteq {"dl", "dh", "!"}
  /\ MaxDraft \in Nat

-----------------------------------------------------------------------------
(* applyRollMode.                                                          *)

\* Every operator has a term behind it.
Grammatical(d) ==
  \A i \in DOMAIN d : Operator(d[i]) => i < Len(d) /\ ~Operator(d[i + 1])

FirstDice(d) == SelectInSeq(d, IsDice)

\* "0d6" and "d6" are one die here.
Asked(chunk) == IF chunk.count = 0 THEN 1 ELSE chunk.count

\* Advantage and disadvantage are refused for a draft that says itself what to
\* keep, has no dice, or has no room for one more.
ModeRefused(d, m) ==
  /\ m # "" /\ d # <<>>
  /\ \/ ~Grammatical(d)
     \/ \E i \in DOMAIN d : IsDice(d[i]) /\ d[i].mode # ""
     \/ FirstDice(d) = 0
     \/ \E i \in DOMAIN d : i = FirstDice(d) /\ Asked(d[i]) + 1 > MaxDicePerTerm

\* One die more, of which as many as asked for are kept.  Before it, a variant
\* that swaps the two numbers (for a mutant), and one that forgets the extra die.
WithExtraDieSwapped(chunk, m) ==
  [chunk EXCEPT !.count = Asked(chunk), !.n = Asked(chunk) + 1,
                !.mode = IF m = "adv" THEN "kh" ELSE "kl"]
WithExtraDieLost(chunk, m) ==
  [chunk EXCEPT !.count = Asked(chunk), !.n = Asked(chunk),
                !.mode = IF m = "adv" THEN "kh" ELSE "kl"]
WithExtraDie(chunk, m) ==
  [chunk EXCEPT !.count = Asked(chunk) + 1, !.n = Asked(chunk),
                !.mode = IF m = "adv" THEN "kh" ELSE "kl"]

\* What is previewed, rolled and saved: only the first dice of the draft differ.
Effective(d, m) ==
  IF m = "" \/ d = <<>>
  THEN d
  ELSE [d EXCEPT ![FirstDice(d)] = WithExtraDie(d[FirstDice(d)], m)]

-----------------------------------------------------------------------------
(* previewExpression and ValidateExpression.                               *)

\* What the page takes for a term; it does not look at the digits after kh.
Readable(chunk) ==
  IF chunk.flat
  THEN chunk.value <= IntMax
  ELSE chunk.count <= MaxDicePerTerm /\ chunk.sides \in 1 .. MaxSides

DiceIn(e) ==
  FoldFunction(LAMBDA a, b : a + b, 0,
    [i \in DOMAIN e |-> IF IsDice(e[i]) THEN e[i].count ELSE 0])

\* A page that leaves the number of all dice to the server (for a mutant).
PreviewableEach(e) ==
  /\ e # <<>> /\ Len(e) <= MaxLen
  /\ Grammatical(e)
  /\ \A i \in Chunks(e) : Readable(e[i])

Previewable(e) ==
  /\ e # <<>> /\ Len(e) <= MaxLen
  /\ Grammatical(e)
  /\ \A i \in Chunks(e) : Readable(e[i])
  /\ DiceIn(e) <= MaxTotalDice

\* onExprChanged.
Preview(d, m) ==
  IF ~ModeRefused(d, m) /\ Previewable(Effective(d, m)) THEN "ok" ELSE "bad"

\* ValidateExpression of the server: it parses, and does not add up the dice.
\* (First, for a mutant, a server that stores whatever it is sent.)
ValidAny(e) == e # <<>>
ValidExpression(e) ==
  /\ e # <<>> /\ Len(e) <= MaxLen
  /\ Grammatical(e)
  /\ \A i \in Chunks(e) : Valid(e[i])

-----------------------------------------------------------------------------
(* Editing.                                                                *)

NoPreset == [expr |-> <<>>, draft |-> <<>>, mode |-> ""]

EditorInit ==
  /\ draft = <<>> /\ mode = ""
  /\ shown = Preview(<<>>, "")
  /\ preset = NoPreset /\ applied = FALSE
  /\ answer = "none"
  /\ input = <<>> /\ Fresh

\* The draft is d and the mode m now, and the preview is drawn again.
Show(d, m) ==
  /\ answer # "atWork"
  /\ draft' = d /\ mode' = m
  /\ shown' = Preview(d, m)
  /\ UNCHANGED <<preset, answer, server>>

Edit(d) == Show(d, mode) /\ applied' = FALSE

Plus == [op |-> "+"]
Minus == [op |-> "-"]
Flat(v) == [flat |-> TRUE, value |-> v]
Dice(n, s) == [flat |-> FALSE, count |-> n, sides |-> s, mode |-> "", n |-> 1, explode |-> FALSE]

Type(d) == Edit(d)

\* The draft without the operators at its end.
Trimmed(d) == SubSeq(d, 1, SelectLastInSeq(d, LAMBDA t : ~Operator(t)))

\* appendTerm: a plus sign goes where the draft has none at its end.
WithTerm(d, t) ==
  IF d = <<>> \/ Operator(Last(d)) THEN Append(d, t) ELSE d \o <<Plus, t>>

\* A dice button.
AddDice(n, s) ==
  /\ Len(Trimmed(draft)) < MaxDraft
  /\ Edit(WithTerm(draft, Dice(n, s)))

\* A button +n or -n: appendSigned.
Signed(n) == IF n > 0 THEN <<Plus, Flat(n)>> ELSE <<Minus, Flat(-n)>>
AppendSigned(n) ==
  /\ Len(Trimmed(draft)) < MaxDraft
  /\ Edit(Trimmed(draft) \o Signed(n))

\* appendKeepSuffix: dl1, dh1 or "!" replaces what the last dice keep and, with
\* it, their "!"; without a mode of its own a "!" is in the way.
TakesSuffix(d) == d # <<>> /\ IsDice(Last(d)) /\ (Last(d).mode = "" => ~Last(d).explode)
Suffixed(chunk, s) ==
  [chunk EXCEPT !.mode = IF s = "!" THEN "" ELSE s, !.n = 1, !.explode = (s = "!")]

AppendSuffix(s) ==
  /\ TakesSuffix(draft)
  /\ Edit([draft EXCEPT ![Len(draft)] = Suffixed(Last(draft), s)])

\* ... and says so when there are no dice to put it at.
SuffixHint ==
  /\ answer # "atWork"
  /\ ~TakesSuffix(draft)
  /\ shown' = "hint"
  /\ UNCHANGED <<draft, mode, preset, applied, answer, server>>

SetMode(m) == Show(draft, m) /\ applied' = FALSE
ClearExpr == Edit(<<>>)

\* applyPreset of a template, which may bring a mode.
ApplyTemplate(t) == Show(t.draft, t.mode) /\ applied' = FALSE

\* applyPreset of a preset that keeps the mode (for a mutant).
ApplyPresetKeepingMode ==
  /\ preset # NoPreset
  /\ Show(preset.expr, mode)
  /\ applied' = TRUE

\* applyPreset of the saved preset: the list passes no mode, so the mode is reset.
ApplyPreset ==
  /\ preset # NoPreset
  /\ Show(preset.expr, "")
  /\ applied' = TRUE

\* savePreset: the expansion is sent, validated and stored; another preset of
\* that name is replaced.
SavePreset ==
  /\ answer # "atWork"
  /\ ~ModeRefused(draft, mode)
  /\ ValidExpression(Effective(draft, mode))
  /\ preset' = [expr |-> Effective(draft, mode), draft |-> draft, mode |-> mode]
  /\ applied' = FALSE
  /\ UNCHANGED <<draft, mode, shown, answer, server>>

-----------------------------------------------------------------------------
(* Rolling.                                                                *)

\* RollDice is called with the expression e, and keeps nothing of the roll before.
RollDice(e) ==
  /\ input' = e /\ phase' = "parse" /\ pos' = 1 /\ sign' = 1 /\ specs' = <<>>
  /\ dice' = <<>> /\ rolled' = 0 /\ budget' = MaxExplosions
  /\ terms' = <<>> /\ total' = 0 /\ crit' = ""

\* doRoll: what cannot be expanded, or is empty, is not sent; the preview is not
\* asked.
DoRoll ==
  /\ answer = "none"
  /\ ~ModeRefused(draft, mode) /\ draft # <<>>
  /\ answer' = "atWork"
  /\ UNCHANGED page
  /\ RollDice(Effective(draft, mode))

RollRefused ==
  /\ answer = "none"
  /\ ModeRefused(draft, mode) \/ draft = <<>>
  /\ shown' = "hint"
  /\ UNCHANGED <<draft, mode, preset, applied, answer, server>>

RollStep ==
  /\ answer = "atWork"
  /\ Next
  /\ UNCHANGED <<page, answer>>

\* RollDice has returned, or its goroutine has died and there is no answer.
Return ==
  /\ answer = "atWork"
  /\ phase \in {"done", "error", "panic"}
  /\ answer' = IF phase = "error" THEN "refused" ELSE "rolled"
  /\ UNCHANGED page
  /\ RollDice(<<>>)

\* The answer, or its absence, reaches the page; a refusal is shown whatever the
\* draft is by now.
Receive ==
  /\ answer \in {"refused", "rolled"}
  /\ answer' = "none"
  /\ shown' = IF answer = "refused" THEN "refused" ELSE shown
  /\ UNCHANGED <<draft, mode, preset, applied, server>>

EditorNext ==
  \/ \E d \in Typed : Type(d)
  \/ \E t \in Templates : ApplyTemplate(t)
  \/ \E n \in Counts, s \in Sides : AddDice(n, s)
  \/ \E n \in Numbers : AppendSigned(n)
  \/ \E s \in KeepSuffixes : AppendSuffix(s)
  \/ SuffixHint
  \/ \E m \in RollModes : SetMode(m)
  \/ ClearExpr \/ ApplyPreset \/ SavePreset
  \/ DoRoll \/ RollRefused \/ RollStep \/ Return \/ Receive

EditorSpec == EditorInit /\ [][EditorNext]_editorVars

-----------------------------------------------------------------------------
EditorTypeOK ==
  /\ draft \in Drafts /\ mode \in RollModes
  /\ shown \in {"ok", "bad", "hint", "refused"}
  /\ preset.expr \in Drafts /\ preset.draft \in Drafts /\ preset.mode \in RollModes
  /\ applied \in BOOLEAN
  /\ answer \in {"none", "atWork", "refused", "rolled"}
  /\ input \in Drafts

\* dice.html:696: the preview speaks the grammar of dice.go.  What the page
\* previews is not refused when it is sent, and what it marks as wrong is not
\* rolled, although rolling never asks the preview.
PreviewAgrees ==
  answer = "atWork" =>
    /\ phase = "error" => shown # "ok"
    /\ phase \in {"roll", "done", "panic"} => shown # "bad"

\* dice.html:617: advantage throws one die more than the draft says for its first
\* dice and keeps as many as it says, the highest ones, disadvantage the lowest,
\* explosions counted in; every other term is thrown as drafted.
RollsAsDrafted ==
  answer = "atWork" /\ phase = "done" =>
    LET term(k) == terms[k].dice
        chunkAt(k) == CHOOSE i \in Chunks(draft) :
                        Cardinality({j \in Chunks(draft) : j <= i}) = k
        thrown(k) == {i \in DOMAIN term(k) : ~term(k)[i].explode}
        kept(k) == {i \in DOMAIN term(k) : term(k)[i].kept}
        favoured(k) == mode # "" /\ chunkAt(k) = FirstDice(draft)
    IN /\ Len(terms) = Cardinality(Chunks(draft))
       /\ \A k \in DOMAIN terms :
            LET chunk == draft[chunkAt(k)]
            IN CASE chunk.flat -> terms[k].value \in {chunk.value, -chunk.value}
                 [] favoured(k) ->
                      /\ Cardinality(thrown(k)) = Asked(chunk) + 1
                      /\ Cardinality(kept(k)) = Asked(chunk)
                      /\ \A i \in kept(k), j \in DOMAIN term(k) \ kept(k) :
                           IF mode = "adv"
                           THEN term(k)[i].value >= term(k)[j].value
                           ELSE term(k)[i].value <= term(k)[j].value
                 [] OTHER ->
                      /\ Cardinality(thrown(k)) = chunk.count
                      /\ chunk.mode = "" => kept(k) = DOMAIN term(k)

\* dice.html:1056: a preset that is applied rolls what was rolled when it was
\* saved, in whatever mode the page was since: advantage is neither lost nor
\* added twice.
PresetReproduces ==
  applied => /\ ~ModeRefused(draft, mode)
             /\ Effective(draft, mode) = Effective(preset.draft, preset.mode)

\* The server never refuses a preset it has stored for its grammar, only for the
\* number of all its dice, which saving does not check.
PresetIsValid ==
  answer = "atWork" /\ applied /\ phase = "error" => DiceAsked > MaxTotalDice

\* The server dies (dice.go:279) only on a number of dice to keep that the user
\* has typed himself, in normal mode: no button and no expansion asks for more
\* dice than are rolled.
PanicOnlyTyped ==
  answer = "atWork" /\ phase = "panic" =>
    \E i \in Chunks(draft) :
      /\ IsDice(draft[i]) /\ draft[i].mode \in {"kh", "kl"}
      /\ draft[i].n > draft[i].count /\ mode = ""

\* A stored preset can be rolled (TLC refutes it: three terms of 100 dice).
PresetRollable == answer = "atWork" /\ applied => phase # "error"

\* The preview belongs to the draft beside it (TLC refutes it: the refusal of an
\* earlier roll arrives after the draft was edited).
PreviewCurrent == [][Receive => shown' = shown]_editorVars
=============================================================================
