---------------------------- MODULE MotdSimplify ----------------------------
(***************************************************************************)
(* motd/_simplifies.py and simplify.rs: the passes that find unused codes, *)
(* one round of the loop of simplify(), and the final squash of texts that *)
(* have become neighbours.                                                 *)
(***************************************************************************)
EXTENDS Motd

\* p without the components at the positions in `unused`.
Without(p, unused) ==
    LET add(acc, i) == IF i \in unused THEN acc ELSE Append(acc, p[i])
    IN  FoldLeftDomain(add, << >>, p)

\* Mutated forms of definitions below, for the runs that must refute them: a
\* text does not keep the codes before it.
NothingStops(c) == FALSE

-----------------------------------------------------------------------------
(* Python: every pass looks at the same list.                              *)

GetDoubleItems(p) == {i \in 1 .. Len(p) - 1 : IsCode(p[i]) /\ p[i] = p[i + 1]}

\* A colour after which a colour comes before any text.
GetDoubleColors(p) ==
    {i \in DOMAIN p : IsColor(p[i]) /\ \E j \in i + 1 .. Len(p) :
        IsColor(p[j]) /\ \A k \in i .. j : ~IsText(p[k])}

\* What uses the formats before it: a text that is not blank.
Uses(c) == IsText(c) /\ ~IsBlank(c)

\* Formats, resets included, that a colour overrides before they are used.
GetFormattingBeforeColor(p) ==
    {i \in DOMAIN p : IsFormat(p[i]) /\ \E j \in i + 1 .. Len(p) :
        IsColor(p[j]) /\ \A k \in i .. j : ~Uses(p[k])}

\* The positions before i, after the last reset, of the components in Wanted.
Since(p, i, Wanted(_)) ==
    {j \in 1 .. i - 1 : Wanted(p[j]) /\ \A k \in j .. i - 1 : p[k] # Reset}

\* The last of them holds what position i holds.
Repeats(p, i, Wanted(_)) ==
    LET before == Since(p, i, Wanted)
    IN  before # {} /\ p[i] = p[Max(before)]

\* A colour that is active already, a format that is the last one set, a reset
\* with nothing to reset.  A colour does not end the format before it.
GetMeaninglessResetsAndColors(p) ==
    {i \in DOMAIN p :
        \/ IsColor(p[i]) /\ Repeats(p, i, IsColor)
        \/ IsFormat(p[i]) /\ p[i] # Reset /\ Repeats(p, i, IsFormat)
        \/ p[i] = Reset /\ Since(p, i, IsCode) = {}}

GetEndNonText(p) ==
    {i \in DOMAIN p : IsCode(p[i]) /\ \A j \in i .. Len(p) : ~IsText(p[j])}

GetUnusedElements(p) ==
    GetDoubleItems(p) \cup GetDoubleColors(p) \cup GetFormattingBeforeColor(p)
        \cup GetMeaninglessResetsAndColors(p) \cup GetEndNonText(p)

PythonRound(p) == Without(p, GetUnusedElements(p))

-----------------------------------------------------------------------------
(* squash_nearby_strings of Python.                                        *)

\* Every text with a text after it is prepended to it.
Prepended(p) ==
    LET add(acc, c) ==
            IF acc # << >> /\ IsText(Last(acc)) /\ IsText(c)
            THEN Append(acc, Text(Last(acc).val \o c.val))
            ELSE Append(acc, c)
    IN  FoldLeft(add, << >>, p)

\* The texts whose content has moved on; their indices count from 0.
Fillers(p) ==
    {i \in 0 .. Len(p) - 2 : IsText(p[i + 1]) /\ IsText(p[i + 2])}

\* The order in which CPython iterates over a set of such indices: that of the
\* slots of its hash table.  Up to four of them are in a table of eight slots,
\* where index i takes slot i % 8, or another one if that is taken; five or more
\* are in one with at least 32, where they are in order.
FreeSlot(table, i) ==
    LET probe[s \in 0 .. 7] == IF s \notin DOMAIN table THEN s ELSE probe[(5 * s + 1) % 8]
    IN  probe[i % 8]
Slots(indices) ==
    LET insert(table, i) == (FreeSlot(table, i) :> i) @@ table
    IN  FoldLeft(insert, << >>, SetToSortSeq(indices, <))
IterationOrder(indices) ==
    IF Cardinality(indices) > 4 THEN SetToSortSeq(indices, <)
    ELSE LET table == Slots(indices)
             slots == SetToSortSeq(DOMAIN table, <)
         IN  [n \in DOMAIN slots |-> table[slots[n]]]

\* The fillers are popped in that order; each pop is meant to account for those
\* before it.
PythonSquash(p) ==
    LET order == IterationOrder(Fillers(p))
        pop(acc, n) == RemoveAt(acc, order[n] - (n - 1) + 1)
    IN  FoldLeftDomain(pop, Prepended(p), order)

-----------------------------------------------------------------------------
(* Rust: every pass changes the list for the next one.                     *)

RemoveDoubleItems(p) ==
    Without(p, {i \in 2 .. Len(p) : IsCode(p[i]) /\ p[i] = p[i - 1]})

\* Positions in Wanted that a colour follows with only formats between.
ColorFollows(p, Wanted(_)) ==
    {i \in DOMAIN p : Wanted(p[i]) /\ \E j \in i + 1 .. Len(p) :
        IsColor(p[j]) /\ \A k \in i + 1 .. j - 1 : IsFormat(p[k])}

RemoveDoubleColors(p) == Without(p, ColorFollows(p, IsColor))
RemoveFormattingBeforeColor(p) == Without(p, ColorFollows(p, IsFormat))

RemoveLeadingResets(p) ==
    Without(p, {i \in DOMAIN p : \A j \in 1 .. i : p[j] = Reset})

\* A reset and, after it, the colour that was the last one before it go both.
RemoveResetAndSameColor(p) ==
    LET step(acc, c) ==
            LET colors == SelectSeq(Front(acc), IsColor)
            IN  IF /\ acc # << >> /\ Last(acc) = Reset
                   /\ IsColor(c) /\ colors # << >> /\ Last(colors) = c
                THEN Front(acc) ELSE Append(acc, c)
    IN  FoldLeft(step, << >>, p)

RemoveEndNonText(p) ==
    Without(p, {i \in DOMAIN p : \A j \in i .. Len(p) : IsCode(p[j])})

RustRound(p) ==
    RemoveEndNonText(RemoveResetAndSameColor(RemoveLeadingResets(
        RemoveFormattingBeforeColor(RemoveDoubleColors(RemoveDoubleItems(p))))))

RustSquash(p) ==
    LET step(acc, c) ==
            IF acc # << >> /\ IsText(Last(acc)) /\ IsText(c)
            THEN Append(Front(acc), Text(Last(acc).val \o c.val))
            ELSE Append(acc, c)
    IN  FoldLeft(step, << >>, p)
=============================================================================
