----------------------------- MODULE MotdObject -----------------------------
(***************************************************************************)
(* A Motd from its parse over simplify(), called twice, to its renderings: *)
(* mcstatus/motd for a Java or a Bedrock answer, and src/motd for the Rust *)
(* crate.  One step is a parse, a call of simplify, a round of its loop or *)
(* the final squash, so that the properties hold of what the code works on *)
(* between them too.                                                       *)
(***************************************************************************)
EXTENDS MotdParser, MotdSimplify, MotdRender

CONSTANT Raws       \* the raw texts, nodes of MotdParser

VARIABLES
    impl,       \* "java", "bedrock" or "rust"
    raw,        \* the raw text
    phase,      \* "raw", "raised", "parsed", "loop", "squash" or "simple"
    parsed,     \* the result of the parse
    parts,      \* the list simplify works on, or its result
    simple,     \* the result of the first simplify
    calls       \* the number of calls of simplify

vars == <<impl, raw, phase, parsed, parts, simple, calls>>

\* Only a string comes from a Bedrock server.
Init ==
    /\ raw \in Raws
    /\ impl \in IF raw.kind = "string" THEN {"java", "bedrock", "rust"} ELSE {"java", "rust"}
    /\ phase = "raw"
    /\ parsed = << >> /\ parts = << >> /\ simple = << >>
    /\ calls = 0

Parsed ==
    IF impl = "rust" THEN RustParse(raw) ELSE PythonParse(raw, impl = "bedrock")

\* parse: Python raises for a colour it does not know.
Parse ==
    /\ phase = "raw"
    /\ IF impl # "rust" /\ HasBadColor(raw)
       THEN phase' = "raised" /\ UNCHANGED <<parsed, parts>>
       ELSE phase' = "parsed" /\ parsed' = Parsed /\ parts' = parsed'
    /\ UNCHANGED <<impl, raw, simple, calls>>

MaxCalls == 2

Simplify ==
    /\ phase \in {"parsed", "simple"} /\ calls < MaxCalls
    /\ phase' = "loop"
    /\ calls' = calls + 1
    /\ UNCHANGED <<impl, raw, parsed, parts, simple>>

Round(p) == IF impl = "rust" THEN RustRound(p) ELSE PythonRound(p)

\* A mutated form of Loop, for the run that must refute it: one round only.
LoopOnce ==
    /\ phase = "loop"
    /\ parts' = Round(parts)
    /\ phase' = "squash"
    /\ UNCHANGED <<impl, raw, parsed, simple, calls>>

\* One round; after one that changes nothing comes the squash.
Loop ==
    /\ phase = "loop"
    /\ parts' = Round(parts)
    /\ phase' = IF parts' = parts THEN "squash" ELSE "loop"
    /\ UNCHANGED <<impl, raw, parsed, simple, calls>>

Squash ==
    /\ phase = "squash"
    /\ parts' = IF impl = "rust" THEN RustSquash(parts) ELSE PythonSquash(parts)
    /\ simple' = IF calls = 1 THEN parts' ELSE simple
    /\ phase' = "simple"
    /\ UNCHANGED <<impl, raw, parsed, calls>>

Finished ==
    /\ phase = "raised" \/ (phase = "simple" /\ calls = MaxCalls)
    /\ UNCHANGED vars

Next == Parse \/ Simplify \/ Loop \/ Squash \/ Finished

Spec == Init /\ [][Next]_vars
-----------------------------------------------------------------------------
(* What simplify keeps.                                                    *)

\* A list in which a code comes back only after a reset, and a text seen since
\* that reset.  (In other lists the passes of Python take a code for one that is
\* still on, or for one that nothing has used, and the look changes.)
NoRepeats(p) ==
    \A i, j \in DOMAIN p : i < j /\ IsCode(p[i]) /\ p[i] = p[j] =>
        \E k \in i .. j - 1 : p[k] = Reset /\ \E l \in k .. j : Uses(p[l])

\* Fillers of a list of at most nine components are below eight: CPython iterates
\* over them in order.
SmallIndices == Len(parsed) <= 9

\* simplify never changes what Minecraft shows: "any unused elements removed"
\* (_motd.py), "redundant or meaningless formatting" (simplify.rs).
LookKept ==
    phase \in {"loop", "squash", "simple"} =>
        /\ impl = "rust" \/ phase # "simple" \/ SmallIndices => Plain(parts) = Plain(parsed)
        /\ impl = "rust" \/ (NoRepeats(parsed) /\ SmallIndices) => Look(parts) = Look(parsed)

\* To simplify a simplified Motd again changes nothing, although the squash makes
\* new neighbours after the last round of the loop.  Excepted are the lists of
\* Python whose fillers may be popped out of order: there the squash leaves texts
\* next to each other, which the second call squashes.
StaysSimple ==
    phase = "simple" /\ calls = MaxCalls /\ (impl = "rust" \/ SmallIndices) =>
        parts = simple

\* "a new motd with all such elements removed" (_motd.py): the elements removed
\* are codes and empty strings, the text is what it was.
SimplifyKeepsText == phase = "simple" => Plain(parts) = Plain(parsed)
-----------------------------------------------------------------------------
(* What arrives of a JSON text.                                            *)

\* A raw text with elements; Rust ignores a list.
IsJson == raw.kind = "dict" \/ (raw.kind = "list" /\ impl # "rust")

\* What Minecraft gives an element that is inside another: what it does not say
\* itself it inherits.  `own` and `keys` are what it says, `named` every format
\* that it or an element around it names, in a key or in its text.
ElementOf(node, around) ==
    LET keys == {k \in DOMAIN node.style : node.style[k] = "true"}
        kept == {k \in around.formats : node.style[k] = "none"}
    IN  [kind |-> node.kind, own |-> node.color, keys |-> keys,
         color |-> IF node.color = "none" THEN around.color ELSE node.color,
         formats |-> keys \cup kept,
         named |-> around.named \cup keys \cup (ToSet(node.text) \cap Formats),
         inText |-> ToSet(node.text) \cap OrdinaryColors]

\* The element of every visible token of the raw text, in order.
RECURSIVE ElementsOf(_, _)
ElementsOf(node, around) ==
    LET element == ElementOf(node, around)
        visible(token) == token \in {"A", "B"}
        here == SelectSeq(node.text, visible)
    IN  [i \in DOMAIN here |-> element]
            \o FlattenSeq([i \in DOMAIN node.extra |-> ElementsOf(node.extra[i], element)])

NoElement == [kind |-> "none", own |-> "none", keys |-> {}, color |-> "none",
              formats |-> {}, named |-> {}, inText |-> {}]

RECURSIVE AllNodes(_)
AllNodes(node) == {node} \cup UNION {AllNodes(node.extra[i]) : i \in DOMAIN node.extra}

CodesInText == \E node \in AllNodes(raw) : ~ToSet(node.text) \subseteq {"A", "B", " "}

\* The codes of each visible token since the last reset before it, in any order.
Listed(p) == Seen(p, AnsiStyle)

\* The formats of an element in the list: Python writes what is inherited before
\* the element's colour, which may be a reset.
Given(element) ==
    IF impl # "rust" /\ element.own = "reset" THEN element.keys ELSE element.formats

\* Every format an element has or inherits stands in the list between the last
\* reset and its text, however deep the element is and whatever was before it:
\* this is what the test of "top level formatting applies to all in extra" looks
\* at (tests/motd/test_motd.py).  That it applies, as the title says, is not true
\* of an element with a colour in Python, the test's own case: the colour comes
\* after what is inherited and ends it.  So Minecraft shows the formats of such an
\* element itself, and those inherited only where it has no colour; in Rust it
\* shows all, and the colour, inherited or not.  (Strings in "extra" take no
\* style in Rust.)
StyleArrives ==
    IsJson /\ phase = "parsed" /\ ~CodesInText =>
        LET elements == ElementsOf(raw, NoElement)
            listed == Listed(parsed)
            shown == Look(parsed)
        IN  \A i \in DOMAIN elements :
                impl # "rust" \/ elements[i].kind = "dict" =>
                    /\ Given(elements[i]) \subseteq listed[i].formats
                    /\ elements[i].own = "none" \/ impl = "rust" =>
                            elements[i].formats \subseteq shown[i].formats
                    /\ elements[i].keys \subseteq shown[i].formats
                    /\ impl = "rust" /\ RustColor(elements[i].color) # << >> =>
                            shown[i].color = elements[i].color

\* In Python nothing leaks from an element to its neighbours, or out of it: a
\* text has no format but those named by its element or one around it, and no
\* colour but one of its element.  (A string in "extra" has no reset after it.)
StyleHasSource ==
    /\ IsJson /\ impl # "rust" /\ phase = "parsed"
    /\ \A node \in AllNodes(raw) : node.kind # "string"
    =>  LET elements == ElementsOf(raw, NoElement)
            shown == Look(parsed)
        IN  \A i \in DOMAIN elements :
                /\ shown[i].formats \subseteq elements[i].named
                /\ shown[i].color \in {elements[i].own, "none"} \cup elements[i].inText

-----------------------------------------------------------------------------
(* What the renderings show.                                               *)

Rendered == phase \in {"parsed", "simple"}
Has(p, Wanted(_)) == \E i \in DOMAIN p : Wanted(p[i])
IsTag(c) == c.kind = "tag"
IsWeb(c) == c.kind = "web"

Colors(look) == [i \in DOMAIN look |-> look[i].color]

\* A browser and a terminal show the same, and what Minecraft shows: in Python
\* unless to_html and to_ansi raise; a web colour ends no format there.  In Rust
\* to_ansi keeps the formats a colour ends, and writes no colour it believes on.
RenderersAgree ==
    Rendered =>
        IF impl = "rust"
        THEN ~Has(parts, IsTag) =>
                /\ HtmlLook(RustHtml(parts)) = Look(parts)
                /\ Colors(RustAnsiLook(parts)) = Colors(Look(parts))
        ELSE ~RaisesKeyError(parts, impl = "bedrock") =>
                /\ HtmlLook(PythonHtml(parts)) = PythonAnsiLook(parts)
                /\ ~Has(parts, IsWeb) => PythonAnsiLook(parts) = Look(parts)

\* Codes that have a meaning of their own in a string again: in Python web
\* colours have none, "&m" is a Bedrock colour, and a Bedrock colour joins the
\* text after it.
HasCode(c) ==
    \/ ~IsCode(c)
    \/ impl = "rust"
    \/ IsColor(c) /\ c.val[1] \in OrdinaryColors
    \/ IsFormat(c) /\ c # Format("&m")

\* What to_minecraft writes is parsed to what is shown the same.
MinecraftRoundTrip ==
    Rendered /\ ~Has(parts, IsTag) /\ (\A i \in DOMAIN parts : HasCode(parts[i])) =>
        LET again == IF impl = "rust" THEN RustString(RustMinecraft(parts))
                     ELSE PythonString(PythonMinecraft(parts), impl = "bedrock")
        IN  Look(again) = Look(parts)
=============================================================================
