----------------------------- MODULE MotdParser -----------------------------
(***************************************************************************)
(* Motd.parse of motd/_motd.py, and from_string and from_json of           *)
(* motd_impl.rs.  A raw MOTD is a node: a string, a list, or a JSON object *)
(* with a colour, style keys, a text, a translation and nested nodes.      *)
(***************************************************************************)
EXTENDS Motd

\* The style keys of a node in the order of Formatting: bold, strikethrough,
\* obfuscated.
StyleKeys == <<"&l", "&m", "&k">>
Unstyled == [k \in {"&l", "&m", "&k"} |-> "none"]

Node(kind, color, style, text, tag, extra) ==
    [kind |-> kind, color |-> color, style |-> style, text |-> text, tag |-> tag,
     extra |-> extra]
StringNode(text) == Node("string", "none", Unstyled, text, FALSE, << >>)
ListNode(extra) == Node("list", "none", Unstyled, << >>, FALSE, extra)

\* Mutated forms of definitions below, for the runs that must refute them:
\* nested nodes inherit nothing, no reset after an element.
InheritNothing(parsed) == << >>
NoReset == << >>

-----------------------------------------------------------------------------
(* Strings.                                                                *)

\* The codes the regular expression of _motd.py splits at ([0-9A-FK-OR]).
SplitCodes == {"&c", "&d", "&l", "&m", "&k", "&r"}

\* The tokens cut into codes that stand alone and the texts between them.
Elements(tokens) ==
    LET step(acc, token) ==
            IF token \in SplitCodes \/ acc = << >> \/ Last(acc)[1] \in SplitCodes
            THEN Append(acc, <<token>>)
            ELSE Append(Front(acc), Append(Last(acc), token))
    IN  FoldLeft(step, << >>, tokens)

\* An element becomes a colour if it is the value of one, then a format, then a
\* text; minecoin gold only on Bedrock.  So "&m" is a Bedrock colour everywhere,
\* and a lone "&h" is one.
PythonElement(element, bedrock) ==
    IF Len(element) > 1 \/ (element = <<"&g">> /\ ~bedrock) THEN Text(element)
    ELSE IF element[1] \in OrdinaryColors \cup BedrockColors THEN Color(element[1])
    ELSE IF element[1] \in Formats THEN Format(element[1])
    ELSE Text(element)

PythonString(tokens, bedrock) ==
    LET elements == Elements(tokens)
    IN  [i \in DOMAIN elements |-> PythonElement(elements[i], bedrock)]

\* motd_impl.rs: minecoin gold always, web colours, no other Bedrock colour.
RustCode(token) ==
    IF token \in OrdinaryColors \cup {"&g"} THEN Color(token)
    ELSE IF token \in Formats THEN Format(token)
    ELSE IF token = "&#" THEN Web(token)
    ELSE Text(<<token>>)

\* The text a token begins: the sign of a code that is none stands alone.
RustText(token) ==
    IF token = "&h" THEN <<Text(<<"&">>), Text(<<"h">>)>> ELSE <<Text(<<token>>)>>

RustString(tokens) ==
    LET step(acc, token) ==
            IF IsCode(RustCode(token)) THEN Append(acc, RustCode(token))
            ELSE IF acc # << >> /\ IsText(Last(acc))
            THEN Append(Front(acc), Text(Append(Last(acc).val, token)))
            ELSE acc \o RustText(token)
    IN  FoldLeft(step, << >>, tokens)

-----------------------------------------------------------------------------
(* JSON.                                                                   *)

\* The value of "color" is the name of one of `names`, a hex number, "reset",
\* or something else.
ColorIn(names, value) ==
    IF value \in names THEN <<Color(value)>>
    ELSE IF value = "&#" THEN <<Web(value)>> ELSE << >>

\* _parse_color: every name of MinecraftColor, and "reset".
PythonColor(value) ==
    IF value = "reset" THEN <<Reset>> ELSE ColorIn(OrdinaryColors \cup BedrockColors, value)

\* from_code_str and parse_web_color: no Bedrock material, no "reset".
RustColor(value) == ColorIn(OrdinaryColors \cup {"&g"}, value)

RECURSIVE HasBadColor(_)
HasBadColor(node) ==
    \/ node.color = "bad"
    \/ \E i \in DOMAIN node.extra : HasBadColor(node.extra[i])

\* A style key that is true adds its format; one that is false removes the first
\* there is.
Styled(parsed, style) ==
    LET step(acc, k) == CASE style[k] = "true" -> Append(acc, Format(k))
                          [] style[k] = "false" -> RemoveFirst(acc, Format(k))
                          [] OTHER -> acc
    IN  FoldLeft(step, parsed, StyleKeys)

\* auto_add: what the nested nodes inherit, the codes in the text included but
\* never a colour.
Inherited(parsed) ==
    LET kept(c) == IsFormat(c) /\ c # Reset IN SelectSeq(parsed, kept)

\* Formatting.RESET after an element.
AfterElement == <<Reset>>

TagOf(node) == IF node.tag THEN <<Tag("translate")>> ELSE << >>

\* _parse_as_dict.  A nested object is parsed as one of a Java server.
RECURSIVE PythonDict(_, _, _)
PythonDict(node, autoAdd, bedrock) ==
    LET parsed == Styled(autoAdd \o PythonColor(node.color), node.style)
                      \o PythonString(node.text, bedrock) \o TagOf(node)
                      \o AfterElement
        auto == Inherited(parsed)
        nested(e) == IF e.kind = "dict" THEN PythonDict(e, auto, FALSE)
                     ELSE auto \o PythonString(e.text, bedrock)
    IN  parsed \o FlattenSeq([i \in DOMAIN node.extra |-> nested(node.extra[i])])

\* A list is an object that has only "extra".
PythonParse(raw, bedrock) ==
    IF raw.kind = "string" THEN PythonString(raw.text, bedrock)
    ELSE PythonDict(raw, << >>, bedrock)

\* The style of a node in motd_impl.rs: what it does not say it inherits.
RustStyle(inherited, node) ==
    [color |-> IF node.color = "none" THEN inherited.color ELSE node.color,
     on |-> [k \in DOMAIN node.style |->
                IF node.style[k] = "none" THEN inherited.on[k] ELSE node.style[k]]]

RustFormats(on) ==
    LET step(acc, k) == IF on[k] = "true" THEN Append(acc, Format(k)) ELSE acc
    IN  FoldLeft(step, << >>, StyleKeys)

\* parse_json_component_inner: a nested string takes no style of its parent; a
\* list is "Invalid type for a component" and ignored.
RECURSIVE RustNode(_, _)
RustNode(node, inherited) ==
    CASE node.kind = "string" -> RustString(node.text)
      [] node.kind = "list" -> << >>
      [] OTHER ->
            LET style == RustStyle(inherited, node)
            IN  RustColor(style.color) \o RustFormats(style.on) \o TagOf(node)
                    \o RustString(node.text)
                    \o FlattenSeq([i \in DOMAIN node.extra |-> RustNode(node.extra[i], style)])

RustParse(raw) == RustNode(raw, [color |-> "none", on |-> Unstyled])
=============================================================================
