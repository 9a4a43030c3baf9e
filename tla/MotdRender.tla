----------------------------- MODULE MotdRender -----------------------------
(***************************************************************************)
(* The transformers of motd/_transformers.py and transform.rs.  HTML is a  *)
(* sequence of events (a tag opens or closes, a token is written) and is   *)
(* read back by a browser; ANSI is read by a terminal.  Escaping and the   *)
(* numbers of the colours are left out.                                    *)
(***************************************************************************)
EXTENDS Motd

Write(token) == [event |-> "write", tag |-> "none", val |-> token]
Open(tag, code) == [event |-> "open", tag |-> tag, val |-> code]
Close(tag) == [event |-> "close", tag |-> tag, val |-> "none"]
Written(tokens) == [i \in DOMAIN tokens |-> Write(tokens[i])]

\* Mutated forms of definitions below, for the runs that must refute them: a
\* colour that resets nothing, resets that are not written.
ColorAlone(c) == <<c>>
ResetUnwritten(c) == IF c = Reset \/ c.kind \in {"web", "tag"} THEN << >> ELSE c.val

-----------------------------------------------------------------------------
(* Python.                                                                 *)

\* _handle_component: a Minecraft colour, but no web colour, brings a reset.
WithReset(c) == IF c.kind = "color" THEN <<Reset, c>> ELSE <<c>>

\* The colour tables of a Java server have no colour of Bedrock: KeyError.
RaisesKeyError(parts, bedrock) ==
    ~bedrock /\ \E i \in DOMAIN parts :
        parts[i].kind = "color" /\ parts[i].val[1] \in BedrockColors

\* The tag of a code: colours and the obfuscated format are spans.
HtmlTag(c) == IF c = Format("&l") THEN "b" ELSE IF c = Format("&m") THEN "s" ELSE "span"

\* on_reset holds the closing tags in the order the tags were opened in.
HtmlStep(acc, c) ==
    CASE IsText(c) -> [acc EXCEPT !.out = @ \o Written(c.val)]
      [] c = Reset -> [out |-> acc.out \o acc.on_reset, on_reset |-> << >>]
      [] IsCode(c) /\ c # Reset ->
            [out |-> Append(acc.out, Open(HtmlTag(c), c)),
             on_reset |-> Append(acc.on_reset, Close(HtmlTag(c)))]
      [] OTHER -> acc

\* The components and the resets that come with them.
Handled(parts) ==
    FlattenSeq([i \in DOMAIN parts |-> WithReset(parts[i])])

PythonHtml(parts) ==
    LET end == FoldLeft(HtmlStep, [out |-> << >>, on_reset |-> << >>], Handled(parts))
    IN  end.out \o end.on_reset

\* A terminal: SGR 0 resets all, a colour changes the colour only.
AnsiStyle(style, c) ==
    IF c = Reset THEN NoStyle
    ELSE IF IsColor(c) THEN [style EXCEPT !.color = c.val[1]]
    ELSE [style EXCEPT !.formats = @ \cup {c.val[1]}]

PythonAnsiLook(parts) == Seen(Handled(parts), AnsiStyle)

\* MinecraftTransformer: the reset of a colour is dropped again; web colours and
\* translations are written as nothing.
MinecraftTokens(c) == IF c.kind \in {"web", "tag"} THEN << >> ELSE c.val

PythonMinecraft(parts) ==
    FlattenSeq([i \in DOMAIN parts |-> MinecraftTokens(parts[i])])

-----------------------------------------------------------------------------
(* Rust.                                                                   *)

Closings(open) == [i \in DOMAIN open |-> Close(Reverse(open)[i])]

RustHtmlStep(acc, c) ==
    CASE IsText(c) -> [acc EXCEPT !.out = @ \o Written(c.val)]
      [] c = Reset -> [out |-> acc.out \o Closings(acc.open), open |-> << >>]
      [] IsColor(c) -> [out |-> acc.out \o Closings(acc.open) \o <<Open("span", c)>>,
                        open |-> <<"span">>]
      [] IsFormat(c) /\ c # Reset ->
            [out |-> Append(acc.out, Open("span", c)), open |-> Append(acc.open, "span")]
      [] OTHER -> [acc EXCEPT !.out = @ \o Written(c.val)]

RustHtml(parts) ==
    LET end == FoldLeft(RustHtmlStep, [out |-> << >>, open |-> << >>], parts)
    IN  end.out \o Closings(end.open)

\* The colour codes to_ansi writes: none for the colour it believes is on.
RustAnsiCodes(parts) ==
    LET step(acc, c) ==
            CASE c = Reset -> [fg |-> "none", out |-> Append(acc.out, c)]
              [] IsColor(c) -> [fg |-> c.val[1],
                                out |-> IF acc.fg = c.val[1] THEN acc.out ELSE Append(acc.out, c)]
              [] OTHER -> [acc EXCEPT !.out = Append(@, c)]
    IN  FoldLeft(step, [fg |-> "none", out |-> << >>], parts).out

RustAnsiLook(parts) == Seen(RustAnsiCodes(parts), AnsiStyle)

RustMinecraft(parts) == FlattenSeq([i \in DOMAIN parts |-> parts[i].val])

-----------------------------------------------------------------------------
(* The reader of HTML (external).                                          *)

\* A closing tag closes the innermost element of its name; without one it is
\* ignored.
CloseInnermost(stack, tag) ==
    LET named == {i \in DOMAIN stack : stack[i].tag = tag}
    IN  IF named = {} THEN stack ELSE RemoveAt(stack, Max(named))

\* The style of what is written inside these elements: the innermost colour and
\* every format.
StyleInside(stack) ==
    LET codes == [i \in DOMAIN stack |-> stack[i].val]
        colors == SelectSeq(codes, IsColor)
    IN  [color |-> IF colors = << >> THEN "none" ELSE Last(colors).val[1],
         formats |-> {c.val[1] : c \in {d \in ToSet(codes) : IsFormat(d)}}]

HtmlLook(html) ==
    LET step(acc, e) ==
            CASE e.event = "open" -> [acc EXCEPT !.stack = Append(@, e)]
              [] e.event = "close" -> [acc EXCEPT !.stack = CloseInnermost(@, e.tag)]
              [] OTHER -> [acc EXCEPT !.seen = @ \o Shown(<<e.val>>, StyleInside(acc.stack))]
    IN  FoldLeft(step, [stack |-> << >>, seen |-> << >>], html).seen
=============================================================================
