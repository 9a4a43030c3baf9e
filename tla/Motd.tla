-------------------------------- MODULE Motd --------------------------------
(***************************************************************************)
(* A parsed message of the day: the components of motd/components.py and   *)
(* components.rs, and what Minecraft shows for a list of them.             *)
(*                                                                         *)
(* A raw text is a sequence of tokens.  A token is a visible character, a  *)
(* blank, or a code with its two characters: "&c" stands for the section   *)
(* sign, or an ampersand, and c ("&" and "h" are the halves of one that    *)
(* Rust does not know).  A component is a record [kind, val] with a        *)
(* sequence of tokens in val.                                              *)
(***************************************************************************)
EXTENDS Naturals, Sequences, FiniteSets, SequencesExt

Text(tokens) == [kind |-> "text", val |-> tokens]
Color(token) == [kind |-> "color", val |-> <<token>>]
Web(token) == [kind |-> "web", val |-> <<token>>]
Format(token) == [kind |-> "format", val |-> <<token>>]
Tag(id) == [kind |-> "tag", val |-> <<id>>]
Reset == Format("&r")

IsText(c) == c.kind = "text"
IsColor(c) == c.kind \in {"color", "web"}
IsFormat(c) == c.kind = "format"
IsCode(c) == IsColor(c) \/ IsFormat(c)

\* A text of blanks only (str.isspace).
IsBlank(c) == IsText(c) /\ c.val # << >> /\ \A i \in DOMAIN c.val : c.val[i] = " "

\* MinecraftColor and Formatting, as far as the models tell them apart: two
\* ordinary colours, the colours marked "Only for bedrock", the formats bold,
\* strikethrough, obfuscated and reset.  "&m" is in both enumerations.
OrdinaryColors == {"&c", "&d"}
BedrockColors == {"&g", "&h", "&m"}
Formats == {"&l", "&m", "&k", "&r"}

\* The text of a list of components (to_plain).
Plain(parts) ==
    LET add(acc, c) == IF IsText(c) THEN acc \o c.val ELSE acc
    IN  FoldLeft(add, << >>, parts)

NoStyle == [color |-> "none", formats |-> {}]

\* The visible tokens of a text in a style.
Shown(tokens, style) ==
    LET visible(token) == token # " "
        seen == SelectSeq(tokens, visible)
    IN  [i \in DOMAIN seen |->
            [token |-> seen[i], color |-> style.color, formats |-> style.formats]]

\* What is seen of a list when Restyle(style, c) says what code c does to a style.
Seen(parts, Restyle(_, _)) ==
    LET step(acc, c) ==
            IF IsText(c) THEN [acc EXCEPT !.seen = @ \o Shown(c.val, acc.style)]
            ELSE IF IsCode(c) THEN [acc EXCEPT !.style = Restyle(@, c)]
            ELSE acc
    IN  FoldLeft(step, [style |-> NoStyle, seen |-> << >>], parts).seen

\* Minecraft: a reset clears all, a colour "resets everything" before it, a
\* format is added.
MinecraftStyle(style, c) ==
    IF c = Reset THEN NoStyle
    ELSE IF IsColor(c) THEN [color |-> c.val[1], formats |-> {}]
    ELSE [style EXCEPT !.formats = @ \cup {c.val[1]}]

Look(parts) == Seen(parts, MinecraftStyle)
=============================================================================
