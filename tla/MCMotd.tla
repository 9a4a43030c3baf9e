------------------------------- MODULE MCMotd -------------------------------
(* Instances of MotdObject for TLC.                                         *)
EXTENDS MotdObject

Words(tokens, n) == UNION {[1 .. k -> tokens] : k \in 1 .. n}
Strings(tokens, n) == {StringNode(s) : s \in Words(tokens, n)}

\* Every code in short strings, a few in longer ones.
MCStrings ==
    Strings({"&c", "&d", "&l", "&k", "&m", "&r", "&g", "&h", "&#", "A", "B", " "}, 3)
        \cup Strings({"&c", "&l", "&r", "A", " "}, 5)

\* Styles in which up to two keys are set.
Styles == {Unstyled, [Unstyled EXCEPT !["&l"] = "true"], [Unstyled EXCEPT !["&l"] = "false"],
           [Unstyled EXCEPT !["&l"] = "true", !["&k"] = "true"]}

Dicts(colors, styles, texts, tags, extras) ==
    {Node("dict", c, s, t, g, e) :
        c \in colors, s \in styles, t \in texts, g \in tags, e \in extras}

Leaves == Dicts({"none", "&c"}, Styles, {<<"A">>}, {FALSE}, {<< >>})
              \cup Dicts({"none", "reset", "&#", "&h"}, {Unstyled}, {<<"A">>, << >>}, {FALSE}, {<< >>})
              \cup Dicts({"none", "bad"}, {Unstyled}, {<<"A">>}, {TRUE}, {<< >>})
              \cup {StringNode(<<"B">>), StringNode(<<"&l", "B">>), StringNode(<<" ">>)}
FewLeaves == Dicts({"none", "&c"}, Styles, {<<"A">>}, {FALSE}, {<< >>}) \cup {StringNode(<<"B">>)}

Roots(extras) ==
    Dicts({"none", "&c"}, Styles, {<<"B">>, <<"&l", "B">>}, {FALSE}, extras)
        \cup {ListNode(e) : e \in extras}

\* Objects with two nested nodes, and with one that has a nested one and one
\* after it.
MCJson ==
    Roots({<<e, f>> : e \in Leaves, f \in Leaves})
        \cup Roots({<<e, f>> : e \in Dicts({"none", "&d"}, Styles, {<<"B">>}, {FALSE},
                                            {<<g>> : g \in FewLeaves}),
                               f \in Dicts({"none", "&c"}, {Unstyled}, {<<"A">>}, {FALSE}, {<< >>})})

MCRaws == MCStrings \cup MCJson

\* Lists of strings and of objects that have a colour: long enough for the
\* table of a set of fillers to be out of order.
MCLists == {ListNode(e) : e \in [1 .. 6 -> {StringNode(<<"A">>), StringNode(<<"B">>),
                Node("dict", "&c", Unstyled, <<"A">>, FALSE, << >>),
                Node("dict", "&d", Unstyled, <<"B">>, FALSE, << >>)}]}
=============================================================================
