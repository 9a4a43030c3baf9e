CONSTANT Raws <- MCLists
SPECIFICATION Spec
INVARIANT SimplifyKeepsText
