CONSTANT Raws <- MCRaws
SPECIFICATION Spec
INVARIANT LookKept
INVARIANT StaysSimple
INVARIANT StyleArrives
INVARIANT StyleHasSource
INVARIANT RenderersAgree
INVARIANT MinecraftRoundTrip
