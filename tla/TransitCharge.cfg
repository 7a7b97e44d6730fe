SPECIFICATION FairSpec
CONSTANTS
 Width = 4
 Size <- SizeOf
 SubnetLen = 2
 Prefixes <- PrefixSet
 Scope <- ScopeSet
 Loopbacks <- LoopbackSet
 Announced <- AnnouncedSet
 Underlays <- UnderlaySet
 None = None
INVARIANTS ChargedAsRouted
PROPERTIES ChargedAtLast
