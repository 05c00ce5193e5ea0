SPECIFICATION MarkSpec
CONSTANT Navs = {78, 85, 91, 100, 120}
INVARIANTS MarkIsPeak CeilingCoversPeak
