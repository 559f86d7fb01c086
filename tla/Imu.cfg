SPECIFICATION Spec
CONSTANTS
    Headings <- EdgeHeadings
    Junk <- EdgeJunk
    Torn = Torn
INVARIANTS
    TickMixesTwo
    HeadingDecodes
