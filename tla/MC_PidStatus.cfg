\* Every comm of up to 3 words, each word a tag or other text, with the
\* status file readable or gone.
CONSTANTS
    NameWords = {"Uid", "Tgid", "x"}
    MaxWords = 3
SPECIFICATION Spec
INVARIANTS
    NeverWrongOwner
    ReadsUnlessTagInName
\* one call per comm; the returned state has no successor
CHECK_DEADLOCK FALSE
