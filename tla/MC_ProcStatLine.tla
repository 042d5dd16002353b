--------------------------- MODULE MC_ProcStatLine ---------------------------
EXTENDS ProcStatLine

\* letters, a digit, the separator, the closing bracket and a line break
MCCommChars == {"a", "1", " ", ")", "\n"}
==============================================================================
