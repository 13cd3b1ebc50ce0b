--------------------------- MODULE MCPresentations ---------------------------
EXTENDS Presentations, TLC

\* Neither requests nor the rows and values that nobody is bound to are told apart.
MCSymmetry == Permutations(Requests) \cup Permutations(Presentations)
                \cup Permutations(Clients) \cup Permutations(Contents)
=============================================================================
