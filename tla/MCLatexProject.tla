---------------------------- MODULE MCLatexProject ----------------------------
EXTENDS LatexProject

\* Classic always writes the log beside the .bbl, biblatex only what the job asks for.
BackendOutputs == [Classic |-> {"main.bbl", "main.blg"}, Biblatex |-> {"main.bbl"}]
=============================================================================
