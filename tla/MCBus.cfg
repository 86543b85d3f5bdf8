SPECIFICATION Spec
CONSTANT PCs = {"p", "q"}
INVARIANT AccessesMatch
PROPERTY PipelineMoves
