--------------------------- MODULE MCMemoryIndex ---------------------------
EXTENDS MemoryIndex

CONSTANTS t1, t2, a, b

MCDimOf == [v \in Vectors |-> Dim]
=============================================================================
