CONSTANTS
  LineKinds <- MCLineKinds
  MaxLines = 4
  Options <- MCOptions
  Modes = {"line-window", "markdown", "text", "tree-sitter"}
SPECIFICATION Spec
INVARIANTS TypeOK ChunksFit  
CHECK_DEADLOCK FALSE
