SPECIFICATION ParserSpec
CONSTANTS
  MaxTokens = 32
  MaxCommands = 8
INVARIANT SyntaxSupported
CHECK_DEADLOCK FALSE
