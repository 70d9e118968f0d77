CONSTANTS
  Methods = {"GET", "POST"}
  h1 = h1
  h2 = h2
  Handlers <- MCHandlers
  MaxRoutes = 3
  Patterns <- MCPatterns
  Paths <- MCPaths
  Braced <- MCBraced
  NameOf <- MCNameOf
  TypeOf <- MCTypeOf
  Accepts <- MCAccepts
SPECIFICATION Spec
INVARIANTS RoutesTypeOK NotFoundIsRight Precedence ParamsFit
PROPERTIES RegistersLocally
SYMMETRY Swap
