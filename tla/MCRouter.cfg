SPECIFICATION RouterSpec
CONSTANTS
  x = x
  y = y
  Nil = Nil
  Vars <- MCVars
  Extends <- MCExtends
  PathTpls <- MCPathTpls
  HostTpls <- MCHostTpls
  QueryTpls <- MCQueryTpls
  BadTpls <- MCBadTpls
  Urls <- MCUrls
  MaxRoutes = 3
  MaxMatchers = 4
  MaxCalls = 4
  SubrouterLast = TRUE
CHECK_DEADLOCK FALSE
INVARIANTS
  RouterTypeOK
  RoutedRight
  VarsOwn
PROPERTIES
  EarlierFirst
