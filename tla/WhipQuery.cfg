SPECIFICATION Spec
CONSTANTS
  Base = {hostA}
  NoBase = noBase
  Query = {"q1", "q2"}
  Token = {tok1}
  NoToken = noToken
PROPERTIES
  QueryFollows
