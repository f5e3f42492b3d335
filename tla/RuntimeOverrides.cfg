CONSTANTS
  Saves = {s1, s2}
  U1 = u1
  U2 = u2
  L1 = l1
  L2 = l2
  A1 = a1
  A2 = a2
  Urls = {u1, u2}
  Llms = {l1, l2}
  Agents = {a1, a2}
  Backends = {"llm", "http", "odd"}
  Unset = unset
  Torn = torn
  NoClient = noclient
  Toml <- MCToml
  DefaultAvatar <- MCDefault
  Files <- MCFiles
  Bodies <- MCBodies
SYMMETRY Symmetry
SPECIFICATION Spec
INVARIANTS TypeOK SavedIsKept LiveAsRestarted
