\* Two processes, one of the container and one of the host, two secrets, two versions of the configuration.
SPECIFICATION Spec
SYMMETRY Symmetry
CONSTANTS
  container = container
  host = host
  k1 = k1
  k2 = k2
  k3 = k3
  apiKey = apiKey
  other = other
  v = v
  None = None
  Broken = Broken
  Dead = Dead
  Process = {container, host}
  Key = {k1, k2, k3}
  Name = {apiKey, other}
  ApiKey = apiKey
  Value = {v}
  Rule = {"weights"}
  MaxVersions = 2
INVARIANTS SecretsAreKept SecretsAreReadable ContextIsWhole BootstrapIsTruthful
