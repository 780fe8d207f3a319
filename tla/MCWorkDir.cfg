SPECIFICATION Spec
CONSTANTS
  Files <- MCFiles Directories = {"rhoai"} ParamsEnv = "params.env"
  Keys = {image, namespace, other} ImageKey = image NamespaceKey = namespace
  Images = {i1} Namespaces = {n1, n2} Template = template
  Unset = unset Missing = missing
  MaxCopyFaults = 1 MaxFaults = 2 MaxEnv = 2
INVARIANTS TypeOK ParamsNeverTorn RenderFaithful
PROPERTIES RenderSucceeds
