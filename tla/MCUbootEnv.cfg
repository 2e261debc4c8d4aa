\* Six layouts, patched by both tools and written by the device in any order.
SPECIFICATION Spec
CONSTANTS
  Envs <- SomeEnvs
  Layouts <- SomeLayouts
  Rest = 2
  None = None
INVARIANTS
  BootAndKernelKept
  PatchTakes
  ReadsBack
  EffectiveEnv
