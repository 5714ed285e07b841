SPECIFICATION HostSpec
CONSTANTS
  Providers <- MCProviders
  Tools <- MCTools
  Skills <- MCSkills
  Plugins <- MCPlugins
  Configs <- MCConfigs
  Events = {"TurnStart", "BeforeToolUse", "TurnEnd"}
  MaxRegistrations = 5
INVARIANTS
  OnlyWellFormedStarts
  PluginsNest
  EveryTapCalled
  PatchesAddUp
