SPECIFICATION Spec
CONSTANTS
  Channels = {instagram, youtube}
  InBrowser = {instagram}
  Schedules = {daily, hourly}
  Invalid = Invalid
  None = None
  Foreign = Foreign
  MaxChanges = 1
INVARIANTS ReportsTrue CommandsHeal
PROPERTIES EnabledIsProven
CONSTANTS
  instagram = instagram
  youtube = youtube
  daily = daily
  hourly = hourly
