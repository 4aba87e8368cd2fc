\* Nothing fails; some firmware is unsupported, some version cannot be parsed.
SPECIFICATION Spec
CONSTANTS
  Hardware <- Machines
  IntWord = 32
  Options = {"collect"}
  Faults = {}
INVARIANT OnlySupportedFirmware
