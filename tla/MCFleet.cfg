SPECIFICATION Spec
CONSTANTS
  Devices = {d1, d2}
  None = None
PROPERTIES RegisteredDevicesCheck
