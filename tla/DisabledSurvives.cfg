SPECIFICATION SettingsSpec
CONSTANTS
  Vendors = {"openai", "ollama"}
  CloudVendors = {"openai"}
  Places = {"here"}
  DefaultPlace = "here"
  VendorLists = {}
  Logins = {"google"}
  MaxSettings = 3
  MaxLoginFailures = 0
PROPERTY DisabledSurvives
CHECK_DEADLOCK FALSE
