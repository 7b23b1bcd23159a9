SPECIFICATION Spec
CONSTANTS
  Traits <- MCTraits
  Text <- MCText
  Digest <- MCDigest
  Home = "~"
  Project = "~/p"
  KnownTopLevelTypes = {"assistant", "system", "attachment"}
  KnownLaunchSurfaces = {"cli"}
  KnownAttachmentTypes = {"environment"}
  KnownSystemSubtypes = {"local_command"}
  Values = {"hunter2", "h+nt'r", "hex key", "url", "random"}
  Keys = {"note", "id", "signature", "password", "api_key", "db_password"}
  CopyKeys = {"note", "ids", "signature"}
  KeyTwice = FALSE
INVARIANTS MaskedAsDecided  NothingUnnoticed
CHECK_DEADLOCK FALSE
