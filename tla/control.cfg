\* The control task: driving, the brake latch and modes.
SPECIFICATION SceneSpec
CONSTANTS
  Scenes = {"drive", "latch", "modes"}
  Inputs <- AllInputs
  TickMs = {1, 2}
  Timeout <- Timeouts
  BrakeFlag = {b1, b2}
  Adc = {adc1, adc2}
  AdcStaleMs = 2
  BrakeFlagMs = 2
  MotorMs = 1
  RtdMs = 2
  ShutdownMs = 1
  BuzzerMs = 2
  RtdMaxPedal = 0
  RtdReleaseExitsDrive = TRUE
  FaultClearMs = 1
  TorqueLimit = 1
  RegenEnabled = TRUE
  RegenEngagePsi = 0
  Mode = {endurance, skidpad, unassigned}
  ModeCode = {endurance, skidpad, unassigned, other}
  Unassigned = unassigned
  DefaultMode = endurance
  NoMode = NoMode
  ShellModes = {skidpad}
  Console = {usb}
  MaxDeviation = 10
  ImplausibleMs = 2
  RangeFaultMs = 2
  MismatchMs = 2
  AlphaDen = 1
  AppsAlpha = 1
  BseAlpha = 1
  DeadzoneLow = 9
  DeadzoneHigh = 74
  FullScalePsi = 8
  PressedOnPsi = 6
  PressedOffPsi = 5
  BrakeLightPsi = 1
  BotPedalOn = 25
  BotPedalOff = 5
INVARIANTS
  TypeOK
  DriveOnlyWhenReady
  TorqueGate
PROPERTIES
  EnableNeedsRtdSequence
  DriveAnnouncedAndEnded
  LatchClearedByDashOnly
  LatchIsRegister
  ModeFixedInDrive
