SPECIFICATION FilesSpec
CONSTANTS
    exe = exe
    home = home
    work = work
    usb = usb
    Nothing = Nothing
    Programs = {"walk", "fyne"}
    Files <- MCFiles
    Base <- MCBase
    Found <- MCFound
    Default = exe
    Initial <- MCInitial
    Preset = "s1"
    Hubs <- MCHubs
    MaxActs = 4
    MaxFetches = 2
INVARIANTS SavesToItsOwnFile HubSurvivesDiscovery
 
CHECK_DEADLOCK FALSE
