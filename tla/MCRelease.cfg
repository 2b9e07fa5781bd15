SPECIFICATION Spec
CONSTANTS
    Targets <- WindowsAndLinux
    FilesOf <- TheirFiles
    Exe = "openvpn"
    FirstSource <- TheirSources
    Faults = {"interrupt", "tsc", "specifiers"}
    MaxVersion = 2
INVARIANTS
    PublishedIsWhole
    BundledIsExact
