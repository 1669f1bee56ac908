---------------------------- MODULE MCVotingStack ----------------------------
(* Images of every kind: raw, wrapped once or twice, unreadable; with a good *)
(* or a stale DTB in the header, given by the user, or found by the scan.    *)
EXTENDS VotingStack

CONSTANTS Good, Stale

Layerings == { <<>>, <<"LimeAddressSpace">>, <<"WindowsHiberFileSpace32">>,
               <<"HPAKAddressSpace">>,
               <<"VirtualBoxCoreDumpElf64", "WindowsCrashDumpSpace32">>,
               <<"HPAKAddressSpace", "WindowsHiberFileSpace32">> }

Profiles == { Classes,
              Classes \ {"AMD64PagedMemory", "WindowsCrashDumpSpace64"},
              Classes \ {"IA32PagedMemory", "IA32PagedMemoryPae",
                         "WindowsCrashDumpSpace32", "WindowsHiberFileSpace32"} }

Checks == { {}, {"IA32PagedMemory", "IA32PagedMemoryPae"},
            {"IA32PagedMemoryPae", "AMD64PagedMemory"}, {"ArmAddressSpace"} }

MCImages ==
    [location : {"file"}, layers : Layerings, supports : Profiles,
     header : {Good, Stale}, scan : {Good, Stale, PyNone},
     user : {Good, Stale, PyNone}, right : {Good}, passes : Checks]
    \cup
    [location : Locations \ {"file"},
     layers : {<<"HPAKAddressSpace">>, <<"LimeAddressSpace">>},
     supports : {Classes}, header : {Good}, scan : {Good}, user : {Stale, PyNone},
     right : {Good}, passes : Checks]

==============================================================================
