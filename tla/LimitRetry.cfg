\* One notice, one request, one cancel, two overlapping sweeps.
SPECIFICATION FairSpec
CONSTANTS
    ann = ann  bob = bob  first = first  topic = topic  main = main
    Users = {ann, bob}  Admins = {bob}  Notices = {first}
    Threads = {main, topic}  Main = main
    ThreadOf <- OneNotice  ResetAt <- OneReset  Typed <- AnnTyped
    Jitters = {1}  Posts = {p1}  Cancels = {c1}  Sweeps = {s1, s2}
    MaxNow = 2  MaxFails = 2  MaxCrashes = 1
INVARIANT OnePlace
PROPERTIES FitWhenSent Resolved
CHECK_DEADLOCK FALSE
