----------------------------- MODULE MCFullSync -----------------------------
(* Two replicas of one master, in four environments.                        *)
EXTENDS FullSync

CONSTANTS r1, r2

\* Only r1 can be fed from the pipe; the mode changes meanwhile.
Disk ==
    [eof |-> {r1}, modes |-> {TRUE, FALSE}, saveParams |-> TRUE, delSyncFiles |-> FALSE,
     asyncClose |-> FALSE, chunks |-> 1,
     writes |-> 2, syncs |-> 3, drops |-> 1, others |-> 1]

\* A master without persistence, which removes dump.rdb when it can.
DelFile ==
    [eof |-> {r1, r2}, modes |-> {FALSE}, saveParams |-> FALSE, delSyncFiles |-> TRUE,
     asyncClose |-> FALSE, chunks |-> 1,
     writes |-> 2, syncs |-> 3, drops |-> 1, others |-> 0]

\* Both are fed from the pipe, in two chunks.
Diskless ==
    [eof |-> {r1, r2}, modes |-> {TRUE}, saveParams |-> TRUE, delSyncFiles |-> FALSE,
     asyncClose |-> TRUE, chunks |-> 2,
     writes |-> 1, syncs |-> 3, drops |-> 2, others |-> 0]

\* The default: a file, and output buffers with a limit.
Limited ==
    [eof |-> {r1, r2}, modes |-> {FALSE}, saveParams |-> TRUE, delSyncFiles |-> FALSE,
     asyncClose |-> TRUE, chunks |-> 1,
     writes |-> 2, syncs |-> 3, drops |-> 0, others |-> 0]

mcAll == {Disk, DelFile, Diskless, Limited}
=============================================================================
