------------------------------- MODULE MCAof -------------------------------
(* Both fsync policies with crashes, and an AOF that is turned off and on.    *)
EXTENDS Aof

Always ==
    [policy |-> "always", noFsyncOnRewrite |-> FALSE, threads |-> FALSE,
     cmds |-> 2, err |-> 1, full |-> 1, rewrite |-> 2, toggle |-> 0, crash |-> 1]
AlwaysLoose ==
    [policy |-> "always", noFsyncOnRewrite |-> TRUE, threads |-> TRUE,
     cmds |-> 2, err |-> 0, full |-> 1, rewrite |-> 1, toggle |-> 2, crash |-> 0]
Everysec ==
    [policy |-> "everysec", noFsyncOnRewrite |-> FALSE, threads |-> FALSE,
     cmds |-> 2, err |-> 1, full |-> 0, rewrite |-> 2, toggle |-> 0, crash |-> 1]
Toggle ==
    [policy |-> "everysec", noFsyncOnRewrite |-> TRUE, threads |-> FALSE,
     cmds |-> 2, err |-> 1, full |-> 0, rewrite |-> 1, toggle |-> 3, crash |-> 0]

mcAll == {Always, AlwaysLoose, Everysec, Toggle}
=============================================================================
