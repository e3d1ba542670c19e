----------------------------- MODULE MCSentinel -----------------------------
(* The settings in which the Sentinels are run.                              *)
EXTENDS Sentinel

CONSTANTS s1, s2, s3, m, ra, rb, rc, rd

\* Two candidates for one epoch.
Contest(crashes, losses, asked, broken) ==
    [sentinels |-> {s1, s2, s3}, instances |-> {m}, fair |-> FALSE, parallel |-> 1,
     seers |-> {s1, s2}, forcers |-> {}, tilters |-> {}, faulty |-> broken,
     epoch |-> 1, crash |-> crashes, loss |-> losses, fix |-> 0, flap |-> 0, ask |-> asked,
     hello |-> 0]

\* A lost link and a repeated request; a crash, a lost link, and a voter that
\* may fail to save its vote.
Elections == {Contest(0, 1, 3, {}), Contest(1, 1, 2, {s3})}

\* An elected and a forced failover, two epochs.
Config(crashes, hellos) ==
    [sentinels |-> {s1, s2}, instances |-> {m, ra}, fair |-> FALSE, parallel |-> 1,
     seers |-> {s1}, forcers |-> {s2}, tilters |-> {}, faulty |-> {},
     epoch |-> 2, crash |-> crashes, loss |-> 0, fix |-> 0, flap |-> 0, ask |-> 1,
     hello |-> hellos]

Configs == {Config(0, 2), Config(1, 1)}

\* A Sentinel that may forget the failover it has led, and leads another.
Forgetful ==
    [sentinels |-> {s2}, instances |-> {m, ra, rb}, fair |-> FALSE, parallel |-> 1,
     seers |-> {}, forcers |-> {s2}, tilters |-> {}, faulty |-> {s2},
     epoch |-> 1, crash |-> 1, loss |-> 0, fix |-> 0, flap |-> 0, ask |-> 0, hello |-> 1]

\* Replicas are pointed at the new master one by one, everything may fail once.
Reconf ==
    [sentinels |-> {s1}, instances |-> {m, ra, rb, rc}, fair |-> FALSE, parallel |-> 1,
     seers |-> {s1}, forcers |-> {}, tilters |-> {s1}, faulty |-> {},
     epoch |-> 1, crash |-> 1, loss |-> 1, fix |-> 1, flap |-> 1, ask |-> 4, hello |-> 1]

\* Three replicas, two at a time.
Syncs ==
    [sentinels |-> {s1}, instances |-> {m, ra, rb, rc, rd}, fair |-> FALSE, parallel |-> 2,
     seers |-> {s1}, forcers |-> {}, tilters |-> {}, faulty |-> {},
     epoch |-> 1, crash |-> 0, loss |-> 0, fix |-> 0, flap |-> 0, ask |-> 0, hello |-> 0]

\* Contending failovers, an elected and a forced one, fairness and no faults.
Live ==
    [sentinels |-> {s1, s2}, instances |-> {m, ra}, fair |-> TRUE, parallel |-> 1,
     seers |-> {s1, s2}, forcers |-> {s2}, tilters |-> {}, faulty |-> {},
     epoch |-> 1, crash |-> 0, loss |-> 0, fix |-> 0, flap |-> 0, ask |-> 1, hello |-> 3]

mcAll == Elections \union Configs \union {Forgetful, Reconf, Syncs, Live}
=============================================================================
