---------------------------- MODULE MCLatencyBatch ----------------------------
(* Three rotations: light is Fast/Lite, its batch of 6 may grow to 7; twin   *)
(* is of its CryptoNight family and recalls what light has saved for it;     *)
(* heavy has larger scratchpads that allow 2 of its preferred 4.             *)
EXTENDS LatencyBatch

MCPage == [r \in Rotations |-> IF r # "heavy" THEN 1 ELSE 4]
MCPreferred == [r \in Rotations |-> IF r # "heavy" THEN {6, 7} ELSE {4, 6}]
MCCnFamily == [r \in Rotations |-> IF r = "heavy" THEN "heavy" ELSE "fast"]
MCClassBatch == [r \in Rotations |-> IF r # "heavy" THEN 6 ELSE 2]

\* With the latency target on, an experimental kernel keeps the geometry out
\* of the way; with it off the rotations and the cap that changes batches are
\* a light job, its growth and the cap.
MCInit == Init /\ IF latency THEN ~retune /\ experiment = "untested"
                  ELSE family[CnFamily["light"]] = 0
MCSpec == MCInit /\ [][Next]_vars

\* Which slot holds a batch matters only once there are too few.
MCView == <<retune, experiment, job, cap, size, grown, active, live,
            {slots[i] : i \in DOMAIN slots}, files, clientVars>>

\* Latency and geometry apart; twin goes as far as its first scan that teaches.
MCApart == IF latency
           THEN experiment # "fail" /\ cap = 0 /\ memory["twin"].samples = 0
           ELSE job = None \/ job = "light"
=============================================================================
