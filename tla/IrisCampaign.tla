---------------------------- MODULE IrisCampaign ----------------------------
(***************************************************************************)
(* What a protected run promises, whoever carries it out: its stages work  *)
(* one at a time and in order, each on complete evidence of the earlier;   *)
(* after a stage is lost none begins; the verdict is given once and is     *)
(* positive only for the whole list; results are delivered at most once    *)
(* and only after the verdict; nothing happens after power-off.            *)
(***************************************************************************)
EXTENDS Naturals

CONSTANT NStages

VARIABLES complete, working, lost, verdict, delivered, off

campaign == <<complete, working, lost, verdict, delivered, off>>

Init ==
  /\ complete = {} /\ working = {} /\ lost = {}
  /\ verdict = "open" /\ delivered = FALSE /\ off = FALSE

Begin(k) ==
  /\ verdict = "open" /\ working = {} /\ lost = {}
  /\ complete = 1..(k-1)
  /\ working' = {k}
  /\ UNCHANGED <<complete, lost, verdict, delivered>>

Complete(k) ==
  /\ k \in working
  /\ complete' = complete \cup {k}
  /\ working' = working \ {k}
  /\ UNCHANGED <<lost, verdict, delivered>>

Lose(k) ==
  /\ k \in working
  /\ lost' = lost \cup {k}
  /\ working' = working \ {k}
  /\ UNCHANGED <<complete, verdict, delivered>>

Pass ==
  /\ verdict = "open" /\ complete = 1..NStages
  /\ verdict' = "passed"
  /\ UNCHANGED <<complete, working, lost, delivered>>

Fail ==
  /\ verdict = "open"
  /\ verdict' = "failed"
  /\ UNCHANGED <<complete, working, lost, delivered>>

Receive ==
  /\ verdict # "open" /\ ~delivered
  /\ delivered' = TRUE
  /\ UNCHANGED <<complete, working, lost, verdict>>

PowerOff ==
  /\ off' = TRUE
  /\ UNCHANGED <<complete, working, lost, verdict, delivered>>

Next ==
  /\ ~off
  /\ \/ PowerOff
     \/ /\ off' = FALSE
        /\ \/ \E k \in 1..NStages : Begin(k) \/ Complete(k) \/ Lose(k)
           \/ Pass \/ Fail \/ Receive

Spec == Init /\ [][Next]_campaign

=============================================================================
