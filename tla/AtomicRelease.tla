---------------------------- MODULE AtomicRelease ----------------------------
(***************************************************************************)
(* What deploy-server.sh promises to whoever looks at a service while no   *)
(* deployment runs: runs take turns, and each replaces the live release by *)
(* its own in one step or leaves it alone.                                 *)
(***************************************************************************)
CONSTANT Runs   \* neither "old" nor "free" is one

VARIABLES
    live,     \* the release that is live whenever the holder is "free"
    holder,   \* the run whose turn it is
    turns     \* the runs that have had their turn

Init == live = "old" /\ holder = "free" /\ turns = {}

Begin(r) ==
    /\ holder = "free"
    /\ r \notin turns
    /\ holder' = r
    /\ turns' = turns \cup {r}
    /\ UNCHANGED live

End(r) ==
    /\ holder = r
    /\ holder' = "free"
    /\ live' \in {live, r}
    /\ UNCHANGED turns

Next == \E r \in Runs : Begin(r) \/ End(r)

Spec == Init /\ [][Next]_<<live, holder, turns>>
=============================================================================
