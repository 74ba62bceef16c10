--------------------------- MODULE StatusRegister ---------------------------
(***************************************************************************)
(* What the state file of fanctl promises its readers: a register that     *)
(* holds one whole status or none.  A read returns what it holds at one    *)
(* moment.                                                                 *)
(***************************************************************************)
CONSTANTS
  Values,   \* the statuses
  None      \* no status

VARIABLES
  published,  \* what the register holds
  got         \* what the last read returned

Init == published = None /\ got = None

Publish(v) == published' = v /\ UNCHANGED got
Withdraw == published' = None /\ UNCHANGED got
Read == got' = published /\ UNCHANGED published

Next == (\E v \in Values : Publish(v)) \/ Withdraw \/ Read

Spec == Init /\ [][Next]_<<published, got>>
=============================================================================
