-------------------------------- MODULE I2cBus --------------------------------
(***************************************************************************)
(* What the I2C driver promises its clients: transfers are carried out in  *)
(* the order they were submitted, one at a time, and the end of each is    *)
(* told once to the client that submitted it, if it still listens.  A      *)
(* client may withdraw its transfers, and one that leaves is told no more. *)
(***************************************************************************)
EXTENDS Positions

VARIABLES
    waiting,    \* the transfers, oldest first: [by |-> client, id |-> transfer]
    listening,  \* the clients that want to be told
    told        \* the report of the last step

busVars == <<waiting, listening, told>>

Silence == [to |-> <<0, 0>>, id |-> <<0, 0>>, event |-> "none"]

BusInit == waiting = <<>> /\ listening = {} /\ told = Silence

(* The last of waiting' is new.                                            *)
Joined(before) ==
    /\ waiting' # <<>>
    /\ waiting' = Append(before, waiting'[Len(waiting')])
    /\ \A k \in DOMAIN before : before[k].id # waiting'[Len(waiting')].id

Submit == Joined(waiting) /\ told' = Silence /\ UNCHANGED listening

(* The oldest transfer ends; its client may submit another when told.      *)
Serve ==
    /\ waiting # <<>>
    /\ LET served == Head(waiting)
       IN  IF served.by \in listening
           THEN /\ told'.event \in {"complete", "error"}
                /\ told' = [to |-> served.by, id |-> served.id, event |-> told'.event]
                /\ \/ waiting' = Tail(waiting)
                   \/ Joined(Tail(waiting)) /\ waiting'[Len(waiting')].by = served.by
           ELSE told' = Silence /\ waiting' = Tail(waiting)
    /\ UNCHANGED listening

(* A client takes its transfers back, with or without the one under way.   *)
Withdraw ==
    /\ told' = Silence /\ UNCHANGED listening
    /\ \E k \in DOMAIN waiting :
         LET theirs == {j \in DOMAIN waiting : waiting[j].by = waiting[k].by}
         IN  waiting' \in {Without(waiting, theirs), Without(waiting, theirs \ {1})}

Attend == waiting' = waiting /\ told' = Silence

BusBehaviour ==
    BusInit /\ [][Submit \/ Serve \/ Withdraw \/ Attend]_busVars
=============================================================================
