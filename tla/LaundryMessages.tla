-------------------------- MODULE LaundryMessages --------------------------
(***************************************************************************)
(* One board and two who listen: LaundryStream's server, which gets every  *)
(* message since the board booted, and LaundryDelivery's, which gets those *)
(* that are not dropped and is not told of a reboot.                       *)
(***************************************************************************)
EXTENDS LaundryStream, LaundryDelivery

mvars == <<vars, view, server, fate>>

MInit == SInit /\ DInit

MSample == Sample /\ UNCHANGED <<view, server, fate>>

MJudge(ch) == SJudge(ch) /\ DJudge(ch)

MTick == Tick /\ UNCHANGED <<view, server, fate>>

\* Who gets every message since boot begins anew.
MReboot == Reboot /\ view' = [ch \in Channels |-> NewView]

MNext == MSample \/ (\E ch \in Channels : MJudge(ch)) \/ MTick \/ MReboot

MSpec == MInit /\ [][MNext]_mvars
=============================================================================
